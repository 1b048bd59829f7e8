----------------------------- MODULE AlertBatch -----------------------------
(***************************************************************************)
(* What the webhook handler does with the alerts of one payload before it  *)
(* submits them: Handler.mapAlerts (internal/webhook/handler.go) and, in   *)
(* it, Aggregator.Merge (internal/checkresult/aggregate.go).  Payloads are *)
(* handled one after the other; the counters live on.                      *)
(*                                                                         *)
(* The rules, the resolver and the templates appear as what they make of   *)
(* each alert: a fate, a target and a code; MappingRules models how those  *)
(* come about.  The summary text of a merged checkresult is the set of     *)
(* alerts it describes.                                                    *)
(***************************************************************************)
EXTENDS NagiosStates, Sequences, FiniteSets

CONSTANTS Alerts,       \* alerts that payloads are made of
          Targets,      \* Nagios objects, as Target reduces checkresults
          CheckTypeOf,  \* CheckTypeOf[t]: "service" or "host"
          Firing,       \* the alerts whose status is not "resolved"
          Fate,         \* Fate[a]: what Resolve and Build make of alert a
          TargetOf,     \* TargetOf[a]: the Nagios object a is for
          CodeOf,       \* CodeOf[a]: the code the resolver gives a
          EnabledIn,    \* values of aggregation.enabled in the configs
          SummaryFails, \* member sets on which aggregation.output fails
          MaxAlerts,    \* bound: alerts in all payloads together
          MaxPayloads   \* bound: payloads handled

Fates == {"unmatched", "error", "invalid", "entry"}

ASSUME BatchAssumption ==
    /\ CheckTypeOf \in [Targets -> CheckTypes]
    /\ Firing \subseteq Alerts
    /\ Fate \in [Alerts -> Fates]
    /\ TargetOf \in [Alerts -> Targets]
    /\ CodeOf \in [Alerts -> Int]
    \* CheckResultsAreUsable of MappingRules:
    /\ \A a \in Alerts :
          Fate[a] = "entry" => CodeOf[a] \in Codes(CheckTypeOf[TargetOf[a]])
    /\ EnabledIn \subseteq BOOLEAN
    /\ SummaryFails \subseteq SUBSET Alerts
    /\ MaxAlerts \in Nat
    /\ MaxPayloads \in Nat

VARIABLES pc,           \* "map", "group", "merge" or "done"
          payload,      \* the alerts of the payload in hand
          next,         \* the loop index of the phase
          entries,      \* the alerts that were mapped
          seen,         \* the targets they are for
          order,        \* targets in the order first seen
          groups,       \* the entries of each target
          out,          \* the checkresults to submit
          received, unmatched, invalid, duplicates, forwarded, \* metrics
          ways          \* history: how the batches so far ended

local   == <<payload, entries, seen, order, groups, out>>
metrics == <<received, unmatched, invalid, duplicates, forwarded>>
vars    == <<pc, payload, next, entries, seen, order, groups, out, metrics, ways>>

\* Payloads of up to k alerts.
PayloadsUpTo(k) == UNION {[1 .. n -> Alerts] : n \in 0 .. k}

rangeOf(s) == {s[n] : n \in 1 .. Len(s)}

\* A checkresult, with the alerts its output describes.
CheckResults == [target : Targets, state : Int, about : SUBSET Alerts]

\* The checkresult Build makes of one alert.
single(a) == [target |-> TargetOf[a], state |-> CodeOf[a], about |-> {a}]

\* Faulty variant: the fallback walks the entries backwards.
unmergedReversed(es) == [n \in 1 .. Len(es) |-> single(es[Len(es) + 1 - n])]

\* The checkresults as they are, one for each entry.
unmerged(es) == [n \in 1 .. Len(es) |-> single(es[n])]

\* Faulty variant: resolved members have a say while others are firing.
decidingAll(S) == S

\* The members of a group that decide its state.
deciding(S) == IF S \cap Firing = {} THEN S ELSE S \cap Firing

\* mergeGroup: the worst state among the members that decide.
merged(t, S) == [target |-> t,
                 state  |-> WorstOf(CheckTypeOf[t], {CodeOf[a] : a \in deciding(S)}),
                 about  |-> S]

\* A payload arrives: ServeHTTP counts it, mapAlerts starts afresh.
begin(p) == /\ payload' = p
            /\ pc' = "map"
            /\ next' = 1
            /\ entries' = <<>>
            /\ seen' = {}
            /\ order' = <<>>
            /\ groups' = [t \in Targets |-> <<>>]
            /\ out' = <<>>

Init == /\ payload \in PayloadsUpTo(MaxAlerts)
        /\ pc = "map"
        /\ next = 1
        /\ entries = <<>>
        /\ seen = {}
        /\ order = <<>>
        /\ groups = [t \in Targets |-> <<>>]
        /\ out = <<>>
        /\ received = Len(payload)
        /\ unmatched = 0
        /\ invalid = 0
        /\ duplicates = 0
        /\ forwarded = 0
        /\ ways = <<>>

-----------------------------------------------------------------------------
(* mapAlerts: one alert after the other.                                   *)

mapping == pc = "map" /\ next <= Len(payload)

\* No rule matches, or the first rule that does fails to render.
SkipUnmatched == /\ mapping
                 /\ Fate[payload[next]] \in {"unmatched", "error"}
                 /\ next' = next + 1
                 /\ unmatched' = unmatched + 1
                 /\ UNCHANGED <<pc, local, received, invalid, duplicates,
                                forwarded, ways>>

\* The rule renders an empty host or service name.
SkipInvalid == /\ mapping
               /\ Fate[payload[next]] = "invalid"
               /\ next' = next + 1
               /\ invalid' = invalid + 1
               /\ UNCHANGED <<pc, local, received, unmatched, duplicates,
                              forwarded, ways>>

\* Faulty variant: whole checkresults are remembered instead of their targets.
KeepEntryUnreduced ==
    LET a == payload[next]
    IN  /\ mapping
        /\ Fate[a] = "entry"
        /\ next' = next + 1
        /\ entries' = Append(entries, a)
        /\ seen' = seen \cup {single(a)}
        /\ duplicates' = IF single(a) \in seen THEN duplicates + 1
                                                ELSE duplicates
        /\ UNCHANGED <<pc, payload, order, groups, out, received, unmatched,
                       invalid, forwarded, ways>>

\* The alert becomes an entry; a target met before is counted.
KeepEntry ==
    LET a == payload[next]
    IN  /\ mapping
        /\ Fate[a] = "entry"
        /\ next' = next + 1
        /\ entries' = Append(entries, a)
        /\ seen' = seen \cup {TargetOf[a]}
        /\ duplicates' = IF TargetOf[a] \in seen THEN duplicates + 1
                                                 ELSE duplicates
        /\ UNCHANGED <<pc, payload, order, groups, out, received, unmatched,
                       invalid, forwarded, ways>>

\* How Merge ends without an error: no two entries shared a target, or those
\* that did were merged.
Aggregated == {"distinct", "merged"}

Ways == Aggregated \cup {"unmerged", "disabled"}

\* The batch is ready to be submitted as the results rs.
finish(rs, how) == /\ pc' = "done"
                   /\ out' = rs
                   /\ forwarded' = forwarded + Len(rs)
                   /\ ways' = Append(ways, how)

\* The loop is over; Merge groups the entries, or returns them as they are if
\* the config the request runs with has aggregation.enabled off.
EndMapping == /\ pc = "map"
              /\ next > Len(payload)
              /\ \/ /\ TRUE \in EnabledIn
                    /\ pc' = "group"
                    /\ next' = 1
                    /\ UNCHANGED <<out, forwarded, ways>>
                 \/ /\ FALSE \in EnabledIn
                    /\ finish(unmerged(entries), "disabled")
                    /\ UNCHANGED next
              /\ UNCHANGED <<payload, entries, seen, order, groups, received,
                             unmatched, invalid, duplicates>>

-----------------------------------------------------------------------------
(* Merge: group the entries by target, then one checkresult per target.    *)

\* Faulty variant: a new target goes to the front.
GroupEntryReversed ==
    LET t == TargetOf[entries[next]]
    IN  /\ pc = "group"
        /\ next <= Len(entries)
        /\ order' = IF groups[t] = <<>> THEN <<t>> \o order ELSE order
        /\ groups' = [groups EXCEPT ![t] = Append(@, entries[next])]
        /\ next' = next + 1
        /\ UNCHANGED <<pc, payload, entries, seen, out, metrics, ways>>

\* Faulty variant: the target is listed for each of its entries.
GroupEntryRelisted ==
    LET t == TargetOf[entries[next]]
    IN  /\ pc = "group"
        /\ next <= Len(entries)
        /\ order' = Append(order, t)
        /\ groups' = [groups EXCEPT ![t] = Append(@, entries[next])]
        /\ next' = next + 1
        /\ UNCHANGED <<pc, payload, entries, seen, out, metrics, ways>>

GroupEntry ==
    LET t == TargetOf[entries[next]]
    IN  /\ pc = "group"
        /\ next <= Len(entries)
        /\ order' = IF groups[t] = <<>> THEN Append(order, t) ELSE order
        /\ groups' = [groups EXCEPT ![t] = Append(@, entries[next])]
        /\ next' = next + 1
        /\ UNCHANGED <<pc, payload, entries, seen, out, metrics, ways>>

EndGrouping == /\ pc = "group"
               /\ next > Len(entries)
               /\ pc' = "merge"
               /\ next' = 1
               /\ UNCHANGED <<local, metrics, ways>>

\* A target with one alert is passed through, others are merged.
MergeTarget ==
    LET t       == order[next]
        members == groups[t]
    IN  /\ pc = "merge"
        /\ next <= Len(order)
        /\ \/ Len(members) = 1
           \/ rangeOf(members) \notin SummaryFails
        /\ out' = Append(out, IF Len(members) = 1 THEN single(members[1])
                              ELSE merged(t, rangeOf(members)))
        /\ next' = next + 1
        /\ UNCHANGED <<pc, payload, entries, seen, order, groups, metrics, ways>>

\* Faulty variant: what was merged before the failure is submitted.
FallBackPartial ==
    LET members == groups[order[next]]
    IN  /\ pc = "merge"
        /\ next <= Len(order)
        /\ Len(members) # 1
        /\ rangeOf(members) \in SummaryFails
        /\ finish(out, "unmerged")
        /\ UNCHANGED <<payload, next, entries, seen, order, groups, received,
                       unmatched, invalid, duplicates>>

\* The summary template fails on a group: everything is submitted unmerged.
FallBack ==
    LET members == groups[order[next]]
    IN  /\ pc = "merge"
        /\ next <= Len(order)
        /\ Len(members) # 1
        /\ rangeOf(members) \in SummaryFails
        /\ finish(unmerged(entries), "unmerged")
        /\ UNCHANGED <<payload, next, entries, seen, order, groups, received,
                       unmatched, invalid, duplicates>>

EndMerging == /\ pc = "merge"
              /\ next > Len(order)
              /\ finish(out, IF Len(entries) = Len(order) THEN "distinct"
                                                        ELSE "merged")
              /\ UNCHANGED <<payload, next, entries, seen, order, groups,
                             received, unmatched, invalid, duplicates>>

-----------------------------------------------------------------------------
\* Another payload.  Its handler shares nothing with the last one's but the
\* counters.
NextPayload == /\ pc = "done"
               /\ Len(ways) < MaxPayloads
               /\ \E p \in PayloadsUpTo(MaxAlerts - received) :
                     /\ begin(p)
                     /\ received' = received + Len(p)
               /\ UNCHANGED <<unmatched, invalid, duplicates, forwarded, ways>>

Next == \/ SkipUnmatched \/ SkipInvalid \/ KeepEntry \/ EndMapping
        \/ GroupEntry \/ EndGrouping
        \/ MergeTarget \/ FallBack \/ EndMerging
        \/ NextPayload

Spec == Init /\ [][Next]_vars

-----------------------------------------------------------------------------
TypeOK == /\ pc \in {"map", "group", "merge", "done"}
          /\ payload \in Seq(Alerts)
          /\ next \in Nat \ {0}
          /\ entries \in Seq(Alerts)
          /\ seen \in SUBSET Targets
          /\ order \in Seq(Targets)
          /\ groups \in [Targets -> Seq(Alerts)]
          /\ out \in Seq(CheckResults)
          /\ received \in Nat
          /\ unmatched \in Nat
          /\ invalid \in Nat
          /\ duplicates \in Nat
          /\ forwarded \in Nat
          /\ ways \in Seq(Ways)

\* The alerts of the payload that have a usable target.
kept == {a \in rangeOf(payload) : Fate[a] = "entry"}

\* Those of them that are for target t.
keptFor(t) == {a \in kept : TargetOf[a] = t}

\* How the batch in hand ended.
way == ways[Len(ways)]

\* Whatever the summary template does, no alert with a usable target goes
\* missing: some checkresult of the request is for its target and describes
\* it, and no checkresult describes an alert that is not for its target.
NothingDropped ==
    pc = "done" =>
        /\ \A a \in kept : \E n \in 1 .. Len(out) :
              out[n].target = TargetOf[a] /\ a \in out[n].about
        /\ \A n \in 1 .. Len(out) : out[n].about \subseteq keptFor(out[n].target)

\* A merged request has one checkresult for each target, so that NRDP, which
\* applies a batch in order, has no second one to overwrite the first with.
OneResultPerTarget ==
    (pc = "done" /\ way \in Aggregated) =>
        \A m, n \in 1 .. Len(out) : out[m].target = out[n].target => m = n

\* A merged checkresult reports the state of one of the target's firing
\* alerts, and none of them is worse; only when all have resolved does it
\* report a resolved state.  One recovered instance never clears a check its
\* siblings are still alerting on, wherever it stands in the payload.
ShowsWorstFiring ==
    (pc = "done" /\ way \in Aggregated) =>
        \A n \in 1 .. Len(out) :
            LET t      == out[n].target
                firing == keptFor(t) \cap Firing
                voters == IF firing = {} THEN keptFor(t) ELSE firing
            IN  /\ \E a \in voters : out[n].state = CodeOf[a]
                /\ \A a \in voters : severity[CheckTypeOf[t]][CodeOf[a]]
                                        <= severity[CheckTypeOf[t]][out[n].state]

\* A request that is not merged leaves every target in the state of the last
\* alert the payload has for it, once NRDP has applied it in order.
LastAlertWins ==
    (pc = "done" /\ way \notin Aggregated) =>
        \A n \in 1 .. Len(out) :
            (\A k \in n + 1 .. Len(out) : out[k].target # out[n].target) =>
                \E i \in 1 .. Len(payload) :
                    /\ payload[i] \in keptFor(out[n].target)
                    /\ CodeOf[payload[i]] = out[n].state
                    /\ \A j \in i + 1 .. Len(payload) :
                          payload[j] \notin keptFor(out[n].target)

\* Checkresults come in the order in which their targets first appear in the
\* payload, so that the same payload always makes the same request.
FirstSeenOrder ==
    (pc = "done" /\ way \in Aggregated) =>
        \A m, n \in 1 .. Len(out) :
            m < n => \E i \in 1 .. Len(payload) :
                        /\ payload[i] \in keptFor(out[m].target)
                        /\ \A j \in 1 .. i :
                              payload[j] \notin keptFor(out[n].target)

\* The counters account for every alert received: it was skipped and counted,
\* it was merged into an earlier one and counted, or a checkresult was made of
\* it.  As long as batches are merged, nothing is counted twice or not at all.
LedgerBalances ==
    (pc = "done" /\ \A n \in 1 .. Len(ways) : ways[n] \in Aggregated) =>
        received = unmatched + invalid + duplicates + forwarded

-----------------------------------------------------------------------------
(* What a comment says, and the code does not do.                          *)

\* "Only a bad aggregation output template can get here, and it would fail for
\* every payload alike" (internal/webhook/handler.go:132): of the batches with
\* colliding alerts and the same config, either all fall back or none does.
FallbackIsUniform ==
    ~ \E m, n \in 1 .. Len(ways) : ways[m] = "merged" /\ ways[n] = "unmerged"
=============================================================================
