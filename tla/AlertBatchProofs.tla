-------------------------- MODULE AlertBatchProofs --------------------------
(***************************************************************************)
(* What holds of a webhook payload's way through mapAlerts and Merge, for  *)
(* every set of alerts, every rule set and every summary template.         *)
(***************************************************************************)
EXTENDS AlertBatch, SequenceTheorems, FunctionTheorems, FiniteSetTheorems, TLAPS

\* The alerts with a usable target among the first n of the payload.
mappedUpTo(n) == {a \in Alerts : /\ Fate[a] = "entry"
                                 /\ \E i \in 1 .. n : payload[i] = a}

\* The entries for target t among the first n.
groupedUpTo(t, n) == {a \in Alerts : /\ TargetOf[a] = t
                                     /\ \E i \in 1 .. n : entries[i] = a}

\* The entries are the mapped alerts the loop has passed.
EntriesInv ==
    /\ pc = "map" => /\ next <= Len(payload) + 1
                     /\ rangeOf(entries) = mappedUpTo(next - 1)
    /\ pc # "map" => rangeOf(entries) = kept

\* No target is listed twice, and a target is listed once it has a member.
OrderInv ==
    /\ \A m, n \in 1 .. Len(order) : order[m] = order[n] => m = n
    /\ \A t \in Targets : t \in rangeOf(order) <=> rangeOf(groups[t]) # {}

\* The groups hold the entries the loop has passed.
GroupsInv ==
    /\ pc = "map" => \A t \in Targets : groups[t] = <<>>
    /\ pc \in {"map", "group", "merge"} => OrderInv
    /\ pc \in {"map", "group"} => out = <<>>
    /\ pc = "map" => order = <<>>
    /\ pc = "group" =>
          /\ next <= Len(entries) + 1
          /\ \A t \in Targets : rangeOf(groups[t]) = groupedUpTo(t, next - 1)
    /\ pc = "merge" => \A t \in Targets : rangeOf(groups[t]) = keptFor(t)

\* The checkresults so far are those of the first targets in the order.
MergedInv == \A n \in 1 .. Len(out) : /\ order[n] \in Targets
                                      /\ out[n] = merged(order[n], keptFor(order[n]))
                                      /\ keptFor(order[n]) # {}

\* A finished batch is merged completely or not at all.
OutInv ==
    /\ pc = "merge" => /\ next <= Len(order) + 1
                       /\ out \in Seq(CheckResults)
                       /\ Len(out) = next - 1
                       /\ MergedInv
    /\ pc = "done" =>
          /\ ways # <<>>
          /\ way \in Aggregated => /\ MergedInv
                                   /\ out \in Seq(CheckResults)
                                   /\ OrderInv
                                   /\ Len(out) = Len(order)
                                   /\ \A t \in Targets :
                                         rangeOf(groups[t]) = keptFor(t)
          /\ way \notin Aggregated => out = unmerged(entries)

-----------------------------------------------------------------------------
(* Sequences.                                                              *)

\* Appending adds one element to the range.
LEMMA RangeAppend ==
    ASSUME NEW S, NEW s \in Seq(S), NEW x \in S
    PROVE  rangeOf(Append(s, x)) = rangeOf(s) \cup {x}
  BY AppendProperties, LenProperties, SMT DEF rangeOf

\* The bound on alerts is a number.
LEMMA MaxAlertsInt == MaxAlerts \in Int
  BY BatchAssumption

\* A payload is a sequence of alerts.
LEMMA PayloadsAreSequences ==
    \A k \in Int : PayloadsUpTo(k) \subseteq Seq(Alerts)
<1> SUFFICES ASSUME NEW k \in Int, NEW n \in 0 .. k, NEW p \in [1 .. n -> Alerts]
             PROVE  p \in Seq(Alerts)
  BY DEF PayloadsUpTo
<1>1. n \in Nat
  BY SMT
<1> QED BY <1>1, SeqDef

-----------------------------------------------------------------------------
(* The most severe state.                                                  *)

\* The most severe of some codes a check can hold exists: it is one of them,
\* and none is more severe.
LEMMA WorstIsWorst ==
    ASSUME NEW t \in CheckTypes, NEW S \in SUBSET Codes(t), S # {}
    PROVE  /\ WorstOf(t, S) \in S
           /\ \A d \in S : severity[t][d] <= severity[t][WorstOf(t, S)]
<1>1. \E c \in S : \A d \in S : severity[t][d] <= severity[t][c]
  <2>1. CASE t = "service"
    <3>1. /\ severity[t][0] = 0 /\ severity[t][1] = 1
          /\ severity[t][2] = 3 /\ severity[t][3] = 2
      BY <2>1, SMT DEF severity
    <3>2. \A d \in S : d \in {0, 1, 2, 3}
      BY <2>1, SMT DEF Codes
    <3>3. CASE 2 \in S
      BY <3>1, <3>2, <3>3, SMT
    <3>4. CASE 2 \notin S /\ 3 \in S
      BY <3>1, <3>2, <3>4, SMT
    <3>5. CASE 2 \notin S /\ 3 \notin S /\ 1 \in S
      BY <3>1, <3>2, <3>5, SMT
    <3>6. CASE 2 \notin S /\ 3 \notin S /\ 1 \notin S
      BY <3>1, <3>2, <3>6, SMT
    <3> QED BY <3>3, <3>4, <3>5, <3>6
  <2>2. CASE t = "host"
    <3>1. severity[t][0] = 0 /\ severity[t][1] = 2 /\ severity[t][2] = 1
      BY <2>2, SMT DEF severity
    <3>2. \A d \in S : d \in {0, 1, 2}
      BY <2>2, SMT DEF Codes
    <3>3. CASE 1 \in S
      BY <3>1, <3>2, <3>3, SMT
    <3>4. CASE 1 \notin S /\ 2 \in S
      BY <3>1, <3>2, <3>4, SMT
    <3>5. CASE 1 \notin S /\ 2 \notin S
      BY <3>1, <3>2, <3>5, SMT
    <3> QED BY <3>3, <3>4, <3>5
  <2> QED BY <2>1, <2>2 DEF CheckTypes
<1> DEFINE W(c) == c \in S /\ \A d \in S : severity[t][d] <= severity[t][c]
<1>2. \E c : W(c)
  BY <1>1
<1>3. WorstOf(t, S) = CHOOSE c \in S : \A d \in S : severity[t][d] <= severity[t][c]
  BY DEF WorstOf
<1> QED BY <1>1, <1>3

\* The codes of entries for one target are codes its check can hold.
LEMMA CodesOfTarget ==
    ASSUME NEW t \in Targets, NEW S \in SUBSET Alerts,
           \A a \in S : TargetOf[a] = t /\ Fate[a] = "entry"
    PROVE  {CodeOf[a] : a \in deciding(S)} \in SUBSET Codes(CheckTypeOf[t])
  BY BatchAssumption DEF deciding

\* A lone alert's checkresult is what merging it would give.
LEMMA SingleIsMerged ==
    ASSUME NEW a \in Alerts, Fate[a] = "entry"
    PROVE  single(a) = merged(TargetOf[a], {a})
<1>1. deciding({a}) = {a}
  BY DEF deciding
<1>2. {CodeOf[b] : b \in deciding({a})} = {CodeOf[a]}
  BY <1>1
<1>3. /\ CodeOf[a] \in Codes(CheckTypeOf[TargetOf[a]])
      /\ CheckTypeOf[TargetOf[a]] \in CheckTypes
  BY BatchAssumption
<1>4. WorstOf(CheckTypeOf[TargetOf[a]], {CodeOf[a]}) = CodeOf[a]
  BY <1>3, WorstIsWorst
<1> QED BY <1>2, <1>4 DEF single, merged

-----------------------------------------------------------------------------
(* Types, except that of the checkresults, which needs the groups.         *)

TypeInv == /\ pc \in {"map", "group", "merge", "done"}
           /\ payload \in Seq(Alerts)
           /\ next \in Nat \ {0}
           /\ entries \in Seq(Alerts)
           /\ seen \in SUBSET Targets
           /\ order \in Seq(Targets)
           /\ groups \in [Targets -> Seq(Alerts)]
           /\ received \in Nat
           /\ unmatched \in Nat
           /\ invalid \in Nat
           /\ duplicates \in Nat
           /\ ways \in Seq(Ways)

\* The empty lists a payload starts with.
LEMMA EmptyLists == /\ <<>> \in Seq(Alerts) /\ <<>> \in Seq(Targets)
                    /\ <<>> \in Seq(CheckResults)
                    /\ <<>> \in Seq(Ways)
                    /\ Len(<<>>) = 0 /\ rangeOf(<<>>) = {}
<1>1. Len(<<>>) = 0
  BY EmptySeq
<1>2. rangeOf(<<>>) = {}
  BY <1>1, SMT DEF rangeOf
<1> QED BY <1>1, <1>2, EmptySeq

\* The history takes one more ending.
LEMMA AppendWay ==
    ASSUME TypeInv
    PROVE  /\ Append(ways, "disabled") \in Seq(Ways)
           /\ Append(ways, "unmerged") \in Seq(Ways)
           /\ \A w \in Aggregated : Append(ways, w) \in Seq(Ways)
<1>1. \A w \in Ways : Append(ways, w) \in Seq(Ways)
  BY AppendProperties DEF TypeInv
<1> QED BY <1>1 DEF Ways

\* The types other than that of the checkresults are inductive by themselves.
LEMMA TypesInductive ==
    ASSUME TypeInv, [Next]_vars
    PROVE  TypeInv'
<1>1. CASE SkipUnmatched
  BY <1>1, SMT DEF SkipUnmatched, mapping, local, TypeInv
<1>2. CASE SkipInvalid
  BY <1>2, SMT DEF SkipInvalid, mapping, local, TypeInv
<1>3. CASE KeepEntry
  <2>1. next \in 1 .. Len(payload)
    BY <1>3, LenProperties, SMT DEF KeepEntry, mapping, TypeInv
  <2>2. payload[next] \in Alerts
    BY <2>1, ElementOfSeq DEF TypeInv
  <2>3. TargetOf[payload[next]] \in Targets
    BY <2>2, BatchAssumption
  <2>4. Append(entries, payload[next]) \in Seq(Alerts)
    BY <2>2, AppendProperties DEF TypeInv
  <2>5. duplicates' \in Nat /\ next' \in Nat \ {0}
    BY <1>3, SMT DEF KeepEntry, TypeInv
  <2> QED BY <1>3, <2>3, <2>4, <2>5 DEF KeepEntry, TypeInv
<1>4. CASE EndMapping
  <2>1. ways' = ways \/ ways' = Append(ways, "disabled")
    BY <1>4 DEF EndMapping, finish
  <2>2. ways' \in Seq(Ways)
    BY <2>1, AppendWay DEF TypeInv
  <2>3. /\ pc' \in {"group", "done"} /\ next' \in {1, next}
        /\ UNCHANGED <<payload, entries, seen, order, groups, received,
                       unmatched, invalid, duplicates>>
    BY <1>4 DEF EndMapping, finish
  <2> QED BY <2>2, <2>3, SMT DEF TypeInv
<1>5. CASE GroupEntry
  <2> DEFINE t == TargetOf[entries[next]]
  <2>1. next \in 1 .. Len(entries)
    BY <1>5, LenProperties, SMT DEF GroupEntry, TypeInv
  <2>2. entries[next] \in Alerts
    BY <2>1, ElementOfSeq DEF TypeInv
  <2>3. t \in Targets
    BY <2>2, BatchAssumption
  <2>4. Append(groups[t], entries[next]) \in Seq(Alerts)
    BY <2>2, <2>3, AppendProperties DEF TypeInv
  <2>5. Append(order, t) \in Seq(Targets)
    BY <2>3, AppendProperties DEF TypeInv
  <2>6. /\ groups' = [groups EXCEPT ![t] = Append(groups[t], entries[next])]
        /\ order' = IF groups[t] = <<>> THEN Append(order, t) ELSE order
    BY <1>5 DEF GroupEntry
  <2>7. groups' \in [Targets -> Seq(Alerts)]
    BY <2>4, <2>6 DEF TypeInv
  <2>8. next' \in Nat \ {0}
    BY <1>5, SMT DEF GroupEntry, TypeInv
  <2> HIDE DEF t
  <2> QED BY <1>5, <2>5, <2>6, <2>7, <2>8 DEF GroupEntry, metrics, TypeInv
<1>6. CASE EndGrouping
  BY <1>6 DEF EndGrouping, local, metrics, TypeInv
<1>7. CASE MergeTarget
  <2>1. next' \in Nat \ {0}
    BY <1>7, SMT DEF MergeTarget, TypeInv
  <2> QED BY <1>7, <2>1 DEF MergeTarget, metrics, TypeInv
<1>8. CASE FallBack
  <2>1. ways' = Append(ways, "unmerged")
    BY <1>8 DEF FallBack, finish
  <2>2. ways' \in Seq(Ways)
    BY <2>1, AppendWay DEF TypeInv
  <2> QED BY <1>8, <2>2 DEF FallBack, finish, TypeInv
<1>9. CASE EndMerging
  <2>1. PICK w \in Aggregated : ways' = Append(ways, w)
    BY <1>9 DEF EndMerging, finish, Aggregated
  <2>2. ways' \in Seq(Ways)
    BY <2>1, AppendWay DEF TypeInv
  <2> QED BY <1>9, <2>2 DEF EndMerging, finish, TypeInv
<1>10. CASE NextPayload
  <2>1. PICK p \in PayloadsUpTo(MaxAlerts - received) :
           begin(p) /\ received' = received + Len(p)
    BY <1>10 DEF NextPayload
  <2>2. p \in Seq(Alerts) /\ Len(p) \in Nat
    <3>1. MaxAlerts - received \in Int
      BY MaxAlertsInt, SMT DEF TypeInv
    <3> QED BY <2>1, <3>1, PayloadsAreSequences, LenProperties
  <2>3. received' \in Nat
    BY <2>1, <2>2, SMT DEF TypeInv
  <2> QED BY <1>10, <2>1, <2>2, <2>3, EmptyLists DEF NextPayload, begin, TypeInv
<1>11. CASE UNCHANGED vars
  BY <1>11 DEF vars, metrics, TypeInv
<1> QED BY <1>1, <1>2, <1>3, <1>4, <1>5, <1>6, <1>7, <1>8, <1>9, <1>10, <1>11
        DEF Next

\* So types hold throughout.
LEMMA TypesInvariant == Spec => []TypeInv
<1>1. Init => TypeInv
  <2> SUFFICES ASSUME Init PROVE TypeInv
    OBVIOUS
  <2>1. payload \in Seq(Alerts) /\ Len(payload) \in Nat
    BY MaxAlertsInt, PayloadsAreSequences, LenProperties DEF Init
  <2> QED BY <2>1, EmptyLists DEF Init, TypeInv
<1>2. TypeInv /\ [Next]_vars => TypeInv'
  BY TypesInductive
<1> QED BY <1>1, <1>2, PTL DEF Spec

-----------------------------------------------------------------------------
(* The mapping loop.                                                       *)

\* One more alert is looked at.
LEMMA MappedStep ==
    ASSUME TypeInv, mapping
    PROVE  mappedUpTo(next) = mappedUpTo(next - 1) \cup
              (IF Fate[payload[next]] = "entry" THEN {payload[next]} ELSE {})
<1>1. next \in Nat \ {0} /\ next \in 1 .. Len(payload)
  BY LenProperties, SMT DEF TypeInv, mapping
<1>2. payload[next] \in Alerts
  BY <1>1, ElementOfSeq DEF TypeInv
<1>3. 1 .. next = (1 .. (next - 1)) \cup {next}
  BY <1>1, SMT
<1> QED BY <1>1, <1>2, <1>3, Zenon DEF mappedUpTo

\* At the end of the loop, all have been.
LEMMA MappedAll ==
    ASSUME TypeInv
    PROVE  kept = mappedUpTo(Len(payload))
<1>1. \A i \in 1 .. Len(payload) : payload[i] \in Alerts
  BY ElementOfSeq DEF TypeInv
<1> QED BY <1>1, Zenon DEF kept, rangeOf, mappedUpTo

\* While mapping and after it, the entries are the usable alerts seen.
LEMMA EntriesInvariant == Spec => []EntriesInv
<1>1. Init => EntriesInv
  <2> SUFFICES ASSUME Init PROVE EntriesInv
    OBVIOUS
  <2>1. payload \in Seq(Alerts) /\ Len(payload) \in Nat
    BY MaxAlertsInt, PayloadsAreSequences, LenProperties DEF Init
  <2>2. mappedUpTo(next - 1) = {}
    BY SMT DEF Init, mappedUpTo
  <2>3. 1 <= Len(payload) + 1
    BY <2>1, SMT
  <2> QED BY <2>2, <2>3, EmptyLists DEF Init, EntriesInv
<1>2. TypeInv /\ TypeInv' /\ EntriesInv /\ [Next]_vars => EntriesInv'
  <2> SUFFICES ASSUME TypeInv, TypeInv', EntriesInv, [Next]_vars
               PROVE  EntriesInv'
    OBVIOUS
  <2>0. next \in Nat \ {0} /\ Len(payload) \in Nat
    BY LenProperties DEF TypeInv
  <2>1. CASE SkipUnmatched \/ SkipInvalid
    <3>1. /\ mapping /\ Fate[payload[next]] # "entry" /\ next' = next + 1
          /\ pc' = pc /\ payload' = payload /\ entries' = entries
      BY <2>1 DEF SkipUnmatched, SkipInvalid, local, mapping
    <3>2. mappedUpTo(next) = mappedUpTo(next - 1)
      BY <3>1, MappedStep
    <3>3. next' - 1 = next
      BY <2>0, <3>1, SMT
    <3>4. mappedUpTo(next - 1)' = mappedUpTo(next)
      BY <3>1, <3>3 DEF mappedUpTo
    <3>5. next' <= Len(payload') + 1
      BY <2>0, <3>1, SMT DEF mapping
    <3> QED BY <3>1, <3>2, <3>4, <3>5 DEF EntriesInv, mapping, rangeOf
  <2>2. CASE KeepEntry
    <3>1. /\ mapping /\ Fate[payload[next]] = "entry" /\ next' = next + 1
          /\ pc' = pc /\ payload' = payload
          /\ entries' = Append(entries, payload[next])
      BY <2>2 DEF KeepEntry, mapping
    <3>2. mappedUpTo(next) = mappedUpTo(next - 1) \cup {payload[next]}
      BY <3>1, MappedStep
    <3>3. next' - 1 = next
      BY <2>0, <3>1, SMT
    <3>4. mappedUpTo(next - 1)' = mappedUpTo(next)
      BY <3>1, <3>3 DEF mappedUpTo
    <3>5. next' <= Len(payload') + 1
      BY <2>0, <3>1, SMT DEF mapping
    <3>6. payload[next] \in Alerts
      <4>1. next \in 1 .. Len(payload)
        BY <2>0, <3>1, SMT DEF mapping
      <4> QED BY <4>1, ElementOfSeq DEF TypeInv
    <3>7. rangeOf(entries)' = rangeOf(entries) \cup {payload[next]}
      <4>1. rangeOf(entries)' = rangeOf(Append(entries, payload[next]))
        BY <3>1 DEF rangeOf
      <4> QED BY <3>6, <4>1, RangeAppend DEF TypeInv
    <3> QED BY <3>1, <3>2, <3>4, <3>5, <3>7 DEF EntriesInv, mapping
  <2>3. CASE EndMapping
    <3>1. /\ pc = "map" /\ pc' # "map" /\ payload' = payload
          /\ entries' = entries /\ next > Len(payload)
      BY <2>3 DEF EndMapping, finish
    <3>2. next - 1 = Len(payload)
      BY <2>0, <3>1, SMT DEF EntriesInv
    <3>3. rangeOf(entries) = kept
      BY <3>1, <3>2, MappedAll DEF EntriesInv
    <3> QED BY <3>1, <3>3 DEF EntriesInv, rangeOf, kept
  <2>4. CASE GroupEntry \/ EndGrouping \/ MergeTarget \/ FallBack \/ EndMerging
    <3>1. /\ pc # "map" /\ pc' # "map" /\ payload' = payload
          /\ entries' = entries
      BY <2>4 DEF GroupEntry, EndGrouping, MergeTarget, FallBack, EndMerging,
                  finish, local
    <3> QED BY <3>1 DEF EntriesInv, rangeOf, kept
  <2>5. CASE NextPayload
    <3>1. pc' = "map" /\ next' = 1 /\ entries' = <<>>
      BY <2>5 DEF NextPayload, begin
    <3>2. Len(payload') \in Nat
      BY LenProperties DEF TypeInv
    <3>3. mappedUpTo(next - 1)' = {}
      BY <3>1, SMT DEF mappedUpTo
    <3>4. rangeOf(entries)' = {}
      BY <3>1, EmptyLists DEF rangeOf
    <3>5. next' <= Len(payload') + 1
      BY <3>1, <3>2, SMT
    <3> QED BY <3>1, <3>3, <3>4, <3>5 DEF EntriesInv
  <2>6. CASE UNCHANGED vars
    BY <2>6 DEF vars, EntriesInv, mappedUpTo, rangeOf, kept
  <2> QED BY <2>1, <2>2, <2>3, <2>4, <2>5, <2>6 DEF Next
<1> QED BY <1>1, <1>2, TypesInvariant, PTL DEF Spec

-----------------------------------------------------------------------------
(* The grouping loop.                                                      *)

\* One more entry is grouped.
LEMMA GroupedStep ==
    ASSUME TypeInv, next <= Len(entries), NEW t \in Targets
    PROVE  groupedUpTo(t, next) = groupedUpTo(t, next - 1) \cup
              (IF TargetOf[entries[next]] = t THEN {entries[next]} ELSE {})
<1>1. next \in Nat \ {0} /\ next \in 1 .. Len(entries)
  BY LenProperties, SMT DEF TypeInv
<1>2. entries[next] \in Alerts
  BY <1>1, ElementOfSeq DEF TypeInv
<1>3. 1 .. next = (1 .. (next - 1)) \cup {next}
  BY <1>1, SMT
<1> QED BY <1>1, <1>2, <1>3, Zenon DEF groupedUpTo

\* At the end of the loop, a group has all the kept alerts of its target.
LEMMA GroupedAll ==
    ASSUME TypeInv, EntriesInv, pc # "map", NEW t \in Targets
    PROVE  groupedUpTo(t, Len(entries)) = keptFor(t)
<1>1. \A i \in 1 .. Len(entries) : entries[i] \in Alerts
  BY ElementOfSeq DEF TypeInv
<1>2. groupedUpTo(t, Len(entries)) = {a \in rangeOf(entries) : TargetOf[a] = t}
  BY <1>1, Zenon DEF groupedUpTo, rangeOf
<1> QED BY <1>2 DEF EntriesInv, keptFor

\* A sequence that is not empty has an element.
LEMMA RangeEmpty ==
    ASSUME NEW S, NEW s \in Seq(S)
    PROVE  rangeOf(s) = {} <=> s = <<>>
<1>1. CASE s = <<>>
  BY <1>1, EmptyLists
<1>2. CASE s # <<>>
  <2>1. Len(s) \in Nat \ {0}
    BY <1>2, EmptySeq
  <2>2. 1 \in 1 .. Len(s)
    BY <2>1, SMT
  <2> QED BY <1>2, <2>2 DEF rangeOf
<1> QED BY <1>1, <1>2

\* Putting an entry into its group keeps the order right.
LEMMA OrderStep ==
    ASSUME TypeInv, OrderInv, GroupEntry
    PROVE  /\ OrderInv'
           /\ \A u \in Targets : rangeOf(groups[u])' =
                 rangeOf(groups[u]) \cup
                    (IF TargetOf[entries[next]] = u THEN {entries[next]} ELSE {})
<1> DEFINE e == entries[next]
           t == TargetOf[e]
<1>1. next \in 1 .. Len(entries)
  BY LenProperties, SMT DEF GroupEntry, TypeInv
<1>2. e \in Alerts
  BY <1>1, ElementOfSeq DEF TypeInv
<1>3. t \in Targets
  BY <1>2, BatchAssumption
<1>4. /\ groups' = [groups EXCEPT ![t] = Append(groups[t], e)]
      /\ order' = IF groups[t] = <<>> THEN Append(order, t) ELSE order
  BY DEF GroupEntry
<1> HIDE DEF e, t
<1>5. groups[t] \in Seq(Alerts)
  BY <1>3 DEF TypeInv
<1>6. rangeOf(Append(groups[t], e)) = rangeOf(groups[t]) \cup {e}
  BY <1>2, <1>5, RangeAppend
<1>7. \A u \in Targets : rangeOf(groups'[u]) =
          rangeOf(groups[u]) \cup (IF t = u THEN {e} ELSE {})
  BY <1>3, <1>4, <1>6 DEF TypeInv
<1>8. \A u \in Targets : rangeOf(groups[u])' = rangeOf(groups'[u])
  BY DEF rangeOf
<1>9. CASE groups[t] # <<>>
  <2>1. order' = order
    BY <1>4, <1>9
  <2>2. rangeOf(groups[t]) # {}
    BY <1>5, <1>9, RangeEmpty
  <2>3. \A u \in Targets : rangeOf(groups'[u]) # {} <=> rangeOf(groups[u]) # {}
    BY <1>7, <2>2
  <2>4. OrderInv'
    BY <1>8, <2>1, <2>3 DEF OrderInv, rangeOf
  <2> QED BY <1>7, <1>8, <2>4 DEF e, t
<1>10. CASE groups[t] = <<>>
  <2>1. order' = Append(order, t)
    BY <1>4, <1>10
  <2>2. t \notin rangeOf(order)
    BY <1>3, <1>10, EmptyLists DEF OrderInv
  <2>3. /\ order \in Seq(Targets) /\ Len(order) \in Nat
        /\ Len(order') = Len(order) + 1
        /\ \A i \in 1 .. Len(order) : order'[i] = order[i]
        /\ order'[Len(order) + 1] = t
    BY <1>3, <2>1, AppendProperties, LenProperties DEF TypeInv
  <2>4. \A i \in 1 .. Len(order) : order[i] # t
    BY <2>2 DEF rangeOf
  <2>5. \A m, n \in 1 .. Len(order') : order'[m] = order'[n] => m = n
    <3> SUFFICES ASSUME NEW m \in 1 .. Len(order'), NEW n \in 1 .. Len(order'),
                        order'[m] = order'[n]
                 PROVE  m = n
      OBVIOUS
    <3>1. m \in 1 .. Len(order) \/ m = Len(order) + 1
      BY <2>3, SMT
    <3>2. n \in 1 .. Len(order) \/ n = Len(order) + 1
      BY <2>3, SMT
    <3> QED BY <2>3, <2>4, <3>1, <3>2 DEF OrderInv
  <2>6. rangeOf(order') = rangeOf(order) \cup {t}
    BY <1>3, <2>1, <2>3, RangeAppend
  <2>7. \A u \in Targets : u \in rangeOf(order') <=> rangeOf(groups'[u]) # {}
    BY <1>7, <2>6 DEF OrderInv
  <2>8. rangeOf(order)' = rangeOf(order')
    BY DEF rangeOf
  <2>9. OrderInv'
    BY <1>8, <2>5, <2>7, <2>8 DEF OrderInv
  <2> QED BY <1>7, <1>8, <2>9 DEF e, t
<1> QED BY <1>9, <1>10

\* A payload starts with nothing grouped.
LEMMA NothingGrouped ==
    ASSUME order = <<>>, \A t \in Targets : groups[t] = <<>>
    PROVE  OrderInv
<1>1. Len(order) = 0 /\ rangeOf(order) = {}
  BY EmptyLists
<1>2. \A t \in Targets : rangeOf(groups[t]) = {}
  BY EmptyLists
<1>3. \A m, n \in 1 .. Len(order) : order[m] = order[n] => m = n
  BY <1>1, SMT
<1> QED BY <1>1, <1>2, <1>3 DEF OrderInv

\* What a step leaves alone.
LEMMA RangesUnchanged ==
    ASSUME UNCHANGED groups
    PROVE  \A t \in Targets : rangeOf(groups[t])' = rangeOf(groups[t])
  BY DEF rangeOf

\* The order and the groups belong together until a step changes either.
LEMMA OrderUnchanged ==
    ASSUME OrderInv, UNCHANGED <<order, groups>>
    PROVE  OrderInv'
<1>1. order' = order /\ rangeOf(order)' = rangeOf(order)
  BY DEF rangeOf
<1>2. \A t \in Targets : rangeOf(groups[t])' = rangeOf(groups[t])
  BY RangesUnchanged
<1> QED BY <1>1, <1>2 DEF OrderInv

\* What is kept depends on the payload alone.
LEMMA KeptUnchanged ==
    ASSUME UNCHANGED payload
    PROVE  \A t \in Targets : keptFor(t)' = keptFor(t)
<1>1. kept' = kept
  BY DEF kept, rangeOf
<1> QED BY <1>1 DEF keptFor

\* What has been grouped depends on the entries and the index alone.
LEMMA GroupedUnchanged ==
    ASSUME UNCHANGED <<entries, next>>
    PROVE  \A t \in Targets : groupedUpTo(t, next - 1)' = groupedUpTo(t, next - 1)
  BY DEF groupedUpTo

\* Up to the merging loop, the groups are what the entries make them.
LEMMA GroupsInvariant == Spec => []GroupsInv
<1>1. Init => GroupsInv
  <2> SUFFICES ASSUME Init PROVE GroupsInv
    OBVIOUS
  <2>1. order = <<>> /\ out = <<>> /\ pc = "map"
        /\ \A t \in Targets : groups[t] = <<>>
    BY DEF Init
  <2> QED BY <2>1, NothingGrouped DEF GroupsInv
<1>2. TypeInv /\ TypeInv' /\ EntriesInv /\ GroupsInv /\ [Next]_vars => GroupsInv'
  <2> SUFFICES ASSUME TypeInv, TypeInv', EntriesInv, GroupsInv, [Next]_vars
               PROVE  GroupsInv'
    OBVIOUS
  <2>0. next \in Nat \ {0} /\ Len(entries) \in Nat
    BY LenProperties DEF TypeInv
  <2>1. CASE SkipUnmatched \/ SkipInvalid \/ KeepEntry
    <3>1. /\ pc = "map" /\ pc' = "map" /\ order' = order /\ groups' = groups
          /\ out' = out
      BY <2>1 DEF SkipUnmatched, SkipInvalid, KeepEntry, mapping, local
    <3> QED BY <3>1 DEF GroupsInv, OrderInv, rangeOf
  <2>2. CASE EndMapping
    <3>1. /\ pc = "map" /\ order' = order /\ groups' = groups
          /\ entries' = entries
          /\ \/ pc' = "group" /\ next' = 1 /\ out' = out
             \/ pc' = "done"
      BY <2>2 DEF EndMapping, finish
    <3>2. CASE pc' = "done"
      BY <3>2 DEF GroupsInv
    <3>3. CASE pc' = "group" /\ next' = 1 /\ out' = out
      <4>1. OrderInv'
        BY <3>1 DEF GroupsInv, OrderInv, rangeOf
      <4>2. \A t \in Targets : groupedUpTo(t, next - 1)' = {}
        BY <3>3, SMT DEF groupedUpTo
      <4>3. \A t \in Targets : rangeOf(groups[t])' = {}
        BY <3>1, EmptyLists DEF GroupsInv, rangeOf
      <4>4. next' <= Len(entries') + 1
        BY <2>0, <3>1, <3>3, SMT
      <4> QED BY <3>1, <3>3, <4>1, <4>2, <4>3, <4>4 DEF GroupsInv
    <3> QED BY <3>1, <3>2, <3>3
  <2>3. CASE GroupEntry
    <3>1. /\ pc = "group" /\ pc' = "group" /\ next <= Len(entries)
          /\ next' = next + 1 /\ entries' = entries /\ out' = out
      BY <2>3 DEF GroupEntry
    <3>2. /\ OrderInv'
          /\ \A u \in Targets : rangeOf(groups[u])' =
                rangeOf(groups[u]) \cup
                   (IF TargetOf[entries[next]] = u THEN {entries[next]} ELSE {})
      BY <2>3, <3>1, OrderStep DEF GroupsInv
    <3>3. next' - 1 = next /\ next' <= Len(entries') + 1
      BY <2>0, <3>1, SMT
    <3>4. \A u \in Targets : groupedUpTo(u, next - 1)' = groupedUpTo(u, next)
      BY <3>1, <3>3 DEF groupedUpTo
    <3>5. \A u \in Targets : rangeOf(groups[u])' = groupedUpTo(u, next - 1)'
      BY <3>1, <3>2, <3>4, GroupedStep DEF GroupsInv
    <3> QED BY <3>1, <3>2, <3>3, <3>5 DEF GroupsInv
  <2>4. CASE EndGrouping
    <3>1. /\ pc = "group" /\ pc' = "merge" /\ next > Len(entries)
          /\ order' = order /\ groups' = groups /\ payload' = payload
      BY <2>4 DEF EndGrouping, local
    <3>2. next - 1 = Len(entries)
      BY <2>0, <3>1, SMT DEF GroupsInv
    <3>3. \A t \in Targets : rangeOf(groups[t]) = keptFor(t)
      BY <3>1, <3>2, GroupedAll DEF GroupsInv
    <3>4. OrderInv'
      BY <3>1, OrderUnchanged DEF GroupsInv
    <3> QED BY <3>1, <3>3, <3>4, RangesUnchanged, KeptUnchanged DEF GroupsInv
  <2>5. CASE MergeTarget
    <3>1. /\ pc = "merge" /\ pc' = "merge" /\ order' = order
          /\ groups' = groups /\ payload' = payload
      BY <2>5 DEF MergeTarget
    <3>2. OrderInv'
      BY <3>1, OrderUnchanged DEF GroupsInv
    <3> QED BY <3>1, <3>2, RangesUnchanged, KeptUnchanged DEF GroupsInv
  <2>6. CASE FallBack \/ EndMerging
    BY <2>6 DEF FallBack, EndMerging, finish, GroupsInv
  <2>7. CASE NextPayload
    <3>1. /\ pc' = "map" /\ order' = <<>> /\ out' = <<>>
          /\ \A t \in Targets : groups'[t] = <<>>
      BY <2>7 DEF NextPayload, begin
    <3>2. OrderInv'
      <4>1. /\ Len(order') = 0 /\ rangeOf(order)' = {}
            /\ \A t \in Targets : rangeOf(groups[t])' = {}
        BY <3>1, EmptyLists DEF rangeOf
      <4>2. \A k, n \in 1 .. Len(order') : order'[k] = order'[n] => k = n
        BY <4>1, SMT
      <4> QED BY <4>1, <4>2 DEF OrderInv
    <3> QED BY <3>1, <3>2 DEF GroupsInv
  <2>8. CASE UNCHANGED vars
    <3>1. UNCHANGED <<pc, payload, next, entries, order, groups, out>>
      BY <2>8 DEF vars
    <3>2. OrderInv => OrderInv'
      BY <3>1, OrderUnchanged
    <3>3. \A t \in Targets :
             /\ rangeOf(groups[t])' = rangeOf(groups[t])
             /\ keptFor(t)' = keptFor(t)
             /\ groupedUpTo(t, next - 1)' = groupedUpTo(t, next - 1)
      BY <3>1, RangesUnchanged, KeptUnchanged, GroupedUnchanged
    <3> QED BY <3>1, <3>2, <3>3 DEF GroupsInv
  <2> QED BY <2>1, <2>2, <2>3, <2>4, <2>5, <2>6, <2>7, <2>8 DEF Next
<1> QED BY <1>1, <1>2, TypesInvariant, EntriesInvariant, PTL DEF Spec

-----------------------------------------------------------------------------
(* The merging loop.                                                       *)

\* The checkresult of the next target is that of all its kept alerts, whether
\* it is passed through or merged.
LEMMA MergeStep ==
    ASSUME TypeInv, GroupsInv, MergeTarget
    PROVE  /\ order[next] \in Targets
           /\ keptFor(order[next]) # {}
           /\ out' = Append(out, merged(order[next], keptFor(order[next])))
<1> DEFINE t == order[next]
<1>1. next \in 1 .. Len(order)
  BY LenProperties, SMT DEF MergeTarget, TypeInv
<1>2. t \in Targets
  BY <1>1, ElementOfSeq DEF TypeInv
<1>3. rangeOf(groups[t]) = keptFor(t)
  BY <1>2 DEF GroupsInv, MergeTarget
<1>4. rangeOf(groups[t]) # {}
  BY <1>1, <1>2 DEF GroupsInv, MergeTarget, OrderInv, rangeOf
<1>5. CASE Len(groups[t]) = 1
  <2> DEFINE a == groups[t][1]
  <2>1. out' = Append(out, single(a))
    BY <1>5 DEF MergeTarget
  <2>2. groups[t] \in Seq(Alerts) /\ 1 \in 1 .. Len(groups[t])
    BY <1>2, <1>5, SMT DEF TypeInv
  <2>3. a \in Alerts
    BY <2>2, ElementOfSeq
  <2>4. rangeOf(groups[t]) = {a}
    BY <1>5, SMT DEF rangeOf
  <2>5. TargetOf[a] = t /\ Fate[a] = "entry"
    BY <1>3, <2>4 DEF keptFor, kept
  <2>6. single(a) = merged(t, keptFor(t))
    BY <1>3, <2>3, <2>4, <2>5, SingleIsMerged
  <2> QED BY <1>2, <1>3, <1>4, <2>1, <2>6
<1>6. CASE Len(groups[t]) # 1
  <2>1. out' = Append(out, merged(t, rangeOf(groups[t])))
    BY <1>6 DEF MergeTarget
  <2> QED BY <1>2, <1>3, <1>4, <2>1
<1> QED BY <1>5, <1>6

\* A merged checkresult of some alerts for a target is a checkresult.
LEMMA MergedType ==
    ASSUME TypeInv, NEW t \in Targets, keptFor(t) # {}
    PROVE  merged(t, keptFor(t)) \in CheckResults
<1>1. /\ keptFor(t) \in SUBSET Alerts
      /\ \A a \in keptFor(t) : TargetOf[a] = t /\ Fate[a] = "entry"
  <2>1. \A i \in 1 .. Len(payload) : payload[i] \in Alerts
    BY ElementOfSeq DEF TypeInv
  <2> QED BY <2>1 DEF keptFor, kept, rangeOf
<1> DEFINE S == {CodeOf[a] : a \in deciding(keptFor(t))}
<1>2. S \in SUBSET Codes(CheckTypeOf[t])
  BY <1>1, CodesOfTarget
<1>3. S # {}
  BY DEF deciding
<1>4. CheckTypeOf[t] \in CheckTypes
  BY BatchAssumption
<1> HIDE DEF S
<1>5. WorstOf(CheckTypeOf[t], S) \in Codes(CheckTypeOf[t])
  BY <1>2, <1>3, <1>4, WorstIsWorst
<1>6. WorstOf(CheckTypeOf[t], S) \in Int
  BY <1>5, SMT DEF Codes
<1> QED BY <1>1, <1>6 DEF S, merged, CheckResults

\* A step that changes neither the payload, the order nor the checkresults.
LEMMA MergedUnchanged ==
    ASSUME UNCHANGED <<payload, order, out>>, MergedInv
    PROVE  MergedInv'
<1>1. \A t \in Targets : keptFor(t)' = keptFor(t)
  BY KeptUnchanged
<1> QED BY <1>1 DEF MergedInv, merged

\* The batch ends the way its history says.
LEMMA FinishWay ==
    ASSUME TypeInv, NEW rs, NEW how, finish(rs, how)
    PROVE  ways' # <<>> /\ way' = how
<1>1. Len(ways) \in Nat
  BY LenProperties DEF TypeInv
<1>2. ways' = Append(ways, how) /\ ways \in Seq(Ways \cup {how})
  BY SeqMonotonic DEF finish, TypeInv
<1>3. Len(ways') = Len(ways) + 1 /\ ways'[Len(ways) + 1] = how
  BY <1>2, AppendProperties
<1>4. ways' # <<>>
  BY <1>1, <1>3, EmptyLists, SMT
<1> QED BY <1>3, <1>4 DEF way

\* The checkresults are those of the groups, or those of the entries.
LEMMA OutInvariant == Spec => []OutInv
<1>1. Init => OutInv
  BY DEF Init, OutInv
<1>2. /\ TypeInv /\ TypeInv' /\ EntriesInv /\ GroupsInv /\ GroupsInv'
      /\ OutInv /\ [Next]_vars
      => OutInv'
  <2> SUFFICES ASSUME TypeInv, TypeInv', EntriesInv, GroupsInv, GroupsInv',
                      OutInv, [Next]_vars
               PROVE  OutInv'
    OBVIOUS
  <2>0. next \in Nat \ {0} /\ Len(order) \in Nat /\ order \in Seq(Targets)
    BY LenProperties DEF TypeInv
  <2>1. CASE SkipUnmatched \/ SkipInvalid \/ KeepEntry
    <3>1. pc' = "map"
      BY <2>1 DEF SkipUnmatched, SkipInvalid, KeepEntry, mapping
    <3> QED BY <3>1 DEF OutInv
  <2>2. CASE EndMapping
    <3>1. CASE pc' = "group"
      BY <2>2, <3>1 DEF EndMapping, OutInv
    <3>2. CASE pc' # "group"
      <4>1. finish(unmerged(entries), "disabled") /\ entries' = entries
        BY <2>2, <3>2 DEF EndMapping
      <4>2. ways' # <<>> /\ way' = "disabled"
        BY <4>1, FinishWay
      <4>3. pc' = "done" /\ out' = unmerged(entries)'
        BY <4>1 DEF finish, unmerged
      <4> QED BY <4>2, <4>3 DEF OutInv, Aggregated
    <3> QED BY <3>1, <3>2
  <2>3. CASE GroupEntry
    BY <2>3 DEF GroupEntry, OutInv
  <2>4. CASE EndGrouping
    <3>1. /\ pc' = "merge" /\ next' = 1 /\ order' = order /\ out' = <<>>
      BY <2>4 DEF EndGrouping, local, GroupsInv
    <3>2. Len(out') = 0
      BY <3>1, EmptyLists
    <3>3. MergedInv'
      BY <3>2, SMT DEF MergedInv
    <3>4. next' <= Len(order') + 1 /\ Len(out') = next' - 1
      BY <2>0, <3>1, <3>2, SMT
    <3> QED BY <3>1, <3>3, <3>4 DEF OutInv
  <2>5. CASE MergeTarget
    <3> DEFINE r == merged(order[next], keptFor(order[next]))
    <3>1. /\ pc = "merge" /\ pc' = "merge" /\ next <= Len(order)
          /\ next' = next + 1 /\ order' = order /\ payload' = payload
      BY <2>5 DEF MergeTarget
    <3>2. /\ order[next] \in Targets /\ keptFor(order[next]) # {}
          /\ out' = Append(out, r)
      BY <2>5, MergeStep
    <3>3. r \in CheckResults
      BY <3>2, MergedType
    <3> HIDE DEF r
    <3>4. out \in Seq(CheckResults)
      BY <3>1 DEF OutInv
    <3>5. /\ Len(out) = next - 1 /\ Len(out) \in Nat
          /\ Len(out') = Len(out) + 1
          /\ \A n \in 1 .. Len(out) : out'[n] = out[n]
          /\ out'[Len(out) + 1] = r
      BY <3>1, <3>2, <3>3, <3>4, AppendProperties, LenProperties DEF OutInv
    <3>6. /\ next' <= Len(order') + 1 /\ Len(out') = next' - 1
          /\ Len(out) + 1 = next
      BY <2>0, <3>1, <3>5, SMT
    <3>7. \A t \in Targets : keptFor(t)' = keptFor(t)
      BY <3>1, KeptUnchanged
    <3>8. MergedInv'
      <4>1. ASSUME NEW n \in 1 .. Len(out')
            PROVE  /\ order[n] \in Targets
                   /\ out'[n] = merged(order[n], keptFor(order[n]))
                   /\ keptFor(order[n]) # {}
        <5>1. n \in 1 .. Len(out) \/ n = next
          BY <3>5, <3>6, SMT
        <5>2. CASE n \in 1 .. Len(out)
          BY <3>1, <3>5, <5>2 DEF OutInv, MergedInv
        <5>3. CASE n = next
          BY <3>2, <3>5, <3>6, <5>3 DEF r
        <5> QED BY <5>1, <5>2, <5>3
      <4>2. ASSUME NEW n \in 1 .. Len(out')
            PROVE  keptFor(order[n])' = keptFor(order[n])
        <5>1. PICK t \in Targets : t = order[n] /\ t = order'[n]
          BY <3>1, <4>1
        <5>2. keptFor(t)' = keptFor(t)
          BY <3>7
        <5>3. keptFor(order[n])' = keptFor(t)'
          BY <5>1 DEF keptFor
        <5> QED BY <5>1, <5>2, <5>3
      <4>3. ASSUME NEW n \in 1 .. Len(out')
            PROVE  merged(order[n], keptFor(order[n]))'
                      = merged(order[n], keptFor(order[n]))
        <5>1. order'[n] = order[n]
          BY <3>1
        <5> QED BY <4>2, <5>1 DEF merged
      <4>4. \A n \in 1 .. Len(out') : order'[n] = order[n]
        BY <3>1
      <4> QED BY <4>1, <4>2, <4>3, <4>4 DEF MergedInv
    <3>9. Append(out, r) \in Seq(CheckResults)
      BY <3>3, <3>4, AppendProperties
    <3> QED BY <3>1, <3>2, <3>6, <3>8, <3>9 DEF OutInv
  <2>6. CASE FallBack
    <3>1. finish(unmerged(entries), "unmerged") /\ entries' = entries
      BY <2>6 DEF FallBack
    <3>2. ways' # <<>> /\ way' = "unmerged"
      BY <3>1, FinishWay
    <3>3. pc' = "done" /\ out' = unmerged(entries)'
      BY <3>1 DEF finish, unmerged
    <3> QED BY <3>2, <3>3 DEF OutInv, Aggregated
  <2>7. CASE EndMerging
    <3>1. /\ pc = "merge" /\ next > Len(order)
          /\ payload' = payload /\ order' = order /\ groups' = groups
          /\ \E w \in Aggregated : finish(out, w)
      BY <2>7 DEF EndMerging, Aggregated
    <3>2. PICK w \in Aggregated : finish(out, w)
      BY <3>1
    <3>3. ways' # <<>> /\ way' \in Aggregated
      BY <3>2, FinishWay
    <3>4. pc' = "done" /\ out' = out
      BY <3>2 DEF finish
    <3>5. Len(out) = Len(order)
      BY <2>0, <3>1, SMT DEF OutInv
    <3>6. MergedInv'
      BY <3>1, <3>4, MergedUnchanged DEF OutInv
    <3>7. OrderInv'
      BY <3>1, OrderUnchanged DEF GroupsInv
    <3>8. \A t \in Targets : rangeOf(groups[t])' = keptFor(t)'
      BY <3>1, RangesUnchanged, KeptUnchanged DEF GroupsInv
    <3>9. out \in Seq(CheckResults)
      BY <3>1 DEF OutInv
    <3> QED BY <3>1, <3>3, <3>4, <3>5, <3>6, <3>7, <3>8, <3>9 DEF OutInv
  <2>8. CASE NextPayload
    BY <2>8 DEF NextPayload, begin, OutInv
  <2>9. CASE UNCHANGED vars
    <3>1. UNCHANGED <<pc, payload, next, entries, order, groups, out, ways>>
      BY <2>9 DEF vars
    <3>2. /\ MergedInv => MergedInv'
          /\ OrderInv => OrderInv'
          /\ way' = way /\ unmerged(entries)' = unmerged(entries)
      BY <3>1, MergedUnchanged, OrderUnchanged DEF way, unmerged
    <3>3. \A t \in Targets : /\ rangeOf(groups[t])' = rangeOf(groups[t])
                             /\ keptFor(t)' = keptFor(t)
      BY <3>1, RangesUnchanged, KeptUnchanged
    <3> QED BY <3>1, <3>2, <3>3 DEF OutInv
  <2> QED BY <2>1, <2>2, <2>3, <2>4, <2>5, <2>6, <2>7, <2>8, <2>9 DEF Next
<1> QED BY <1>1, <1>2, TypesInvariant, EntriesInvariant, GroupsInvariant, PTL
        DEF Spec

-----------------------------------------------------------------------------
\* The facts about a merged request that the theorems below share.
LEMMA AtTheEnd ==
    ASSUME TypeInv, OutInv, pc = "done", way \in Aggregated, NEW n \in 1 .. Len(out)
    PROVE  /\ n \in 1 .. Len(order) /\ order[n] \in Targets
           /\ out[n] = merged(order[n], keptFor(order[n]))
           /\ out[n].target = order[n]
           /\ out[n].about = keptFor(order[n])
           /\ keptFor(order[n]) # {}
<1>1. MergedInv /\ Len(out) = Len(order)
  BY DEF OutInv
<1>2. /\ order[n] \in Targets
      /\ out[n] = merged(order[n], keptFor(order[n]))
      /\ keptFor(order[n]) # {}
  BY <1>1 DEF MergedInv
<1>3. /\ out[n].target = order[n]
      /\ out[n].about = keptFor(order[n])
  BY <1>2 DEF merged
<1> QED BY <1>1, <1>2, <1>3

\* The kept alerts of a target are alerts for that target.
LEMMA KeptFacts ==
    ASSUME TypeInv
    PROVE  /\ kept \in SUBSET Alerts
           /\ \A t \in Targets : keptFor(t) \in SUBSET Alerts
           /\ \A t \in Targets : \A a \in keptFor(t) :
                 TargetOf[a] = t /\ Fate[a] = "entry"
           /\ \A a \in kept : TargetOf[a] \in Targets /\ a \in keptFor(TargetOf[a])
<1>1. \A i \in 1 .. Len(payload) : payload[i] \in Alerts
  BY ElementOfSeq DEF TypeInv
<1>2. kept \in SUBSET Alerts
  BY <1>1 DEF kept, rangeOf
<1>3. \A a \in kept : Fate[a] = "entry"
  BY DEF kept
<1> QED BY <1>2, <1>3, BatchAssumption DEF keptFor

\* NRDP gets at most one checkresult for a target, however the alerts of a
\* payload are mixed, and so nothing in the batch can overwrite it.
THEOREM OneResult == Spec => []OneResultPerTarget
<1>1. TypeInv /\ OutInv => OneResultPerTarget
  <2> SUFFICES ASSUME TypeInv, OutInv, pc = "done", way \in Aggregated,
                      NEW k \in 1 .. Len(out), NEW n \in 1 .. Len(out),
                      out[k].target = out[n].target
               PROVE  k = n
    BY DEF OneResultPerTarget
  <2>1. order[k] = order[n] /\ k \in 1 .. Len(order) /\ n \in 1 .. Len(order)
    BY AtTheEnd
  <2> QED BY <2>1 DEF OutInv, OrderInv
<1> QED BY <1>1, TypesInvariant, OutInvariant, PTL

\* A merged checkresult shows the most severe firing alert of its target, and
\* a resolved state only when every alert for it has resolved.
THEOREM ShowsWorst == Spec => []ShowsWorstFiring
<1>1. TypeInv /\ OutInv => ShowsWorstFiring
  <2> SUFFICES ASSUME TypeInv, OutInv, pc = "done", way \in Aggregated,
                      NEW n \in 1 .. Len(out), NEW t, t = out[n].target,
                      NEW voters, voters = deciding(keptFor(t))
               PROVE  /\ \E a \in voters : out[n].state = CodeOf[a]
                      /\ \A a \in voters :
                           severity[CheckTypeOf[t]][CodeOf[a]]
                             <= severity[CheckTypeOf[t]][out[n].state]
    BY DEF ShowsWorstFiring, deciding
  <2>1. t \in Targets /\ out[n] = merged(t, keptFor(t)) /\ keptFor(t) # {}
    BY AtTheEnd
  <2> DEFINE S == {CodeOf[a] : a \in voters}
  <2>2. out[n].state = WorstOf(CheckTypeOf[t], S)
    BY <2>1 DEF merged
  <2>3. S # {} /\ S \in SUBSET Codes(CheckTypeOf[t])
    <3>1. S \in SUBSET Codes(CheckTypeOf[t])
      BY <2>1, KeptFacts, CodesOfTarget
    <3>2. voters # {}
      BY <2>1 DEF deciding
    <3> QED BY <3>1, <3>2
  <2>4. CheckTypeOf[t] \in CheckTypes
    BY <2>1, BatchAssumption
  <2> HIDE DEF S
  <2>5. /\ out[n].state \in S
        /\ \A d \in S : severity[CheckTypeOf[t]][d]
                          <= severity[CheckTypeOf[t]][out[n].state]
    BY <2>2, <2>3, <2>4, WorstIsWorst
  <2> QED BY <2>5 DEF S
<1> QED BY <1>1, TypesInvariant, OutInvariant, PTL

\* No alert with a usable target goes missing between the payload and the
\* request, whether the batch is merged, falls back or is not to be merged.
THEOREM AllDescribed == Spec => []NothingDropped
<1>1. TypeInv /\ EntriesInv /\ OutInv => NothingDropped
  <2> SUFFICES ASSUME TypeInv, EntriesInv, OutInv, pc = "done"
               PROVE  /\ \A a \in kept : \E n \in 1 .. Len(out) :
                            out[n].target = TargetOf[a] /\ a \in out[n].about
                      /\ \A n \in 1 .. Len(out) :
                            out[n].about \subseteq keptFor(out[n].target)
    BY DEF NothingDropped
  <2>1. CASE way \in Aggregated
    <3>1. \A n \in 1 .. Len(out) : out[n].about = keptFor(out[n].target)
      BY <2>1, AtTheEnd
    <3>2. ASSUME NEW a \in kept
          PROVE  \E n \in 1 .. Len(out) :
                    out[n].target = TargetOf[a] /\ a \in out[n].about
      <4>1. TargetOf[a] \in Targets /\ a \in keptFor(TargetOf[a])
        BY KeptFacts
      <4>2. TargetOf[a] \in rangeOf(order)
        BY <2>1, <4>1 DEF OutInv, OrderInv
      <4>3. PICK n \in 1 .. Len(order) : order[n] = TargetOf[a]
        BY <4>2 DEF rangeOf
      <4>4. n \in 1 .. Len(out)
        BY <2>1 DEF OutInv
      <4> QED BY <2>1, <4>1, <4>3, <4>4, AtTheEnd
    <3> QED BY <3>1, <3>2
  <2>2. CASE way \notin Aggregated
    <3>1. out = unmerged(entries) /\ rangeOf(entries) = kept
      BY <2>2 DEF OutInv, EntriesInv
    <3>2. Len(entries) \in Nat
      BY LenProperties DEF TypeInv
    <3>3. Len(out) = Len(entries)
      BY <3>1, <3>2 DEF unmerged
    <3>4. ASSUME NEW n \in 1 .. Len(out)
          PROVE  /\ entries[n] \in kept
                 /\ out[n].target = TargetOf[entries[n]]
                 /\ out[n].about = {entries[n]}
      <4>1. entries[n] \in kept
        BY <3>1, <3>3 DEF rangeOf
      <4>2. out[n] = single(entries[n])
        BY <3>1, <3>3 DEF unmerged
      <4> QED BY <4>1, <4>2 DEF single
    <3>5. \A n \in 1 .. Len(out) : out[n].about \subseteq keptFor(out[n].target)
      <4> SUFFICES ASSUME NEW n \in 1 .. Len(out)
                   PROVE  out[n].about \subseteq keptFor(out[n].target)
        OBVIOUS
      <4>1. entries[n] \in keptFor(TargetOf[entries[n]])
        BY <3>4, KeptFacts
      <4> QED BY <3>4, <4>1
    <3>6. \A a \in kept : \E n \in 1 .. Len(out) : a = entries[n]
      BY <3>1, <3>3 DEF rangeOf
    <3>7. ASSUME NEW a \in kept
          PROVE  \E n \in 1 .. Len(out) :
                    out[n].target = TargetOf[a] /\ a \in out[n].about
      <4>1. PICK n \in 1 .. Len(out) : a = entries[n]
        BY <3>6
      <4>2. out[n].target = TargetOf[a] /\ a \in out[n].about
        BY <3>4, <4>1
      <4> QED BY <4>2
    <3> QED BY <3>5, <3>7
  <2> QED BY <2>1, <2>2
<1> QED BY <1>1, TypesInvariant, EntriesInvariant, OutInvariant, PTL

-----------------------------------------------------------------------------
(* The counters.                                                           *)

\* All batches so far were merged, or had nothing to merge.
merging == \A n \in 1 .. Len(ways) : ways[n] \in Aggregated

\* mapAlerts has seen the targets of its entries.
SeenInv == /\ seen = {TargetOf[a] : a \in rangeOf(entries)}
           /\ IsFiniteSet(seen)

\* What the counters do not yet account for are the alerts the loop has not
\* reached, and the targets it has seen, which make one checkresult each.
LedgerInv ==
    /\ forwarded \in Nat
    /\ merging =>
         /\ pc = "map" =>
               received + next = unmatched + invalid + duplicates + forwarded
                                   + Cardinality(seen) + Len(payload) + 1
         /\ pc \in {"group", "merge"} =>
               received = unmatched + invalid + duplicates + forwarded
                            + Cardinality(seen)
         /\ pc = "done" => received = unmatched + invalid + duplicates + forwarded

\* A batch that ends another way than merged ends the merging.
LEMMA MergingEnds ==
    ASSUME TypeInv, NEW rs, NEW how, finish(rs, how)
    PROVE  merging' => merging /\ how \in Aggregated
<1>1. Len(ways) \in Nat
  BY LenProperties DEF TypeInv
<1>2. ways' = Append(ways, how) /\ ways \in Seq(Ways \cup {how})
  BY SeqMonotonic DEF finish, TypeInv
<1>3. /\ Len(ways') = Len(ways) + 1
      /\ \A n \in 1 .. Len(ways) : ways'[n] = ways[n]
      /\ ways'[Len(ways) + 1] = how
  BY <1>2, AppendProperties
<1>4. Len(ways) + 1 \in 1 .. Len(ways') /\ 1 .. Len(ways) \subseteq 1 .. Len(ways')
  BY <1>1, <1>3, SMT
<1> QED BY <1>3, <1>4 DEF merging

\* At the end of grouping, the order lists each target seen once.
LEMMA SeenAreListed ==
    ASSUME TypeInv, SeenInv, EntriesInv, OrderInv, pc # "map",
           \A t \in Targets : rangeOf(groups[t]) = keptFor(t)
    PROVE  Cardinality(seen) = Len(order)
<1>1. \A t \in Targets : t \in rangeOf(order) <=> \E a \in kept : TargetOf[a] = t
  BY DEF OrderInv, keptFor
<1>2. rangeOf(order) \subseteq Targets
  BY ElementOfSeq DEF TypeInv, rangeOf
<1>3. seen = {TargetOf[a] : a \in kept}
  BY DEF SeenInv, EntriesInv
<1>4. rangeOf(order) = seen
  BY <1>1, <1>2, <1>3 DEF TypeInv
<1>5. Len(order) \in Nat /\ order \in [1 .. Len(order) -> Targets]
  BY LenProperties DEF TypeInv
<1>6. order \in [1 .. Len(order) -> seen]
  BY <1>4, <1>5 DEF rangeOf
<1>7. order \in Bijection(1 .. Len(order), seen)
  <2>1. \A a, b \in 1 .. Len(order) : order[a] = order[b] => a = b
    BY DEF OrderInv
  <2>2. \A t \in seen : \E s \in 1 .. Len(order) : order[s] = t
    BY <1>4 DEF rangeOf
  <2> QED BY <1>6, <2>1, <2>2, Fun_IsBij
<1>8. ExistsBijection(1 .. Len(order), seen)
  BY <1>7 DEF ExistsBijection
<1>9. IsFiniteSet(1 .. Len(order)) /\ Cardinality(1 .. Len(order)) = Len(order)
  <2>1. 1 \in Int /\ Len(order) \in Int
    BY <1>5
  <2>2. Len(order) - 1 + 1 = Len(order) /\ (1 > Len(order) => Len(order) = 0)
    BY <1>5
  <2> QED BY <2>1, <2>2, FS_Interval
<1> QED BY <1>8, <1>9, FS_Bijection

\* What mapAlerts has seen goes with its entries.
LEMMA SeenInvariant == Spec => []SeenInv
<1>1. Init => SeenInv
  BY EmptyLists, FS_EmptySet DEF Init, SeenInv
<1>2. TypeInv /\ SeenInv /\ [Next]_vars => SeenInv'
  <2> SUFFICES ASSUME TypeInv, SeenInv, [Next]_vars PROVE SeenInv'
    OBVIOUS
  <2>1. CASE UNCHANGED <<entries, seen>>
    BY <2>1 DEF SeenInv, rangeOf
  <2>2. CASE KeepEntry
    <3> DEFINE a == payload[next]
    <3>1. next \in 1 .. Len(payload)
      BY <2>2, LenProperties, SMT DEF KeepEntry, mapping, TypeInv
    <3>2. a \in Alerts
      BY <3>1, ElementOfSeq DEF TypeInv
    <3>3. entries' = Append(entries, a) /\ seen' = seen \cup {TargetOf[a]}
      BY <2>2 DEF KeepEntry
    <3> HIDE DEF a
    <3>4. rangeOf(entries') = rangeOf(entries) \cup {a}
      BY <3>2, <3>3, RangeAppend DEF TypeInv
    <3>5. seen' = {TargetOf[b] : b \in rangeOf(entries')}
      BY <3>3, <3>4 DEF SeenInv
    <3>6. IsFiniteSet(seen')
      BY <3>3, FS_AddElement DEF SeenInv
    <3> QED BY <3>5, <3>6 DEF SeenInv, rangeOf
  <2>3. CASE NextPayload
    <3>1. entries' = <<>> /\ seen' = {}
      BY <2>3 DEF NextPayload, begin
    <3>2. rangeOf(entries)' = {}
      BY <3>1, EmptyLists DEF rangeOf
    <3> QED BY <3>1, <3>2, FS_EmptySet DEF SeenInv
  <2>4. CASE SkipUnmatched \/ SkipInvalid \/ EndGrouping \/ UNCHANGED vars
    BY <2>1, <2>4 DEF SkipUnmatched, SkipInvalid, EndGrouping, local, vars
  <2>5. CASE EndMapping \/ GroupEntry \/ MergeTarget \/ FallBack \/ EndMerging
    BY <2>1, <2>5 DEF EndMapping, GroupEntry, MergeTarget, FallBack, EndMerging
  <2> QED BY <2>2, <2>3, <2>4, <2>5 DEF Next
<1> QED BY <1>1, <1>2, TypesInvariant, PTL DEF Spec

\* A batch has a checkresult for each entry if it is not merged.
LEMMA UnmergedLength ==
    ASSUME TypeInv
    PROVE  /\ unmerged(entries) \in Seq(CheckResults)
           /\ Len(unmerged(entries)) = Len(entries)
           /\ Len(entries) \in Nat
<1>1. Len(entries) \in Nat /\ \A n \in 1 .. Len(entries) : entries[n] \in Alerts
  BY LenProperties, ElementOfSeq DEF TypeInv
<1>2. \A a \in Alerts : single(a) \in CheckResults
  <2> SUFFICES ASSUME NEW a \in Alerts PROVE single(a) \in CheckResults
    OBVIOUS
  <2>1. TargetOf[a] \in Targets /\ CodeOf[a] \in Int /\ {a} \in SUBSET Alerts
    BY BatchAssumption
  <2> QED BY <2>1 DEF single, CheckResults
<1>3. unmerged(entries) \in [1 .. Len(entries) -> CheckResults]
  BY <1>1, <1>2 DEF unmerged
<1> QED BY <1>1, <1>3, SeqDef DEF unmerged

\* The counters account for the alerts at every step.
LEMMA LedgerInvariant == Spec => []LedgerInv
<1>1. Init => LedgerInv
  <2> SUFFICES ASSUME Init PROVE LedgerInv
    OBVIOUS
  <2>1. Len(payload) \in Nat
    BY MaxAlertsInt, PayloadsAreSequences, LenProperties DEF Init
  <2>2. /\ pc = "map" /\ received = Len(payload) /\ next = 1
        /\ unmatched = 0 /\ invalid = 0 /\ duplicates = 0 /\ forwarded = 0
        /\ Cardinality(seen) = 0
    BY FS_EmptySet DEF Init
  <2>3. received + next = unmatched + invalid + duplicates + forwarded
                            + Cardinality(seen) + Len(payload) + 1
    BY <2>1, <2>2, SMT
  <2> QED BY <2>2, <2>3 DEF LedgerInv
<1>2. /\ TypeInv /\ SeenInv /\ EntriesInv /\ GroupsInv /\ OutInv /\ TypeInv'
      /\ LedgerInv /\ [Next]_vars
      => LedgerInv'
  <2> SUFFICES ASSUME TypeInv, SeenInv, EntriesInv, GroupsInv, OutInv, TypeInv',
                      LedgerInv, [Next]_vars
               PROVE  LedgerInv'
    OBVIOUS
  <2>0. /\ next \in Nat /\ received \in Nat /\ unmatched \in Nat /\ invalid \in Nat
        /\ duplicates \in Nat /\ forwarded \in Nat /\ Len(payload) \in Nat
        /\ Cardinality(seen) \in Nat
    BY LenProperties, FS_CardinalityType DEF TypeInv, LedgerInv, SeenInv
  <2>1. CASE SkipUnmatched
    <3>1. /\ pc = "map" /\ pc' = "map" /\ next' = next + 1
          /\ unmatched' = unmatched + 1
          /\ UNCHANGED <<received, invalid, duplicates, forwarded, ways, payload, seen>>
      BY <2>1 DEF SkipUnmatched, mapping, local
    <3>2. forwarded' \in Nat
      BY <2>0, <3>1
    <3>3. merging' => merging
      BY <3>1 DEF merging
    <3>4. received + next = unmatched + invalid + duplicates + forwarded
                              + Cardinality(seen) + Len(payload) + 1
          => received' + next' = unmatched' + invalid' + duplicates' + forwarded'
                              + Cardinality(seen') + Len(payload') + 1
      BY <2>0, <3>1, SMT
    <3> QED BY <3>1, <3>2, <3>3, <3>4 DEF LedgerInv
  <2>2. CASE SkipInvalid
    <3>1. /\ pc = "map" /\ pc' = "map" /\ next' = next + 1
          /\ invalid' = invalid + 1
          /\ UNCHANGED <<received, unmatched, duplicates, forwarded, ways, payload, seen>>
      BY <2>2 DEF SkipInvalid, mapping, local
    <3>2. forwarded' \in Nat
      BY <2>0, <3>1
    <3>3. merging' => merging
      BY <3>1 DEF merging
    <3>4. received + next = unmatched + invalid + duplicates + forwarded
                              + Cardinality(seen) + Len(payload) + 1
          => received' + next' = unmatched' + invalid' + duplicates' + forwarded'
                              + Cardinality(seen') + Len(payload') + 1
      BY <2>0, <3>1, SMT
    <3> QED BY <3>1, <3>2, <3>3, <3>4 DEF LedgerInv
  <2>3. CASE KeepEntry
    <3> DEFINE t == TargetOf[payload[next]]
    <3>1. /\ pc = "map" /\ pc' = "map" /\ next' = next + 1
          /\ UNCHANGED <<received, unmatched, invalid, forwarded, ways, payload>>
          /\ seen' = seen \cup {t}
          /\ duplicates' = IF t \in seen THEN duplicates + 1 ELSE duplicates
      BY <2>3 DEF KeepEntry, mapping
    <3> HIDE DEF t
    <3>2. Cardinality(seen') = IF t \in seen THEN Cardinality(seen)
                                             ELSE Cardinality(seen) + 1
      BY <3>1, FS_AddElement DEF SeenInv
    <3>3. duplicates' + Cardinality(seen') = duplicates + Cardinality(seen) + 1
      BY <2>0, <3>1, <3>2, SMT
    <3>4. duplicates' \in Nat /\ Cardinality(seen') \in Nat
      BY <2>0, <3>1, <3>2, SMT
    <3>5. forwarded' \in Nat
      BY <2>0, <3>1
    <3>6. merging' => merging
      BY <3>1 DEF merging
    <3>7. received + next = unmatched + invalid + duplicates + forwarded
                              + Cardinality(seen) + Len(payload) + 1
          => received' + next' = unmatched' + invalid' + duplicates' + forwarded'
                              + Cardinality(seen') + Len(payload') + 1
      BY <2>0, <3>1, <3>3, <3>4, SMT
    <3> QED BY <3>1, <3>5, <3>6, <3>7 DEF LedgerInv
  <2>4. CASE EndMapping
    <3>1. /\ pc = "map" /\ next > Len(payload)
          /\ UNCHANGED <<payload, seen, received, unmatched, invalid, duplicates>>
      BY <2>4 DEF EndMapping
    <3>2. CASE pc' = "group"
      <4>1. UNCHANGED <<forwarded, ways>>
        BY <2>4, <3>2 DEF EndMapping, finish
      <4>2. next = Len(payload) + 1
        BY <2>0, <3>1, SMT DEF EntriesInv
      <4>3. merging' => merging
        BY <4>1 DEF merging
      <4>4. received + next = unmatched + invalid + duplicates + forwarded
                                + Cardinality(seen) + Len(payload) + 1
            => received' = unmatched' + invalid' + duplicates' + forwarded'
                                + Cardinality(seen')
        BY <2>0, <3>1, <4>1, <4>2, SMT
      <4>5. forwarded' \in Nat
        BY <2>0, <4>1
      <4> QED BY <3>1, <3>2, <4>3, <4>4, <4>5 DEF LedgerInv
    <3>3. CASE pc' # "group"
      <4>1. finish(unmerged(entries), "disabled")
        BY <2>4, <3>3 DEF EndMapping
      <4>2. ~ merging'
        BY <4>1, MergingEnds DEF Aggregated
      <4>3. forwarded' \in Nat
        BY <2>0, <4>1, UnmergedLength DEF finish
      <4> QED BY <4>2, <4>3 DEF LedgerInv
    <3> QED BY <3>2, <3>3
  <2>5. CASE GroupEntry \/ EndGrouping \/ MergeTarget
    <3>1. /\ pc \in {"group", "merge"} /\ pc' \in {"group", "merge"}
          /\ UNCHANGED <<seen, metrics, ways>>
      BY <2>5 DEF GroupEntry, EndGrouping, MergeTarget, local
    <3>2. merging' => merging
      BY <3>1 DEF merging
    <3> QED BY <2>0, <3>1, <3>2 DEF LedgerInv, metrics
  <2>6. CASE FallBack
    <3>1. finish(unmerged(entries), "unmerged")
      BY <2>6 DEF FallBack
    <3>2. ~ merging'
      BY <3>1, MergingEnds DEF Aggregated
    <3>3. forwarded' \in Nat
      BY <2>0, <3>1, UnmergedLength DEF finish
    <3> QED BY <3>2, <3>3 DEF LedgerInv
  <2>7. CASE EndMerging
    <3>1. /\ pc = "merge" /\ next > Len(order)
          /\ UNCHANGED <<received, unmatched, invalid, duplicates>>
      BY <2>7 DEF EndMerging
    <3>2. PICK w \in Aggregated : finish(out, w)
      BY <2>7 DEF EndMerging, Aggregated
    <3>3. merging' => merging
      BY <3>2, MergingEnds
    <3>4. Cardinality(seen) = Len(order)
      BY <3>1, SeenAreListed DEF GroupsInv
    <3>5. Len(order) \in Nat
      BY LenProperties DEF TypeInv
    <3>6. Len(out) = Len(order)
      BY <2>0, <3>1, <3>5, SMT DEF OutInv
    <3>7. pc' = "done" /\ forwarded' = forwarded + Cardinality(seen)
      BY <3>2, <3>4, <3>6 DEF finish
    <3>8. received = unmatched + invalid + duplicates + forwarded
                       + Cardinality(seen)
          => received' = unmatched' + invalid' + duplicates' + forwarded'
      BY <2>0, <3>1, <3>7, SMT
    <3>9. forwarded' \in Nat
      BY <2>0, <3>7, SMT
    <3> QED BY <3>1, <3>3, <3>7, <3>8, <3>9 DEF LedgerInv
  <2>8. CASE NextPayload
    <3>1. PICK p \in PayloadsUpTo(MaxAlerts - received) :
             begin(p) /\ received' = received + Len(p)
      BY <2>8 DEF NextPayload
    <3>2. /\ pc = "done" /\ pc' = "map" /\ next' = 1 /\ payload' = p
          /\ UNCHANGED <<unmatched, invalid, duplicates, forwarded, ways>>
          /\ received' = received + Len(payload')
          /\ Cardinality(seen') = 0
      BY <2>8, <3>1, FS_EmptySet DEF NextPayload, begin
    <3>3. Len(payload') \in Nat
      BY LenProperties DEF TypeInv
    <3>4. merging' => merging
      BY <3>2 DEF merging
    <3>5. received = unmatched + invalid + duplicates + forwarded
          => received' + next' = unmatched' + invalid' + duplicates' + forwarded'
                              + Cardinality(seen') + Len(payload') + 1
      BY <2>0, <3>2, <3>3, SMT
    <3>6. forwarded' \in Nat
      BY <2>0, <3>2
    <3> QED BY <3>2, <3>4, <3>5, <3>6 DEF LedgerInv
  <2>9. CASE UNCHANGED vars
    BY <2>9 DEF vars, metrics, LedgerInv, merging
  <2> QED BY <2>1, <2>2, <2>3, <2>4, <2>5, <2>6, <2>7, <2>8, <2>9 DEF Next
<1> QED BY <1>1, <1>2, TypesInvariant, SeenInvariant, EntriesInvariant,
           GroupsInvariant, OutInvariant, PTL DEF Spec

-----------------------------------------------------------------------------
\* The handler's lists and counters keep their types.
THEOREM TypeCorrect == Spec => []TypeOK
<1>1. TypeInv /\ GroupsInv /\ OutInv /\ LedgerInv => TypeOK
  <2> SUFFICES ASSUME TypeInv, GroupsInv, OutInv, LedgerInv PROVE TypeOK
    OBVIOUS
  <2>1. out \in Seq(CheckResults)
    <3>1. CASE pc \in {"map", "group"}
      BY <3>1, EmptyLists DEF GroupsInv
    <3>2. CASE pc = "merge"
      BY <3>2 DEF OutInv
    <3>3. CASE pc = "done"
      BY <3>3, UnmergedLength DEF OutInv
    <3> QED BY <3>1, <3>2, <3>3 DEF TypeInv
  <2> QED BY <2>1 DEF TypeOK, TypeInv, LedgerInv
<1> QED BY <1>1, TypesInvariant, GroupsInvariant, OutInvariant, LedgerInvariant, PTL

\* No alert is counted twice or not at all while batches are merged.
THEOREM Balances == Spec => []LedgerBalances
<1>1. LedgerInv => LedgerBalances
  BY DEF LedgerInv, LedgerBalances, merging
<1> QED BY <1>1, LedgerInvariant, PTL

-----------------------------------------------------------------------------
(* The order of the checkresults.                                          *)

\* Alert a makes an entry for target t.
hits(a, t) == Fate[a] = "entry" /\ TargetOf[a] = t

\* The last of the entries es for a target is the last alert for it among the
\* first k of the payload p.
LastKept(p, es, k) ==
    \A n \in 1 .. Len(es) :
        (\A m \in n + 1 .. Len(es) : TargetOf[es[m]] # TargetOf[es[n]])
        => \E i \in 1 .. k : /\ p[i] = es[n]
                             /\ \A j \in i + 1 .. k : ~ hits(p[j], TargetOf[es[n]])

\* An entry is an alert among the first k of the payload before which there are
\* only targets that have an entry before this one.
FirstKept(p, es, k) ==
    \A n \in 1 .. Len(es) :
        \E i \in 1 .. k :
            /\ p[i] = es[n]
            /\ \A j \in 1 .. i : Fate[p[j]] = "entry" =>
                  \E m \in 1 .. n : TargetOf[es[m]] = TargetOf[p[j]]

\* The mapping loop keeps the order of the payload.
EntryOrderInv ==
    LET k == IF pc = "map" THEN next - 1 ELSE Len(payload)
    IN  LastKept(payload, entries, k) /\ FirstKept(payload, entries, k)

\* An alert that makes no entry changes neither.
LEMMA SkippedStep ==
    ASSUME NEW p, NEW es, NEW k \in Nat, Fate[p[k + 1]] # "entry",
           LastKept(p, es, k), FirstKept(p, es, k)
    PROVE  LastKept(p, es, k + 1) /\ FirstKept(p, es, k + 1)
<1>1. LastKept(p, es, k + 1)
  <2> SUFFICES ASSUME NEW n \in 1 .. Len(es),
                      \A m \in n + 1 .. Len(es) : TargetOf[es[m]] # TargetOf[es[n]]
               PROVE  \E i \in 1 .. k + 1 :
                        /\ p[i] = es[n]
                        /\ \A j \in i + 1 .. k + 1 : ~ hits(p[j], TargetOf[es[n]])
    BY DEF LastKept
  <2>1. PICK i \in 1 .. k :
           p[i] = es[n] /\ \A j \in i + 1 .. k : ~ hits(p[j], TargetOf[es[n]])
    BY DEF LastKept
  <2>2. \A j \in i + 1 .. k + 1 : j \in i + 1 .. k \/ j = k + 1
    BY SMT
  <2>3. ~ hits(p[k + 1], TargetOf[es[n]])
    BY DEF hits
  <2>4. i \in 1 .. k + 1
    BY SMT
  <2> QED BY <2>1, <2>2, <2>3, <2>4
<1>2. FirstKept(p, es, k + 1)
  <2>1. \A i \in 1 .. k : i \in 1 .. k + 1
    BY SMT
  <2> QED BY <2>1 DEF FirstKept
<1> QED BY <1>1, <1>2

\* An alert that makes an entry keeps both.
LEMMA KeptStep ==
    ASSUME NEW p, NEW es, NEW fs, NEW k \in Nat, NEW N \in Nat, N = Len(es),
           Len(fs) = N + 1, fs[N + 1] = p[k + 1],
           \A n \in 1 .. N : fs[n] = es[n],
           \A j \in 1 .. k : Fate[p[j]] = "entry" =>
              \E m \in 1 .. N : es[m] = p[j],
           LastKept(p, es, k), FirstKept(p, es, k)
    PROVE  LastKept(p, fs, k + 1) /\ FirstKept(p, fs, k + 1)
<1>1. /\ \A n \in 1 .. N + 1 : n \in 1 .. N \/ n = N + 1
      /\ \A n \in 1 .. N : n \in 1 .. N + 1
      /\ N + 1 \in 1 .. N + 1
  BY SMT
<1>2. /\ \A i \in 1 .. k : i \in 1 .. k + 1
      /\ k + 1 \in 1 .. k + 1
      /\ \A j \in 1 .. k + 1 : j \in 1 .. k \/ j = k + 1
  BY SMT
<1>3. LastKept(p, fs, k + 1)
  <2> SUFFICES ASSUME NEW n \in 1 .. N + 1,
                      \A m \in n + 1 .. N + 1 : TargetOf[fs[m]] # TargetOf[fs[n]]
               PROVE  \E i \in 1 .. k + 1 :
                        /\ p[i] = fs[n]
                        /\ \A j \in i + 1 .. k + 1 : ~ hits(p[j], TargetOf[fs[n]])
    BY DEF LastKept
  <2>1. CASE n = N + 1
    <3>1. \A j \in k + 1 + 1 .. k + 1 : FALSE
      BY SMT
    <3> QED BY <1>2, <2>1, <3>1
  <2>2. CASE n \in 1 .. N
    <3>1. N + 1 \in n + 1 .. N + 1 /\ \A m \in n + 1 .. N : m \in n + 1 .. N + 1 /\ m \in 1 .. N
      BY <2>2, SMT
    <3>2. \A m \in n + 1 .. N : TargetOf[es[m]] # TargetOf[es[n]]
      BY <2>2, <3>1
    <3>3. PICK i \in 1 .. k :
             p[i] = es[n] /\ \A j \in i + 1 .. k : ~ hits(p[j], TargetOf[es[n]])
      BY <2>2, <3>2 DEF LastKept
    <3>4. ~ hits(p[k + 1], TargetOf[fs[n]])
      BY <3>1 DEF hits
    <3>5. \A j \in i + 1 .. k + 1 : j \in i + 1 .. k \/ j = k + 1
      BY SMT
    <3>6. fs[n] = es[n]
      BY <2>2
    <3> QED BY <1>2, <3>3, <3>4, <3>5, <3>6
  <2> QED BY <1>1, <2>1, <2>2
<1>4. FirstKept(p, fs, k + 1)
  <2> SUFFICES ASSUME NEW n \in 1 .. N + 1
               PROVE  \E i \in 1 .. k + 1 :
                        /\ p[i] = fs[n]
                        /\ \A j \in 1 .. i : Fate[p[j]] = "entry" =>
                              \E m \in 1 .. n : TargetOf[fs[m]] = TargetOf[p[j]]
    BY DEF FirstKept
  <2>1. CASE n = N + 1
    <3>1. ASSUME NEW j \in 1 .. k + 1, Fate[p[j]] = "entry"
          PROVE  \E m \in 1 .. n : TargetOf[fs[m]] = TargetOf[p[j]]
      <4>1. CASE j = k + 1
        BY <1>1, <2>1, <4>1
      <4>2. CASE j \in 1 .. k
        <5>1. PICK m \in 1 .. N : es[m] = p[j]
          BY <3>1, <4>2
        <5>2. m \in 1 .. n /\ fs[m] = p[j]
          BY <1>1, <2>1, <5>1
        <5> QED BY <5>2
      <4> QED BY <1>2, <4>1, <4>2
    <3> QED BY <1>2, <2>1, <3>1
  <2>2. CASE n \in 1 .. N
    <3>1. PICK i \in 1 .. k :
             /\ p[i] = es[n]
             /\ \A j \in 1 .. i : Fate[p[j]] = "entry" =>
                   \E m \in 1 .. n : TargetOf[es[m]] = TargetOf[p[j]]
      BY <2>2 DEF FirstKept
    <3>2. \A m \in 1 .. n : m \in 1 .. N /\ fs[m] = es[m]
      <4>1. \A m \in 1 .. n : m \in 1 .. N
        BY <2>2, SMT
      <4> QED BY <4>1
    <3>3. fs[n] = es[n]
      BY <2>2
    <3> QED BY <1>2, <3>1, <3>2, <3>3
  <2> QED BY <1>1, <2>1, <2>2
<1> QED BY <1>3, <1>4

\* Nothing is mapped yet.
LEMMA NoneKept ==
    ASSUME NEW p, NEW k
    PROVE  LastKept(p, <<>>, k) /\ FirstKept(p, <<>>, k)
<1>1. \A n \in 1 .. Len(<<>>) : FALSE
  BY EmptyLists, SMT
<1> QED BY <1>1 DEF LastKept, FirstKept

\* The entries come in the order of the payload.
LEMMA EntryOrderInvariant == Spec => []EntryOrderInv
<1>1. Init => EntryOrderInv
  BY NoneKept DEF Init, EntryOrderInv
<1>2. TypeInv /\ EntriesInv /\ EntryOrderInv /\ [Next]_vars => EntryOrderInv'
  <2> SUFFICES ASSUME TypeInv, EntriesInv, EntryOrderInv, [Next]_vars
               PROVE  EntryOrderInv'
    OBVIOUS
  <2>1. next - 1 \in Nat /\ next - 1 + 1 = next /\ next + 1 - 1 = next
    BY SMT DEF TypeInv
  <2>2. CASE SkipUnmatched \/ SkipInvalid
    <3>1. /\ pc = "map" /\ pc' = "map" /\ next' = next + 1
          /\ UNCHANGED <<payload, entries>> /\ Fate[payload[next]] # "entry"
      BY <2>2 DEF SkipUnmatched, SkipInvalid, mapping, local
    <3>2. LastKept(payload, entries, next) /\ FirstKept(payload, entries, next)
      BY <2>1, <3>1, SkippedStep DEF EntryOrderInv
    <3>3. next' - 1 = next
      BY <2>1, <3>1
    <3> QED BY <3>1, <3>2, <3>3 DEF EntryOrderInv
  <2>3. CASE KeepEntry
    <3>1. /\ pc = "map" /\ pc' = "map" /\ next' = next + 1 /\ next <= Len(payload)
          /\ payload' = payload /\ entries' = Append(entries, payload[next])
      BY <2>3 DEF KeepEntry, mapping
    <3>2. Len(payload) \in Nat /\ Len(entries) \in Nat
      BY LenProperties DEF TypeInv
    <3>3. next \in 1 .. Len(payload)
      BY <2>1, <3>1, <3>2, SMT DEF TypeInv
    <3>4. payload[next] \in Alerts
      BY <3>3, ElementOfSeq DEF TypeInv
    <3>5. /\ Len(entries') = Len(entries) + 1
          /\ entries'[Len(entries) + 1] = payload[next]
          /\ \A n \in 1 .. Len(entries) : entries'[n] = entries[n]
      BY <3>1, <3>4, AppendProperties DEF TypeInv
    <3>6. \A j \in 1 .. next - 1 : Fate[payload[j]] = "entry" =>
             \E m \in 1 .. Len(entries) : entries[m] = payload[j]
      <4>1. \A j \in 1 .. next - 1 : j \in 1 .. Len(payload)
        BY <3>2, <3>3, SMT
      <4>2. \A j \in 1 .. next - 1 : payload[j] \in Alerts
        BY <4>1, ElementOfSeq DEF TypeInv
      <4>3. \A j \in 1 .. next - 1 : Fate[payload[j]] = "entry" =>
               payload[j] \in mappedUpTo(next - 1)
        BY <4>2 DEF mappedUpTo
      <4> QED BY <3>1, <4>3 DEF EntriesInv, rangeOf
    <3>7. LastKept(payload, entries, next - 1) /\ FirstKept(payload, entries, next - 1)
      BY <3>1 DEF EntryOrderInv
    <3>8. LastKept(payload, entries', next - 1 + 1) /\ FirstKept(payload, entries', next - 1 + 1)
      <4> DEFINE k == next - 1
      <4>1. payload[k + 1] = payload[next] /\ k \in Nat
        BY <2>1
      <4> HIDE DEF k
      <4>2. PICK fs : fs = entries'
        OBVIOUS
      <4>3. LastKept(payload, fs, k + 1) /\ FirstKept(payload, fs, k + 1)
        BY <3>2, <3>5, <3>6, <3>7, <4>1, <4>2, KeptStep DEF k
      <4> QED BY <4>2, <4>3 DEF k
    <3>9. next' - 1 = next - 1 + 1
      BY <2>1, <3>1
    <3> QED BY <3>1, <3>8, <3>9 DEF EntryOrderInv
  <2>4. CASE EndMapping
    <3>1. /\ pc = "map" /\ pc' # "map" /\ next > Len(payload)
          /\ UNCHANGED <<payload, entries>>
      BY <2>4 DEF EndMapping, finish
    <3>2. Len(payload) \in Nat
      BY LenProperties DEF TypeInv
    <3>3. next - 1 = Len(payload)
      BY <2>1, <3>1, <3>2, SMT DEF EntriesInv, TypeInv
    <3> QED BY <3>1, <3>3 DEF EntryOrderInv
  <2>5. CASE NextPayload
    <3>1. entries' = <<>>
      BY <2>5 DEF NextPayload, begin
    <3> QED BY <3>1, NoneKept DEF EntryOrderInv
  <2>6. CASE GroupEntry \/ EndGrouping \/ MergeTarget \/ FallBack \/ EndMerging
    <3>1. pc # "map" /\ pc' # "map" /\ UNCHANGED <<payload, entries>>
      BY <2>6 DEF GroupEntry, EndGrouping, MergeTarget, FallBack, EndMerging,
                  finish, local
    <3> QED BY <3>1 DEF EntryOrderInv
  <2>7. CASE UNCHANGED vars
    BY <2>7 DEF vars, EntryOrderInv
  <2> QED BY <2>2, <2>3, <2>4, <2>5, <2>6, <2>7 DEF Next
<1> QED BY <1>1, <1>2, TypesInvariant, EntriesInvariant, PTL DEF Spec

\* Of two targets in the order, the first has an entry, among the first k, before
\* all entries of the second.
ListedInOrder(os, es, k) ==
    \A a, b \in 1 .. Len(os) :
        a < b => \E x \in 1 .. k : /\ TargetOf[es[x]] = os[a]
                                   /\ \A y \in 1 .. x : TargetOf[es[y]] # os[b]

TargetOrderInv ==
    ListedInOrder(order, entries, IF pc = "group" THEN next - 1 ELSE Len(entries))

\* A target that is already listed changes nothing.
LEMMA ListedStep ==
    ASSUME NEW os, NEW es, NEW k \in Nat, ListedInOrder(os, es, k)
    PROVE  ListedInOrder(os, es, k + 1)
<1>1. \A x \in 1 .. k : x \in 1 .. k + 1
  BY SMT
<1> QED BY <1>1 DEF ListedInOrder

\* A new one goes behind all that have an entry.
LEMMA NewlyListedStep ==
    ASSUME NEW os, NEW qs, NEW es, NEW k \in Nat, NEW N \in Nat, N = Len(os),
           Len(qs) = N + 1, \A a \in 1 .. N : qs[a] = os[a],
           \A y \in 1 .. k : TargetOf[es[y]] # qs[N + 1],
           \A a \in 1 .. N : \E x \in 1 .. k : TargetOf[es[x]] = os[a],
           ListedInOrder(os, es, k)
    PROVE  ListedInOrder(qs, es, k + 1)
<1> SUFFICES ASSUME NEW a \in 1 .. Len(qs), NEW b \in 1 .. Len(qs), a < b
             PROVE  \E x \in 1 .. k + 1 : /\ TargetOf[es[x]] = qs[a]
                                          /\ \A y \in 1 .. x : TargetOf[es[y]] # qs[b]
  BY Zenon DEF ListedInOrder
<1>1. a \in 1 .. N /\ (b \in 1 .. N \/ b = N + 1)
  BY SMT
<1>2. \A x \in 1 .. k : x \in 1 .. k + 1 /\ \A y \in 1 .. x : y \in 1 .. k
  BY SMT
<1>3. CASE b \in 1 .. N
  <2>1. PICK x \in 1 .. k : /\ TargetOf[es[x]] = os[a]
                            /\ \A y \in 1 .. x : TargetOf[es[y]] # os[b]
    BY <1>1, <1>3 DEF ListedInOrder
  <2>2. qs[a] = os[a] /\ qs[b] = os[b]
    BY <1>1, <1>3
  <2> QED BY <1>2, <2>1, <2>2
<1>4. CASE b = N + 1
  <2>1. PICK x \in 1 .. k : TargetOf[es[x]] = os[a]
    BY <1>1
  <2>2. qs[a] = os[a] /\ qs[b] = qs[N + 1]
    BY <1>1, <1>4
  <2> QED BY <1>2, <2>1, <2>2
<1> QED BY <1>1, <1>3, <1>4

\* A payload starts with no target listed.
LEMMA NoneListed ==
    ASSUME NEW es, NEW k
    PROVE  ListedInOrder(<<>>, es, k)
<1>1. \A a \in 1 .. Len(<<>>) : FALSE
  BY EmptyLists, SMT
<1> QED BY <1>1 DEF ListedInOrder

\* Targets are listed in the order of their first entries.
LEMMA TargetOrderInvariant == Spec => []TargetOrderInv
<1>1. Init => TargetOrderInv
  BY NoneListed DEF Init, TargetOrderInv
<1>2. /\ TypeInv /\ TypeInv' /\ EntriesInv /\ GroupsInv /\ GroupsInv'
      /\ TargetOrderInv /\ [Next]_vars
      => TargetOrderInv'
  <2> SUFFICES ASSUME TypeInv, TypeInv', EntriesInv, GroupsInv, GroupsInv',
                      TargetOrderInv, [Next]_vars
               PROVE  TargetOrderInv'
    OBVIOUS
  <2>1. /\ next \in Nat \ {0} /\ next - 1 \in Nat
        /\ next - 1 + 1 = next /\ next + 1 - 1 = next
    BY SMT DEF TypeInv
  <2>2. CASE SkipUnmatched \/ SkipInvalid \/ KeepEntry
    <3>1. order' = <<>>
      BY <2>2 DEF SkipUnmatched, SkipInvalid, KeepEntry, mapping, local, GroupsInv
    <3> QED BY <3>1, NoneListed DEF TargetOrderInv
  <2>3. CASE EndMapping \/ NextPayload
    <3>1. order' = <<>>
      BY <2>3 DEF EndMapping, NextPayload, begin, GroupsInv
    <3> QED BY <3>1, NoneListed DEF TargetOrderInv
  <2>4. CASE GroupEntry
    <3> DEFINE t == TargetOf[entries[next]]
    <3>1. /\ pc = "group" /\ pc' = "group" /\ next <= Len(entries)
          /\ next' = next + 1 /\ entries' = entries
          /\ order' = IF groups[t] = <<>> THEN Append(order, t) ELSE order
      BY <2>4 DEF GroupEntry
    <3>2. next \in 1 .. Len(entries) /\ Len(entries) \in Nat /\ Len(order) \in Nat
      BY <3>1, LenProperties, SMT DEF TypeInv
    <3>3. t \in Targets
      <4>1. entries[next] \in Alerts
        BY <3>2, ElementOfSeq DEF TypeInv
      <4> QED BY <4>1, BatchAssumption
    <3> HIDE DEF t
    <3>4. next' - 1 = next - 1 + 1
      BY <2>1, <3>1
    <3>5. ListedInOrder(order, entries, next - 1)
      BY <3>1 DEF TargetOrderInv
    <3>6. CASE groups[t] # <<>>
      <4>1. ListedInOrder(order, entries, next - 1 + 1)
        BY <2>1, <3>5, ListedStep
      <4> QED BY <3>1, <3>4, <3>6, <4>1 DEF TargetOrderInv
    <3>7. CASE groups[t] = <<>>
      <4>1. \A y \in 1 .. next - 1 : entries[y] \in Alerts
        <5>1. \A y \in 1 .. next - 1 : y \in 1 .. Len(entries)
          BY <3>2, SMT
        <5> QED BY <5>1, ElementOfSeq DEF TypeInv
      <4>2. \A u \in Targets : rangeOf(groups[u]) = groupedUpTo(u, next - 1)
        BY <3>1 DEF GroupsInv
      <4>3. \A y \in 1 .. next - 1 : TargetOf[entries[y]] # t
        <5>1. groupedUpTo(t, next - 1) = {}
          BY <3>3, <3>7, <4>2, EmptyLists
        <5> QED BY <4>1, <5>1 DEF groupedUpTo
      <4>4. \A a \in 1 .. Len(order) : \E x \in 1 .. next - 1 :
               TargetOf[entries[x]] = order[a]
        <5> SUFFICES ASSUME NEW a \in 1 .. Len(order)
                     PROVE  \E x \in 1 .. next - 1 : TargetOf[entries[x]] = order[a]
          OBVIOUS
        <5>1. order[a] \in Targets /\ order[a] \in rangeOf(order)
          BY ElementOfSeq DEF TypeInv, rangeOf
        <5>2. groupedUpTo(order[a], next - 1) # {}
          BY <3>1, <4>2, <5>1 DEF GroupsInv, OrderInv
        <5> QED BY <5>2 DEF groupedUpTo
      <4>5. /\ Len(order') = Len(order) + 1
            /\ \A a \in 1 .. Len(order) : order'[a] = order[a]
            /\ order'[Len(order) + 1] = t
        BY <3>1, <3>3, <3>7, AppendProperties DEF TypeInv
      <4>6. PICK k : k = next - 1
        OBVIOUS
      <4>7. PICK qs : qs = order'
        OBVIOUS
      <4>8. ListedInOrder(qs, entries, k + 1)
        BY <2>1, <3>2, <3>5, <4>3, <4>4, <4>5, <4>6, <4>7, NewlyListedStep
      <4> QED BY <3>1, <3>4, <4>6, <4>7, <4>8 DEF TargetOrderInv
    <3> QED BY <3>6, <3>7
  <2>5. CASE EndGrouping
    <3>1. /\ pc = "group" /\ pc' = "merge" /\ next > Len(entries)
          /\ UNCHANGED <<order, entries>>
      BY <2>5 DEF EndGrouping, local
    <3>2. Len(entries) \in Nat
      BY LenProperties DEF TypeInv
    <3>3. next - 1 = Len(entries)
      BY <2>1, <3>1, <3>2, SMT DEF GroupsInv
    <3> QED BY <3>1, <3>3 DEF TargetOrderInv
  <2>6. CASE MergeTarget \/ FallBack \/ EndMerging
    <3>1. pc = "merge" /\ pc' # "group" /\ UNCHANGED <<order, entries>>
      BY <2>6 DEF MergeTarget, FallBack, EndMerging, finish
    <3> QED BY <3>1 DEF TargetOrderInv
  <2>7. CASE UNCHANGED vars
    BY <2>7 DEF vars, TargetOrderInv
  <2> QED BY <2>2, <2>3, <2>4, <2>5, <2>6, <2>7 DEF Next
<1> QED BY <1>1, <1>2, TypesInvariant, EntriesInvariant, GroupsInvariant, PTL
        DEF Spec

\* Unmerged, the last alert of the payload for a target is the one that NRDP
\* applies last.
THEOREM LastWins == Spec => []LastAlertWins
<1>1. TypeInv /\ EntriesInv /\ OutInv /\ EntryOrderInv => LastAlertWins
  <2> SUFFICES ASSUME TypeInv, EntriesInv, OutInv, EntryOrderInv,
                      pc = "done", way \notin Aggregated,
                      NEW n \in 1 .. Len(out),
                      \A k \in n + 1 .. Len(out) : out[k].target # out[n].target
               PROVE  \E i \in 1 .. Len(payload) :
                        /\ payload[i] \in keptFor(out[n].target)
                        /\ CodeOf[payload[i]] = out[n].state
                        /\ \A j \in i + 1 .. Len(payload) :
                              payload[j] \notin keptFor(out[n].target)
    BY DEF LastAlertWins
  <2>1. Len(out) = Len(entries) /\ Len(entries) \in Nat
    BY UnmergedLength DEF OutInv
  <2>2. \A k \in 1 .. Len(entries) : /\ out[k].target = TargetOf[entries[k]]
                                     /\ out[k].state = CodeOf[entries[k]]
    BY DEF OutInv, unmerged, single
  <2>3. \A k \in n + 1 .. Len(entries) : k \in 1 .. Len(entries)
    BY <2>1, SMT
  <2>4. \A k \in n + 1 .. Len(entries) : TargetOf[entries[k]] # TargetOf[entries[n]]
    BY <2>1, <2>2, <2>3
  <2>5. PICK i \in 1 .. Len(payload) :
           /\ payload[i] = entries[n]
           /\ \A j \in i + 1 .. Len(payload) : ~ hits(payload[j], TargetOf[entries[n]])
    BY <2>1, <2>4 DEF EntryOrderInv, LastKept
  <2>6. entries[n] \in kept
    BY <2>1 DEF EntriesInv, rangeOf
  <2>7. out[n].target = TargetOf[entries[n]] /\ out[n].state = CodeOf[entries[n]]
    BY <2>1, <2>2
  <2>8. payload[i] \in keptFor(out[n].target) /\ CodeOf[payload[i]] = out[n].state
    BY <2>5, <2>6, <2>7 DEF keptFor
  <2>9. \A j \in i + 1 .. Len(payload) : payload[j] \notin keptFor(out[n].target)
    BY <2>5, <2>7 DEF hits, keptFor, kept
  <2> QED BY <2>8, <2>9
<1> QED BY <1>1, TypesInvariant, EntriesInvariant, OutInvariant,
           EntryOrderInvariant, PTL

\* Merged, the checkresults follow the order in which the payload first names
\* their targets, so that it determines the request.
THEOREM InPayloadOrder == Spec => []FirstSeenOrder
<1>1. TypeInv /\ EntriesInv /\ OutInv /\ EntryOrderInv /\ TargetOrderInv
      => FirstSeenOrder
  <2> SUFFICES ASSUME TypeInv, EntriesInv, OutInv, EntryOrderInv, TargetOrderInv,
                      pc = "done", way \in Aggregated,
                      NEW a \in 1 .. Len(out), NEW b \in 1 .. Len(out), a < b
               PROVE  \E i \in 1 .. Len(payload) :
                        /\ payload[i] \in keptFor(out[a].target)
                        /\ \A j \in 1 .. i : payload[j] \notin keptFor(out[b].target)
    BY DEF FirstSeenOrder
  <2>1. /\ a \in 1 .. Len(order) /\ out[a].target = order[a]
        /\ b \in 1 .. Len(order) /\ out[b].target = order[b]
    BY AtTheEnd
  <2>2. PICK x \in 1 .. Len(entries) :
           /\ TargetOf[entries[x]] = order[a]
           /\ \A y \in 1 .. x : TargetOf[entries[y]] # order[b]
    BY <2>1 DEF TargetOrderInv, ListedInOrder
  <2>3. PICK i \in 1 .. Len(payload) :
           /\ payload[i] = entries[x]
           /\ \A j \in 1 .. i : Fate[payload[j]] = "entry" =>
                 \E m \in 1 .. x : TargetOf[entries[m]] = TargetOf[payload[j]]
    BY DEF EntryOrderInv, FirstKept
  <2>4. entries[x] \in kept
    BY DEF EntriesInv, rangeOf
  <2>5. payload[i] \in keptFor(out[a].target)
    BY <2>1, <2>2, <2>3, <2>4 DEF keptFor
  <2>6. \A j \in 1 .. i : payload[j] \notin keptFor(out[b].target)
    BY <2>1, <2>2, <2>3 DEF keptFor, kept
  <2> QED BY <2>5, <2>6
<1> QED BY <1>1, TypesInvariant, EntriesInvariant, OutInvariant,
           EntryOrderInvariant, TargetOrderInvariant, PTL
=============================================================================
