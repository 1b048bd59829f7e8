------------------------- MODULE MappingRulesProofs -------------------------
(***************************************************************************)
(* What holds of the mapping of an alert for every config of valid rules   *)
(* and all labels.                                                         *)
(***************************************************************************)
EXTENDS MappingRules, StateResolverProofs

\* Resolve has passed over the rules before n, none of which matches; an alert
\* is unmatched when it has passed over all of them.
PassedInv ==
    /\ rules \in Seq({r \in Rules : validateRule(r)})
    /\ n \in Nat \ {0}
    /\ \A k \in 1 .. n - 1 : ~ matchesAll(rules[k], alert)
    /\ fate \notin {"", "unmatched"} => matchesAll(rules[n], alert)
    /\ fate = "unmatched" => n > Len(rules)

-----------------------------------------------------------------------------
LEMMA PassedStart == Init => PassedInv
<1> SUFFICES ASSUME Init PROVE PassedInv
  OBVIOUS
<1>1. PICK k \in 1 .. MaxRules : rules \in [1 .. k -> {r \in Rules : validateRule(r)}]
  BY DEF Init
<1>2. k \in Nat
  BY MappingAssumption
<1>3. rules \in Seq({r \in Rules : validateRule(r)})
  BY <1>1, <1>2, IsASeq
<1>4. n = 1
  BY DEF Init
<1>5. n \in Nat \ {0} /\ \A i \in 1 .. n - 1 : FALSE
  BY <1>4
<1>6. fate = ""
  BY DEF Init
<1> QED BY <1>3, <1>5, <1>6 DEF PassedInv

LEMMA PassedStep ==
    ASSUME PassedInv, [Next]_vars
    PROVE  PassedInv'
<1>1. rules' = rules /\ alert' = alert
  BY DEF Next, NextRule, NoRule, RenderError, Unusable, Mapped, vars, config
<1>2. n \in Nat \ {0}
  BY DEF PassedInv
<1>3. CASE NextRule
  <2>1. n' = n + 1 /\ fate' = fate /\ fate = "" /\ ~ matchesAll(rules[n], alert)
    BY <1>3 DEF NextRule, looking
  <2> DEFINE m == n'
  <2>2. m \in Nat \ {0} /\ \A k \in 1 .. m - 1 : k \in 1 .. n - 1 \/ k = n
    <3>1. m = n + 1
      BY <2>1
    <3> HIDE DEF m
    <3> QED BY <1>2, <3>1
  <2>3. \A k \in 1 .. n' - 1 : ~ matchesAll(rules[k], alert)
    BY <2>1, <2>2 DEF PassedInv
  <2> QED BY <1>1, <2>1, <2>2, <2>3 DEF PassedInv
<1>4. CASE NoRule
  BY <1>1, <1>4 DEF NoRule, PassedInv
<1>5. CASE RenderError \/ Unusable \/ Mapped
  <2>1. n' = n /\ matchesAll(rules[n], alert) /\ fate' \in {"error", "invalid", "entry"}
    BY <1>5 DEF RenderError, Unusable, Mapped
  <2> QED BY <1>1, <2>1 DEF PassedInv
<1>6. CASE UNCHANGED vars
  BY <1>1, <1>6 DEF vars, config, PassedInv
<1> QED BY <1>3, <1>4, <1>5, <1>6 DEF Next

LEMMA PassedAlways == Spec => []PassedInv
<1>1. PassedInv /\ [Next]_vars => PassedInv'
  BY PassedStep
<1> QED BY <1>1, PassedStart, PTL DEF Spec

\* Of two opposite conditions on a label every alert fulfils one, also an alert
\* without the label.
LEMMA OneOfOpposites ==
    ASSUME NEW j, NEW k, NEW labels, opposite(j, k)
    PROVE  matchOne(j, labels) \/ matchOne(k, labels)
<1>1. j.label = k.label /\ j.value = k.value
  BY DEF opposite
<1>2. \/ j.op = "exists" /\ k.op = "absent"
      \/ j.op = "eq" /\ k.op = "ne"
      \/ j.op = "regex" /\ k.op = "notregex"
  BY DEF opposite
<1>3. CASE j.op = "exists" /\ k.op = "absent"
  BY <1>1, <1>3 DEF matchOne
<1>4. CASE j.op = "eq" /\ k.op = "ne"
  BY <1>1, <1>4 DEF matchOne
<1>5. CASE j.op = "regex" /\ k.op = "notregex"
  BY <1>1, <1>5 DEF matchOne
<1> QED BY <1>2, <1>3, <1>4, <1>5

-----------------------------------------------------------------------------
\* The first rule that matches decides, for every list of rules.
THEOREM FirstDecides == Spec => []FirstMatchDecides
<1>1. PassedInv => FirstMatchDecides
  BY DEF PassedInv, FirstMatchDecides
<1> QED BY <1>1, PassedAlways, PTL

\* With two opposite rules in its config no alert is unmatched.
THEOREM NoGap == Spec => []OppositesCover
<1>1. PassedInv => OppositesCover
  <2> SUFFICES ASSUME PassedInv, fate = "unmatched",
                      NEW j \in 1 .. Len(rules), NEW k \in 1 .. Len(rules),
                      NEW p, NEW w, rules[j].Match = {p}, rules[k].Match = {w},
                      opposite(p, w)
               PROVE  FALSE
    BY DEF OppositesCover
  <2>1. Len(rules) \in Nat
    BY LenProperties DEF PassedInv
  <2>2. j \in 1 .. n - 1 /\ k \in 1 .. n - 1
    BY <2>1 DEF PassedInv
  <2>3. ~ matchesAll(rules[j], alert) /\ ~ matchesAll(rules[k], alert)
    BY <2>2 DEF PassedInv
  <2>4. ~ matchOne(p, alert) /\ ~ matchOne(w, alert)
    BY <2>3 DEF matchesAll
  <2> QED BY <2>4, OneOfOpposites
<1> QED BY <1>1, PassedAlways, PTL

-----------------------------------------------------------------------------
(* Names: what SanitizeName leaves of a string.                            *)

\* A nonempty set of numbers up to N has a first and a last one.
LEMMA EndsOf ==
    ASSUME NEW N \in Nat, NEW T, T \subseteq 1 .. N, T # {}
    PROVE  /\ \E i \in T : \A j \in T : i <= j
           /\ \E i \in T : \A j \in T : j <= i
<1>1. \A i \in T : i \in Nat /\ N - i \in Nat
  <2> SUFFICES ASSUME NEW i \in T PROVE i \in Nat /\ N - i \in Nat
    OBVIOUS
  <2>1. i \in 1 .. N
    OBVIOUS
  <2> QED BY <2>1
<1>2. T \subseteq Nat
  BY <1>1
<1>3. \E i \in T : \A j \in T : i <= j
  BY <1>2, LeastNumber
<1>4. PICK U : U = {N - i : i \in T}
  OBVIOUS
<1>5. U \subseteq Nat
  BY <1>1, <1>4
<1>6. U # {}
  BY <1>4
<1>7. PICK u \in U : \A v \in U : u <= v
  BY <1>5, <1>6, LeastNumber
<1>8. PICK i \in T : u = N - i
  BY <1>4
<1>9. \A j \in T : N - i <= N - j
  BY <1>4, <1>7, <1>8
<1>10. \A j \in T : j <= i
  BY <1>1, <1>9
<1> QED BY <1>3, <1>10

\* The N positions lo .. hi of 1 .. L, counted from 1.
LEMMA Span ==
    ASSUME NEW L \in Nat, NEW lo \in 1 .. L, NEW hi \in 1 .. L, lo <= hi,
           NEW N, N = hi - lo + 1
    PROVE  /\ lo \in Int /\ hi \in Int
           /\ N \in Nat /\ N > 0
           /\ \A i \in lo .. hi : i \in 1 .. L
           /\ \A i \in 1 .. N : lo + i - 1 \in 1 .. L
           /\ 1 \in 1 .. N
           /\ N \in 1 .. N
           /\ lo + 1 - 1 = lo
           /\ lo + N - 1 = hi
OBVIOUS

\* A function on 1 .. L is a sequence.
LEMMA SeqOf ==
    ASSUME NEW S, NEW L \in Nat, NEW f \in [1 .. L -> S]
    PROVE  f \in Seq(S) /\ Len(f) = L
OBVIOUS

\* stripControl keeps the length and leaves no control characters.
LEMMA Stripped ==
    ASSUME NEW s \in Seq(Kinds), NEW L, L = Len(s),
           \A i \in 1 .. L : s[i] # ";"
    PROVE  /\ stripControl(s) \in Seq(Kinds)
           /\ Len(stripControl(s)) = L
           /\ \A i \in 1 .. L : stripControl(s)[i] \in Kinds \ {";", "ctl"}
<1> DEFINE c == stripControl(s)
<1>1. L \in Nat
  BY LenProperties
<1>2. \A i \in 1 .. L : s[i] \in Kinds
  BY ElementOfSeq
<1>3. c = [i \in 1 .. L |-> IF s[i] = "ctl" THEN " " ELSE s[i]]
  BY DEF stripControl
<1> HIDE DEF c
<1>4. \A i \in 1 .. L : c[i] = IF s[i] = "ctl" THEN " " ELSE s[i]
  BY <1>3
<1>5. \A i \in 1 .. L : c[i] \in Kinds \ {";", "ctl"}
  BY <1>2, <1>4 DEF Kinds
<1>6. c \in [1 .. L -> Kinds]
  BY <1>3, <1>5
<1>7. c \in Seq(Kinds) /\ Len(c) = L
  BY <1>1, <1>6, SeqOf
<1> QED BY <1>5, <1>7 DEF c

\* The characters of c at 1 .. L are neither separators nor control characters.
clean(c, L) == \A i \in 1 .. L : c[i] \in Kinds \ {";", "ctl"}
solidAt(c, i) == c[i] # " "

\* The part of a string between two of its characters.
LEMMA Part ==
    ASSUME NEW c, NEW L \in Nat, NEW lo \in 1 .. L, NEW hi \in 1 .. L, lo <= hi,
           clean(c, L), solidAt(c, lo), solidAt(c, hi)
    PROVE  usable(SubSeq(c, lo, hi)) /\ SubSeq(c, lo, hi) \in Seq(Kinds)
<1>1. PICK N : N = hi - lo + 1
  OBVIOUS
<1>2. lo \in Int /\ hi \in Int
  BY Span
<1>3. N \in Nat /\ N > 0
  BY <1>1, Span
<1>4. \A i \in lo .. hi : i \in 1 .. L
  BY Span
<1>5. \A i \in 1 .. N : lo + i - 1 \in 1 .. L
  BY <1>1, Span
<1>6. 1 \in 1 .. N /\ N \in 1 .. N /\ lo + 1 - 1 = lo /\ lo + N - 1 = hi
  BY <1>1, Span
<1>7. \A i \in lo .. hi : c[i] \in Kinds
  <2> SUFFICES ASSUME NEW i \in lo .. hi PROVE c[i] \in Kinds
    OBVIOUS
  <2>1. i \in 1 .. L
    BY <1>4
  <2> QED BY <2>1 DEF clean
<1>8. PICK name : name = SubSeq(c, lo, hi)
  OBVIOUS
<1>9. name \in Seq(Kinds) /\ Len(name) = N
  BY <1>1, <1>2, <1>7, <1>8, SubSeqProperties
<1>10. \A i \in 1 .. N : name[i] = c[lo + i - 1]
  BY <1>1, <1>2, <1>7, <1>8, SubSeqProperties
<1>11. \A i \in 1 .. N : name[i] \notin {";", "ctl"}
  BY <1>5, <1>10 DEF clean
<1>12. name[1] = c[lo] /\ name[N] = c[hi]
  BY <1>6, <1>10
<1>13. name # <<>>
  BY <1>3, <1>9, EmptySeq
<1>14. usable(name)
  BY <1>9, <1>11, <1>12, <1>13 DEF usable, solidAt
<1> QED BY <1>8, <1>9, <1>14

\* A string cleaned of separators is, after trimming, empty or a usable name: no
\* control character survives, and no blank that one was replaced by is left at
\* an end.
LEMMA CleanedIsUsable ==
    ASSUME NEW s \in Seq(Kinds), \A i \in 1 .. Len(s) : s[i] # ";"
    PROVE  LET name == TrimSpace(stripControl(s))
           IN  /\ name \in Seq(Kinds)
               /\ name = <<>> \/ usable(name)
<1> DEFINE c == stripControl(s)
           L == Len(c)
           solid == {i \in 1 .. L : c[i] # " "}
           lo == CHOOSE i \in solid : \A j \in solid : i <= j
           hi == CHOOSE i \in solid : \A j \in solid : j <= i
<1>1. c \in Seq(Kinds) /\ \A i \in 1 .. L : c[i] \in Kinds \ {";", "ctl"}
  BY Stripped
<1>2. TrimSpace(c) = IF solid = {} THEN <<>> ELSE SubSeq(c, lo, hi)
  BY DEF TrimSpace
<1> HIDE DEF c
<1>3. L \in Nat
  BY <1>1, LenProperties
<1> HIDE DEF L
<1>4. \A i \in solid : i \in 1 .. L /\ c[i] # " "
  OBVIOUS
<1>5. ASSUME solid # {}
      PROVE  usable(SubSeq(c, lo, hi)) /\ SubSeq(c, lo, hi) \in Seq(Kinds)
  <2>1. /\ \E i \in solid : \A j \in solid : i <= j
        /\ \E i \in solid : \A j \in solid : j <= i
    <3>1. solid \subseteq 1 .. L
      OBVIOUS
    <3> HIDE DEF solid
    <3> QED BY <1>3, <1>5, <3>1, EndsOf
  <2> HIDE DEF solid
  <2>2. lo \in solid /\ \A j \in solid : lo <= j
    BY <2>1
  <2>3. hi \in solid
    BY <2>1
  <2> HIDE DEF lo, hi
  <2>4. lo <= hi
    BY <2>2, <2>3
  <2>5. lo \in 1 .. L /\ hi \in 1 .. L /\ c[lo] # " " /\ c[hi] # " "
    BY <1>4, <2>2, <2>3
  <2>6. clean(c, L) /\ solidAt(c, lo) /\ solidAt(c, hi)
    BY <1>1, <2>5 DEF clean, solidAt
  <2> QED BY <1>3, <2>4, <2>5, <2>6, Part
<1> HIDE DEF solid, lo, hi
<1>6. <<>> \in Seq(Kinds)
  BY EmptySeq
<1> QED BY <1>2, <1>5, <1>6 DEF c

\* What is left of a string without its semicolons, whatever the string.
LEMMA NoneLeft ==
    ASSUME NEW s \in Seq(Kinds)
    PROVE  noSemicolons(s) \in Seq(Kinds \ {";"})
<1> DEFINE N == Len(s)
           S == Seq(Kinds \ {";"})
           g == [i \in 1 .. N |-> [name \in S |-> takeOver(name, s[i])]]
           kept[i \in 0 .. N] ==
              IF i = 0 THEN <<>> ELSE takeOver(kept[i - 1], s[i])
<1>1. N \in Nat /\ \A i \in 1 .. N : s[i] \in Kinds
  BY LenProperties, ElementOfSeq
<1>2. <<>> \in S
  BY EmptySeq
<1>3. \A i \in 1 .. N : \A name \in S : takeOver(name, s[i]) \in S
  <2> SUFFICES ASSUME NEW i \in 1 .. N, NEW name \in S
               PROVE  takeOver(name, s[i]) \in S
    OBVIOUS
  <2>1. CASE s[i] = ";"
    BY <2>1 DEF takeOver
  <2>2. CASE s[i] # ";"
    <3>1. s[i] \in Kinds \ {";"}
      BY <1>1, <2>2
    <3>2. Append(name, s[i]) \in S
      BY <3>1, AppendProperties
    <3> QED BY <2>2, <3>2 DEF takeOver
  <2> QED BY <2>1, <2>2
<1>4. noSemicolons(s) = kept[N]
  BY DEF noSemicolons
<1> HIDE DEF N, S
<1>5. g \in [1 .. N -> [S -> S]]
  <2>1. \A i \in 1 .. N : [name \in S |-> takeOver(name, s[i])] \in [S -> S]
    BY <1>3
  <2> QED BY <2>1
<1> HIDE DEF g
<1>6. PICK f : Computes(f, N, S, <<>>, g)
  BY <1>1, <1>2, <1>5, RecursiveFunction
<1>7. f = [i \in 0 .. N |-> IF i = 0 THEN <<>> ELSE takeOver(f[i - 1], s[i])]
  <2>1. f = [i \in 0 .. N |-> f[i]]
    BY <1>6 DEF Computes
  <2>2. ASSUME NEW i \in 0 .. N
        PROVE  f[i] = IF i = 0 THEN <<>> ELSE takeOver(f[i - 1], s[i])
    <3>1. CASE i = 0
      BY <1>6, <3>1 DEF Computes
    <3>2. CASE i # 0
      <4>1. i \in 1 .. N /\ i - 1 \in 0 .. N
        BY <1>1, <3>2
      <4>2. f[i] = g[i][f[i - 1]] /\ f[i - 1] \in S
        BY <1>6, <4>1 DEF Computes
      <4>3. g[i] = [name \in S |-> takeOver(name, s[i])]
        BY <4>1 DEF g
      <4> QED BY <3>2, <4>2, <4>3
    <3> QED BY <3>1, <3>2
  <2> QED BY <2>1, <2>2
<1>8. kept = [i \in 0 .. N |-> IF i = 0 THEN <<>> ELSE takeOver(kept[i - 1], s[i])]
  BY <1>7
<1> HIDE DEF kept
<1> DEFINE right == {i \in 0 .. N : kept[i] \in S}
<1>9. 0 \in right
  <2>1. 0 \in 0 .. N
    BY <1>1
  <2>2. kept[0] = <<>>
    BY <1>8, <2>1
  <2> QED BY <1>2, <2>1, <2>2
<1>10. ASSUME NEW i \in 1 .. N, i - 1 \in right PROVE i \in right
  <2>1. i \in 0 .. N /\ i # 0
    BY <1>1
  <2>2. kept[i] = takeOver(kept[i - 1], s[i])
    BY <1>8, <2>1
  <2>3. kept[i - 1] \in S
    BY <1>10
  <2> QED BY <1>3, <2>1, <2>2, <2>3
<1> HIDE DEF right
<1>11. N \in right
  <2>1. N \in 0 .. N
    BY <1>1
  <2> QED BY <1>1, <1>9, <1>10, <2>1, PositionInduction
<1>12. kept[N] \in S
  BY <1>11 DEF right
<1> QED BY <1>4, <1>12 DEF S

\* A name is empty or usable after sanitizing, whatever the label held.
THEOREM SanitizedIsUsable ==
    ASSUME NEW s \in Seq(Kinds)
    PROVE  /\ SanitizeName(s) \in Seq(Kinds)
           /\ SanitizeName(s) = <<>> \/ usable(SanitizeName(s))
<1>1. PICK c : c = noSemicolons(s)
  OBVIOUS
<1>2. c \in Seq(Kinds \ {";"})
  BY <1>1, NoneLeft
<1>3. c \in Seq(Kinds) /\ \A i \in 1 .. Len(c) : c[i] # ";"
  <2>1. \A i \in 1 .. Len(c) : c[i] \in Kinds \ {";"}
    BY <1>2, ElementOfSeq
  <2>2. Len(c) \in Nat /\ c \in [1 .. Len(c) -> Kinds \ {";"}]
    BY <1>2, LenProperties
  <2>3. c \in [1 .. Len(c) -> Kinds]
    BY <2>2
  <2> QED BY <2>1, <2>2, <2>3, SeqOf
<1> QED BY <1>1, <1>3, CleanedIsUsable DEF SanitizeName

-----------------------------------------------------------------------------
(* The target of the rule that decides.                                    *)

\* The state maps of the config have passed validation.
MapsInv == /\ maps \in [CheckTypes -> StateMaps]
           /\ \A t \in CheckTypes : validateStateMap(t, maps[t])

\* The target of an entry is that of the rule that matched, which Build could
\* use, and its code is one of the check type of that rule; there is neither as
\* long as there is no entry.
TargetInv ==
    /\ alert \in Alerts
    /\ fate \in {"", "unmatched", "error", "invalid", "entry"}
    /\ n <= Len(rules) + 1
    /\ fate = "entry" => /\ n <= Len(rules)
                         /\ BuildSucceeds(rules[n], alert)
                         /\ target = Target(rules[n], alert)
                         /\ code \in Codes(rules[n].CheckType)
    /\ fate # "entry" => target = NoTarget /\ code = NoCode

LEMMA MapsAlways == Spec => []MapsInv
<1>1. Init => MapsInv
  <2> SUFFICES ASSUME Init PROVE MapsInv
    OBVIOUS
  <2>1. PICK c \in StateConfigs : maps = [t \in CheckTypes |-> applyDefaults(t, c[t])]
    BY DEF Init
  <2>2. \A t \in CheckTypes : c[t] \in StateMaps
    BY MappingAssumption DEF Written
  <2>3. maps \in [CheckTypes -> StateMaps]
    BY <2>1, <2>2, DefaultsType
  <2> QED BY <2>3 DEF Init, MapsInv
<1>2. MapsInv /\ [Next]_vars => MapsInv'
  BY DEF Next, NextRule, NoRule, RenderError, Unusable, Mapped, vars, config, MapsInv
<1> QED BY <1>1, <1>2, PTL DEF Spec

\* The rule Resolve looks at is a valid one.
LEMMA RuleInUse ==
    ASSUME PassedInv, n <= Len(rules)
    PROVE  rules[n] \in Rules /\ validateRule(rules[n])
<1>1. n \in 1 .. Len(rules)
  <2>1. \A k \in Nat \ {0}, L \in Nat : k <= L => k \in 1 .. L
    OBVIOUS
  <2> QED BY <2>1, LenProperties DEF PassedInv
<1>2. rules[n] \in {r \in Rules : validateRule(r)}
  BY <1>1, ElementOfSeq DEF PassedInv
<1> QED BY <1>2

LEMMA TargetStart == Init => TargetInv
<1> SUFFICES ASSUME Init PROVE TargetInv
  OBVIOUS
<1>1. Len(rules) \in Nat
  BY PassedStart, LenProperties DEF PassedInv
<1>2. n = 1 /\ fate = "" /\ target = NoTarget /\ code = NoCode /\ alert \in Alerts
  BY DEF Init
<1>3. n <= Len(rules) + 1
  <2>1. \A L \in Nat : 1 <= L + 1
    OBVIOUS
  <2> QED BY <1>1, <1>2, <2>1
<1> QED BY <1>2, <1>3 DEF TargetInv

LEMMA TargetStep ==
    ASSUME TargetInv, PassedInv, MapsInv, [Next]_vars
    PROVE  TargetInv'
<1>1. rules' = rules /\ alert' = alert
  BY DEF Next, NextRule, NoRule, RenderError, Unusable, Mapped, vars, config
<1>2. Len(rules) \in Nat /\ n \in Nat
  BY LenProperties DEF PassedInv
<1>3. CASE NextRule
  <2>1. /\ n' = n + 1 /\ n <= Len(rules) /\ fate = "" /\ fate' = ""
        /\ target' = target /\ code' = code
    BY <1>3 DEF NextRule, looking
  <2>2. n' <= Len(rules) + 1
    <3>1. \A k, L \in Nat : k <= L => k + 1 <= L + 1
      OBVIOUS
    <3> QED BY <1>2, <2>1, <3>1
  <2> QED BY <1>1, <2>1, <2>2 DEF TargetInv
<1>4. CASE NoRule \/ RenderError \/ Unusable
  <2>1. /\ n' = n /\ target' = target /\ code' = code /\ fate = ""
        /\ fate' \in {"unmatched", "error", "invalid"}
    BY <1>4 DEF NoRule, RenderError, Unusable, looking
  <2> QED BY <1>1, <2>1 DEF TargetInv
<1>5. CASE Mapped
  <2>1. /\ n' = n /\ n <= Len(rules) /\ fate' = "entry"
        /\ BuildSucceeds(rules[n], alert) /\ target' = Target(rules[n], alert)
    BY <1>5 DEF Mapped, looking
  <2>2. rules[n].CheckType \in CheckTypes
    BY <2>1, RuleInUse DEF validateRule
  <2>3. code' \in Codes(rules[n].CheckType)
    <3>1. PICK resolved \in BOOLEAN, s \in Keys :
             code' = scored(rules[n].CheckType, resolved, s)
      BY <1>5 DEF Mapped
    <3> QED BY <2>2, <3>1, ScoreInCodes DEF scored, MapsInv
  <2> QED BY <1>1, <2>1, <2>3 DEF TargetInv
<1>6. CASE UNCHANGED vars
  BY <1>6 DEF vars, config, TargetInv
<1> QED BY <1>3, <1>4, <1>5, <1>6 DEF Next

LEMMA TargetAlways == Spec => [](TargetInv /\ PassedInv /\ MapsInv)
<1>1. TargetInv /\ PassedInv /\ MapsInv /\ [Next]_vars => TargetInv'
  BY TargetStep
<1> QED BY <1>1, TargetStart, PassedAlways, MapsAlways, PTL DEF Spec

\* A template prints a string that a label or the config holds.
LEMMA RenderedType ==
    ASSUME NEW tmpl \in Given \cup {Absent}, NEW labels \in Alerts
    PROVE  rendered(tmpl, labels) \in Seq(Kinds)
<1>1. /\ Values \subseteq Seq(Kinds)
      /\ <<>> \in Values
  BY MappingAssumption
<1>2. CASE ~ tmpl.given
  BY <1>1, <1>2 DEF rendered
<1>3. CASE tmpl.given
  <2>1. tmpl \in Given
    BY <1>3 DEF Absent
  <2>2. tmpl.t.dflt \in Values
    BY <2>1 DEF Given, Templates
  <2>3. valueOf(labels, tmpl.t.label) \in Values
    BY <1>1 DEF valueOf, present, Alerts
  <2> QED BY <1>1, <1>3, <2>2, <2>3 DEF rendered
<1> QED BY <1>2, <1>3

LEMMA TargetType ==
    ASSUME NEW type \in CheckTypes \cup {""}, NEW host \in Seq(Kinds),
           NEW service \in Seq(Kinds)
    PROVE  [Type |-> type, Hostname |-> host, ServiceName |-> service]
              \in CheckTargets
  BY DEF CheckTargets

\* The target of a valid rule that Build can use has usable names.
LEMMA TargetOfRule ==
    ASSUME NEW r \in Rules, validateRule(r), NEW labels \in Alerts
    PROVE  /\ Target(r, labels) \in CheckTargets
           /\ BuildSucceeds(r, labels) =>
                 /\ usable(Target(r, labels).Hostname)
                 /\ IF Target(r, labels).Type = "service"
                    THEN usable(Target(r, labels).ServiceName)
                    ELSE Target(r, labels).ServiceName = <<>>
<1> DEFINE h == SanitizeName(rendered(r.Host, labels))
           v == SanitizeName(rendered(r.Service, labels))
<1>1. r.Host \in Given \cup {Absent} /\ r.Service \in Given \cup {Absent}
  BY MappingAssumption
<1>2. /\ h \in Seq(Kinds) /\ (h = <<>> \/ usable(h))
      /\ v \in Seq(Kinds) /\ (v = <<>> \/ usable(v))
  BY <1>1, RenderedType, SanitizedIsUsable
<1>3. <<>> \in Seq(Kinds)
  BY EmptySeq
<1>4. r.CheckType \in CheckTypes
  BY DEF validateRule
<1>5. Target(r, labels) = [Type |-> r.CheckType, Hostname |-> h,
                           ServiceName |-> IF r.CheckType = "host" THEN <<>> ELSE v]
  BY DEF Target
<1>6. /\ Target(r, labels).Type = r.CheckType
      /\ Target(r, labels).Hostname = h
      /\ Target(r, labels).ServiceName = IF r.CheckType = "host" THEN <<>> ELSE v
  BY <1>5
<1> HIDE DEF h, v
<1>7. Target(r, labels) \in CheckTargets
  <2> DEFINE u == IF r.CheckType = "host" THEN <<>> ELSE v
  <2>1. u \in Seq(Kinds)
    BY <1>2, <1>3
  <2>2. Target(r, labels) = [Type |-> r.CheckType, Hostname |-> h, ServiceName |-> u]
    BY <1>5
  <2> HIDE DEF u
  <2>3. r.CheckType \in CheckTypes \cup {""}
    BY <1>4
  <2>4. [Type |-> r.CheckType, Hostname |-> h, ServiceName |-> u]
           \in CheckTargets
    BY <1>2, <2>1, <2>3, TargetType
  <2> QED BY <2>2, <2>4, Zenon
<1>8. ASSUME BuildSucceeds(r, labels)
      PROVE  /\ usable(Target(r, labels).Hostname)
             /\ IF Target(r, labels).Type = "service"
                THEN usable(Target(r, labels).ServiceName)
                ELSE Target(r, labels).ServiceName = <<>>
  <2>1. CASE r.CheckType = "service"
    BY <1>2, <1>6, <1>8, <2>1 DEF BuildSucceeds
  <2>2. CASE r.CheckType = "host"
    BY <1>2, <1>6, <1>8, <2>2 DEF BuildSucceeds
  <2> QED BY <1>4, <2>1, <2>2 DEF CheckTypes
<1> QED BY <1>7, <1>8

\* Whatever the labels of an alert hold, whatever the templates of the rules
\* print and however the config names its states: the names that leave for
\* Nagios fit between the semicolons of its command pipe, and the state is one
\* of the check's own.
THEOREM EntriesUsable == Spec => []CheckResultsAreUsable
<1>1. TargetInv /\ PassedInv => CheckResultsAreUsable
  <2> SUFFICES ASSUME TargetInv, PassedInv, fate = "entry"
               PROVE  /\ usable(target.Hostname)
                      /\ IF target.Type = "service" THEN usable(target.ServiceName)
                                                    ELSE target.ServiceName = <<>>
                      /\ code \in Codes(target.Type)
    BY DEF CheckResultsAreUsable
  <2>1. rules[n] \in Rules /\ validateRule(rules[n])
    BY RuleInUse DEF TargetInv
  <2>2. /\ alert \in Alerts /\ BuildSucceeds(rules[n], alert)
        /\ target = Target(rules[n], alert)
        /\ code \in Codes(rules[n].CheckType)
    BY DEF TargetInv
  <2>3. target.Type = rules[n].CheckType
    BY <2>2 DEF Target
  <2> QED BY <2>1, <2>2, <2>3, TargetOfRule
<1> QED BY <1>1, TargetAlways, PTL

\* Type correctness.
THEOREM MappingTypeCorrect == Spec => []TypeOK
<1>1. TargetInv /\ PassedInv /\ MapsInv => TypeOK
  <2> SUFFICES ASSUME TargetInv, PassedInv, MapsInv PROVE TypeOK
    OBVIOUS
  <2>1. rules \in Seq(Rules) /\ Len(rules) \in Nat
    <3>1. /\ Len(rules) \in Nat
          /\ rules \in [1 .. Len(rules) -> {r \in Rules : validateRule(r)}]
      BY LenProperties DEF PassedInv
    <3>2. rules \in [1 .. Len(rules) -> Rules]
      BY <3>1
    <3> QED BY <3>1, <3>2, SeqOf
  <2>2. n \in 1 .. Len(rules) + 1
    <3>1. \A k \in Nat \ {0}, L \in Nat : k <= L + 1 => k \in 1 .. L + 1
      OBVIOUS
    <3> QED BY <2>1, <3>1 DEF PassedInv, TargetInv
  <2>3. target \in CheckTargets
    <3>1. CASE fate = "entry"
      <4>1. rules[n] \in Rules /\ validateRule(rules[n])
        BY <3>1, RuleInUse DEF TargetInv
      <4>2. alert \in Alerts /\ target = Target(rules[n], alert)
        BY <3>1 DEF TargetInv
      <4> QED BY <4>1, <4>2, TargetOfRule
    <3>2. CASE fate # "entry"
      <4>1. <<>> \in Seq(Kinds)
        BY EmptySeq
      <4> QED BY <3>2, <4>1, TargetType DEF TargetInv, NoTarget
    <3> QED BY <3>1, <3>2
  <2>4. code \in Int
    <3>1. CASE fate = "entry"
      <4>1. rules[n].CheckType \in CheckTypes /\ code \in Codes(rules[n].CheckType)
        BY <3>1, RuleInUse DEF TargetInv, validateRule
      <4> QED BY <4>1, SeverityOrder
    <3>2. CASE fate # "entry"
      <4>1. code = NoCode
        BY <3>2 DEF TargetInv
      <4>2. NoCode \in Int
        BY DEF NoCode
      <4> QED BY <4>1, <4>2
    <3> QED BY <3>1, <3>2
  <2> QED BY <2>1, <2>2, <2>3, <2>4 DEF TargetInv, MapsInv, TypeOK
<1> QED BY <1>1, TargetAlways, PTL
=============================================================================
