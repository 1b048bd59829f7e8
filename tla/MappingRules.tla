---------------------------- MODULE MappingRules ----------------------------
(***************************************************************************)
(* How one alert finds its Nagios object: Engine.Resolve                   *)
(* (internal/mapping/engine.go) tries the rules of the config in order,    *)
(* the first that matches renders its templates, and Build                 *)
(* (internal/checkresult/checkresult.go) makes the checkresult, with the   *)
(* names cleaned by SanitizeName (internal/nrdp/xml.go) and the code that  *)
(* the state map of its check type gives: the entry AlertBatch goes on     *)
(* from.                                                                   *)
(*                                                                         *)
(* A label value or a name is a sequence of the kinds of characters that   *)
(* SanitizeName tells apart.  A template is the label it prints, what      *)
(* `default` puts in the place of an empty string, and whether it calls a  *)
(* function that fails on one.  A regex is the set of values it matches.   *)
(* Output templates only matter by failing.  The severity of an alert is   *)
(* kept apart from the labels that rules look at.                          *)
(***************************************************************************)
EXTENDS StateResolver

CONSTANTS Labels,       \* label names
          Values,       \* label values and match values
          Regexes,      \* sets of values, one for each regex of the configs
          Rules,        \* rules that configs are made of, as defaulted
          StateConfigs, \* state maps of the configs, one for each check type
          MaxRules      \* bound: rules in a config

\* An ordinary character, the semicolon, control characters, and blanks.
Kinds == {"x", ";", "ctl", " "}

Ops == {"exists", "absent", "eq", "ne", "regex", "notregex"}

Templates == [label : Labels, dflt : Values, strict : BOOLEAN]
Given == [given : {TRUE}, t : Templates]
Absent == [given |-> FALSE]

ASSUME MappingAssumption ==
    /\ Values \subseteq Seq(Kinds)
    /\ <<>> \in Values
    /\ Regexes \subseteq SUBSET Values
    /\ StateConfigs \subseteq [CheckTypes -> Written]
    /\ MaxRules \in Nat
    /\ \A r \in Rules : /\ r.Host \in Given \cup {Absent}
                        /\ r.Service \in Given \cup {Absent}
                        /\ r.Output \in Given \cup {Absent}

VARIABLES rules,        \* the rules of the config, validated
          maps,         \* its state maps, defaulted and validated
          alert,        \* the labels of the alert
          n,            \* the rule Resolve is looking at
          fate,         \* "", or what became of the alert
          target,       \* the target of its checkresult
          code          \* the state of its checkresult

config == <<rules, maps>>
vars == <<config, alert, n, fate, target, code>>

\* Label sets: not every alert has every label, and a value may be empty.
Alerts == UNION {[L -> Values] : L \in SUBSET Labels}

NoTarget == [Type |-> "", Hostname |-> <<>>, ServiceName |-> <<>>]
NoCode == -1

-----------------------------------------------------------------------------
(* Config: what a rule has to be.                                          *)

validateMatch(m) ==
    /\ m.op \in Ops
    /\ m.op \in {"exists", "absent"} => m.value = <<>>
    /\ m.op \in {"regex", "notregex"} => m.value \in Regexes

\* A rule prints a host and, exactly for a service check, a service.
validateRule(r) ==
    /\ \A m \in r.Match : validateMatch(m)
    /\ r.CheckType \in CheckTypes
    /\ r.Host.given
    /\ r.Service.given <=> r.CheckType = "service"

-----------------------------------------------------------------------------
(* Resolve.                                                                *)

present(labels, l) == l \in DOMAIN labels

\* Faulty variant: text/template's own rendering of a missing key.
valueOfNoValue(labels, l) == IF present(labels, l) THEN labels[l]
                             ELSE <<"<no value>">>

\* Go's labels[l]: empty for a label that is not there.
valueOf(labels, l) == IF present(labels, l) THEN labels[l] ELSE <<>>

\* Faulty variant: an absent label is not unequal to anything.
matchOnePresent(m, labels) ==
    CASE m.op = "exists"   -> present(labels, m.label)
      [] m.op = "absent"   -> ~ present(labels, m.label)
      [] m.op = "eq"       -> present(labels, m.label) /\ labels[m.label] = m.value
      [] m.op = "ne"       -> present(labels, m.label) /\ labels[m.label] # m.value
      [] m.op = "regex"    -> present(labels, m.label) /\ labels[m.label] \in m.value
      [] m.op = "notregex" -> present(labels, m.label) /\ labels[m.label] \notin m.value
      [] OTHER             -> FALSE

matchOne(m, labels) ==
    CASE m.op = "exists"   -> present(labels, m.label)
      [] m.op = "absent"   -> ~ present(labels, m.label)
      [] m.op = "eq"       -> present(labels, m.label) /\ labels[m.label] = m.value
      [] m.op = "ne"       -> present(labels, m.label) => labels[m.label] # m.value
      [] m.op = "regex"    -> present(labels, m.label) /\ labels[m.label] \in m.value
      [] m.op = "notregex" -> present(labels, m.label) => labels[m.label] \notin m.value
      [] OTHER             -> FALSE

matchesAll(r, labels) == \A m \in r.Match : matchOne(m, labels)

\* render: missingkey=zero makes an absent label the empty string, which
\* `default` replaces; a strict template fails on it.
renders(tmpl, labels) == (tmpl.given /\ tmpl.t.strict)
                            => valueOf(labels, tmpl.t.label) # <<>>
rendered(tmpl, labels) ==
    IF ~ tmpl.given THEN <<>>
    ELSE IF valueOf(labels, tmpl.t.label) = <<>> THEN tmpl.t.dflt
    ELSE valueOf(labels, tmpl.t.label)

-----------------------------------------------------------------------------
(* Names.                                                                  *)

stripControl(s) == [i \in 1 .. Len(s) |-> IF s[i] = "ctl" THEN " " ELSE s[i]]

\* strings.TrimSpace, for blanks.
TrimSpace(s) ==
    LET solid == {i \in 1 .. Len(s) : s[i] # " "}
    IN  IF solid = {} THEN <<>>
        ELSE SubSeq(s, CHOOSE i \in solid : \A j \in solid : i <= j,
                       CHOOSE i \in solid : \A j \in solid : j <= i)

\* One character more of a name, unless it is a semicolon.
takeOver(name, c) == IF c = ";" THEN name ELSE Append(name, c)

\* strings.ReplaceAll, of semicolons by nothing.
noSemicolons(s) ==
    LET kept[i \in 0 .. Len(s)] ==
          IF i = 0 THEN <<>> ELSE takeOver(kept[i - 1], s[i])
    IN  kept[Len(s)]

\* Faulty variant: trimmed before control characters become blanks.
SanitizeNameTrimFirst(s) == stripControl(TrimSpace(noSemicolons(s)))

SanitizeName(s) == TrimSpace(stripControl(noSemicolons(s)))

\* Target, of the checkresult Build makes: a host check has no service name.
Target(r, labels) ==
    [Type        |-> r.CheckType,
     Hostname    |-> SanitizeName(rendered(r.Host, labels)),
     ServiceName |-> IF r.CheckType = "host" THEN <<>>
                     ELSE SanitizeName(rendered(r.Service, labels))]

\* Build has a usable target.
BuildSucceeds(r, labels) ==
    /\ Target(r, labels).Hostname # <<>>
    /\ r.CheckType = "service" => Target(r, labels).ServiceName # <<>>

\* Faulty variant: one state map for both check types.
scoredAlike(type, resolved, s) == state("service", maps["service"], resolved, s)

\* HostState or ServiceState, whichever the check type calls for.
scored(type, resolved, s) == state(type, maps[type], resolved, s)

-----------------------------------------------------------------------------
(* The loop over the rules, and what mapAlerts makes of its result.        *)

\* Configs whose rules and state maps do not all pass are not loaded.
Init == /\ rules \in UNION {[1 .. k -> {r \in Rules : validateRule(r)}] :
                               k \in 1 .. MaxRules}
        /\ maps \in {[t \in CheckTypes |-> applyDefaults(t, c[t])] : c \in StateConfigs}
        /\ \A t \in CheckTypes : validateStateMap(t, maps[t])
        /\ alert \in Alerts
        /\ n = 1
        /\ fate = ""
        /\ target = NoTarget
        /\ code = NoCode

looking == fate = "" /\ n <= Len(rules)

\* The rule does not match: try the next.
NextRule == /\ looking
            /\ ~ matchesAll(rules[n], alert)
            /\ n' = n + 1
            /\ UNCHANGED <<config, alert, fate, target, code>>

NoRule == /\ fate = ""
          /\ n > Len(rules)
          /\ fate' = "unmatched"
          /\ UNCHANGED <<config, alert, n, target, code>>

allRender(r) == /\ renders(r.Host, alert)
                /\ renders(r.Service, alert)
                /\ renders(r.Output, alert)

\* Faulty variant: a rule that fails to render counts as one that does not
\* match.
RenderErrorGoesOn == /\ looking
                     /\ matchesAll(rules[n], alert)
                     /\ ~ allRender(rules[n])
                     /\ n' = n + 1
                     /\ UNCHANGED <<config, alert, fate, target, code>>

\* It matches but one of its templates fails: no other rule is tried.
RenderError == /\ looking
               /\ matchesAll(rules[n], alert)
               /\ ~ allRender(rules[n])
               /\ fate' = "error"
               /\ UNCHANGED <<config, alert, n, target, code>>

\* It matches and renders, but Build finds a name empty.
Unusable == /\ looking
            /\ matchesAll(rules[n], alert)
            /\ allRender(rules[n])
            /\ ~ BuildSucceeds(rules[n], alert)
            /\ fate' = "invalid"
            /\ UNCHANGED <<config, alert, n, target, code>>

\* It matches, renders and has a target.  Whether the alert has resolved, and
\* how severe it is, matters only here.
Mapped == /\ looking
          /\ matchesAll(rules[n], alert)
          /\ allRender(rules[n])
          /\ BuildSucceeds(rules[n], alert)
          /\ fate' = "entry"
          /\ target' = Target(rules[n], alert)
          /\ \E resolved \in BOOLEAN, s \in Keys :
                code' = scored(rules[n].CheckType, resolved, s)
          /\ UNCHANGED <<config, alert, n>>

Next == NextRule \/ NoRule \/ RenderError \/ Unusable \/ Mapped

Spec == Init /\ [][Next]_vars

-----------------------------------------------------------------------------
CheckTargets == [Type : CheckTypes \cup {""}, Hostname : Seq(Kinds),
                 ServiceName : Seq(Kinds)]

TypeOK == /\ rules \in Seq(Rules)
          /\ maps \in [CheckTypes -> StateMaps]
          /\ alert \in Alerts
          /\ n \in 1 .. Len(rules) + 1
          /\ fate \in {"", "unmatched", "error", "invalid", "entry"}
          /\ target \in CheckTargets
          /\ code \in Int

\* What becomes of an alert is up to the first rule that matches, as the
\* config's order says; if that one fails, no later one stands in for it.
FirstMatchDecides ==
    fate \notin {"", "unmatched"} =>
        /\ matchesAll(rules[n], alert)
        /\ \A k \in 1 .. n - 1 : ~ matchesAll(rules[k], alert)

\* A name that can be written between the semicolons of Nagios's command pipe:
\* it is there, has neither separators nor control characters, and no blanks
\* around it that Nagios's object name does not have.
usable(name) == /\ name # <<>>
                /\ \A i \in 1 .. Len(name) : name[i] \notin {";", "ctl"}
                /\ name[1] # " "
                /\ name[Len(name)] # " "

\* Nagios can use every checkresult that leaves, whatever the labels hold: its
\* names are usable, it has a service name exactly if it is for a service, and
\* its state is one that a check of its type can have.
CheckResultsAreUsable ==
    fate = "entry" =>
        /\ usable(target.Hostname)
        /\ IF target.Type = "service" THEN usable(target.ServiceName)
                                      ELSE target.ServiceName = <<>>
        /\ code \in Codes(target.Type)

\* m and w ask the opposite of the same label.
opposite(m, w) == /\ <<m.op, w.op>> \in {<<"exists", "absent">>, <<"eq", "ne">>,
                                         <<"regex", "notregex">>}
                  /\ m.label = w.label
                  /\ m.value = w.value

\* Rules with opposite conditions leave no gap: each alert, with the label or
\* without, is for one of them.
OppositesCover ==
    (\E j, k \in 1 .. Len(rules) :
        \E m \in rules[j].Match, w \in rules[k].Match :
            /\ rules[j].Match = {m}
            /\ rules[k].Match = {w}
            /\ opposite(m, w))
    => fate # "unmatched"
=============================================================================
