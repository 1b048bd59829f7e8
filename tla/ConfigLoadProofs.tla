-------------------------- MODULE ConfigLoadProofs --------------------------
(***************************************************************************)
(* What holds of every config that is loaded, whatever files there are: of *)
(* its state map first, with whatever severities and spellings of a state  *)
(* name, and of the codes it gives to alerts, and then of all of it.       *)
(***************************************************************************)
EXTENDS ConfigLoad, StateResolverProofs

-----------------------------------------------------------------------------
(* The state map.                                                          *)

\* A loaded map has passed validation, and keeps its types.
LoadedInv ==
    /\ checkType \in CheckTypes
    /\ m \in StateMaps
    /\ pc \in {"written", "loaded", "rejected"}
    /\ pc = "loaded" => validateStateMap(checkType, m)

\* Validation holds of whatever is loaded.
LEMMA LoadedIsValidated == Spec => []LoadedInv
<1>1. Init => LoadedInv
  BY DEF Init, Written, LoadedInv
<1>2. LoadedInv /\ [Next]_vars => LoadedInv'
  <2> SUFFICES ASSUME LoadedInv, [Next]_vars PROVE LoadedInv'
    OBVIOUS
  <2>1. CASE Load
    <3> DEFINE d == applyDefaults(checkType, m)
    <3>1. d \in StateMaps
      BY DefaultsType DEF LoadedInv
    <3> HIDE DEF d
    <3>2. CASE validateStateMap(checkType, d)
      <4>1. pc' = "loaded" /\ m' = d /\ checkType' = checkType
        BY <2>1, <3>2 DEF Load, d
      <4> QED BY <3>1, <3>2, <4>1 DEF LoadedInv, validateStateMap
    <3>3. CASE ~ validateStateMap(checkType, d)
      <4>1. pc' = "rejected" /\ m' = m /\ checkType' = checkType
        BY <2>1, <3>3 DEF Load, d
      <4> QED BY <4>1 DEF LoadedInv
    <3> QED BY <3>2, <3>3
  <2>2. CASE Score
    BY <2>2 DEF Score, LoadedInv, validateStateMap
  <2>3. CASE Refuse \/ UNCHANGED vars
    BY <2>3 DEF Refuse, vars, LoadedInv, validateStateMap
  <2> QED BY <2>1, <2>2, <2>3 DEF Next
<1> QED BY <1>1, <1>2, PTL DEF Spec

\* Whatever a config file spells, no alert makes the resolver look up a state
\* name that is not in the vocabulary: nothing is reported as OK by accident.
THEOREM LookupsSafe == Spec => []LookupsNeverMiss
<1>1. LoadedInv => LookupsNeverMiss
  BY ValidatedNames DEF LoadedInv, LookupsNeverMiss
<1> QED BY <1>1, LoadedIsValidated, PTL

\* Type correctness.  It says in particular that every code scored is one the
\* check type can hold, so that the early return of Worst is never taken.
THEOREM TypeCorrect == Spec => []TypeOK
<1>1. Init => TypeOK
  <2>1. <<>> \in Seq(Codes(checkType))
    BY EmptySeq
  <2> QED BY <2>1 DEF Init, TypeOK, Written
<1>2. LoadedInv /\ LoadedInv' /\ TypeOK /\ [Next]_vars => TypeOK'
  <2> SUFFICES ASSUME LoadedInv, LoadedInv', TypeOK, [Next]_vars
               PROVE  TypeOK'
    OBVIOUS
  <2>1. checkType' = checkType
    BY DEF Next, Load, Refuse, Score, vars
  <2>2. codes' \in Seq(Codes(checkType))
    <3>1. CASE Load
      BY <3>1 DEF Load, TypeOK
    <3>2. CASE Score
      <4>1. PICK resolved \in BOOLEAN, s \in Keys :
               codes' = Append(codes, state(checkType, m, resolved, s))
        BY <3>2 DEF Score
      <4>2. validateStateMap(checkType, m) /\ checkType \in CheckTypes
        BY <3>2 DEF Score, LoadedInv
      <4>3. state(checkType, m, resolved, s) \in Codes(checkType)
        BY <4>2, ScoreInCodes
      <4> QED BY <4>1, <4>3, AppendProperties DEF TypeOK
    <3>3. CASE Refuse \/ UNCHANGED vars
      BY <3>3 DEF Refuse, vars, TypeOK
    <3> QED BY <3>1, <3>2, <3>3 DEF Next
  <2> QED BY <2>1, <2>2 DEF LoadedInv, TypeOK
<1> QED BY <1>1, <1>2, LoadedIsValidated, PTL DEF Spec

\* No code hides a worse one, whatever is scored and in whatever order: an
\* UNKNOWN, numerically the highest, loses to a CRITICAL, and an UNREACHABLE
\* to a DOWN.
THEOREM WorstIsRight == Spec => []WorstIsMostSevere
<1>1. TypeOK => WorstIsMostSevere
  BY WorstIsWorstOf DEF TypeOK, WorstIsMostSevere
<1> QED BY <1>1, TypeCorrect, PTL

-----------------------------------------------------------------------------
(* The file.                                                               *)

\* A loaded config is the file with its defaults, and has passed validation; a
\* rejected one failed it.
ParsedInv ==
    /\ file \in Contents /\ sample \in Samples
    /\ pc \in {"written", "loaded", "rejected"}
    /\ pc = "written" => cfg = file
    /\ pc = "rejected" => cfg = file /\ ~ (fileRight(file) /\ mapRight)
    /\ pc = "loaded" => /\ file.text = "ok"
                        /\ cfg = defaulted(file)
                        /\ Validate(cfg)
                        /\ validateStateMap(checkType, m)

\* A command that is done has the outcome of the parts it needs.
VerdictInv ==
    /\ pc = "written" => verdict = [c \in Commands |-> "pending"]
    /\ pc = "rejected" => verdict = [c \in Commands |-> "load"]
    /\ pc = "loaded" => /\ verdict \in [Commands -> Verdicts]
                        /\ \A c \in Commands :
                              verdict[c] \in {"pending", outcome(parts(c, cfg, sample))}

-----------------------------------------------------------------------------
\* Loading a file takes its state map through the steps of StateMapping.
LEMMA LoadIsMapping == LoadSpec => Spec
<1>1. LoadInit => Init
  BY DEF LoadInit
<1>2. [LoadNext]_loadVars => [Next]_vars
  BY DEF LoadNext, LoadFile, ScoreAlert, RunCommand, loadVars, Next, vars
<1> QED BY <1>1, <1>2, PTL DEF LoadSpec, Spec

\* The fields of a defaulted file.
LEMMA DefaultedFields ==
    ASSUME NEW f \in Contents
    PROVE  /\ defaulted(f).MaxBodyBytes = orDefault(f.MaxBodyBytes, 0, DefaultMaxBody)
           /\ defaulted(f).Timeout = orDefault(f.Timeout, 0, 5)
           /\ defaulted(f).MaxListed = orDefault(f.MaxListed, {}, {5})
           /\ defaulted(f).Heartbeat = defaultedHeartbeat(f.Heartbeat)
           /\ defaulted(f).text = f.text
           /\ defaulted(f).ServerTLS = f.ServerTLS
           /\ defaulted(f).Auth = f.Auth
           /\ defaulted(f).URL = f.URL
           /\ defaulted(f).Token = f.Token
           /\ defaulted(f).Retries = f.Retries
           /\ defaulted(f).NRDPTLS = f.NRDPTLS
           /\ defaulted(f).Aggregation = f.Aggregation
           /\ defaulted(f).Output = f.Output
           /\ defaulted(f).Rules = f.Rules
  BY DEF Contents, defaulted

\* The fields of a defaulted heartbeat that is enabled.
LEMMA HeartbeatFields ==
    ASSUME NEW h \in Heartbeats, h.Enabled
    PROVE  /\ defaultedHeartbeat(h).Enabled
           /\ defaultedHeartbeat(h).CheckType = orDefault(h.CheckType, "", "service")
           /\ defaultedHeartbeat(h).Interval = orDefault(h.Interval, 0, 60)
           /\ defaultedHeartbeat(h).Host = h.Host
           /\ defaultedHeartbeat(h).Service = h.Service
           /\ defaultedHeartbeat(h).State =
                 orDefault(h.State, "", IF h.CheckType = "host" THEN "up" ELSE "ok")
  BY DEF Heartbeats, defaultedHeartbeat

\* The vocabularies: neither has an empty name.
LEMMA Vocabulary ==
    /\ DOMAIN States["service"] = {"ok", "warning", "critical", "unknown"}
    /\ DOMAIN States["host"] = {"up", "down", "unreachable"}
  BY DEF States

\* Defaults and validation together take the heartbeats a reader would call right.
LEMMA HeartbeatParsed ==
    ASSUME NEW h \in Heartbeats
    PROVE  validateHeartbeat(defaultedHeartbeat(h)) <=> heartbeatRight(h)
<1>1. CASE ~ h.Enabled
  BY <1>1 DEF defaultedHeartbeat, validateHeartbeat, heartbeatRight
<1>2. CASE h.Enabled
  <2> DEFINE d == defaultedHeartbeat(h)
  <2>1. /\ h.Interval \in Int /\ h.State \in Names
        /\ h.CheckType \in {"service", "host", "", "typo"}
        /\ h.Service \in {"", "service"} /\ h.Host \in {"", "host"}
    BY DEF Heartbeats, CheckTypes, Hosts, Services
  <2>2. d.Interval > 0 <=> h.Interval >= 0
    <3>1. d.Interval = IF h.Interval = 0 THEN 60 ELSE h.Interval
      BY <1>2, HeartbeatFields DEF orDefault
    <3>2. h.Interval \in Int
      BY <2>1
    <3>3. \A i, j \in Int : j = (IF i = 0 THEN 60 ELSE i) => (j > 0 <=> i >= 0)
      OBVIOUS
    <3> HIDE DEF d
    <3>4. d.Interval \in Int
      BY <3>1, <3>2
    <3> QED BY <3>1, <3>2, <3>3, <3>4
  <2>3. CASE h.CheckType = "host"
    <3>1. d.CheckType = "host" /\ d.State = orDefault(h.State, "", "up")
      BY <1>2, <2>3, HeartbeatFields DEF orDefault
    <3>2. d.State \in DOMAIN statesOf(d.CheckType)
             <=> h.State \in DOMAIN States["host"] \cup {""}
      BY <3>1, Vocabulary DEF statesOf, orDefault
    <3> QED BY <1>2, <2>1, <2>2, <2>3, <3>1, <3>2, HeartbeatFields
            DEF validateHeartbeat, heartbeatRight, CheckTypes
  <2>4. CASE h.CheckType \in {"service", ""}
    <3>1. d.CheckType = "service" /\ d.State = orDefault(h.State, "", "ok")
      BY <1>2, <2>4, HeartbeatFields DEF orDefault
    <3>2. d.State \in DOMAIN statesOf(d.CheckType)
             <=> h.State \in DOMAIN States["service"] \cup {""}
      BY <3>1, Vocabulary DEF statesOf, orDefault
    <3> QED BY <1>2, <2>1, <2>2, <2>4, <3>1, <3>2, HeartbeatFields
            DEF validateHeartbeat, heartbeatRight, CheckTypes
  <2>5. CASE h.CheckType = "typo"
    BY <1>2, <2>5, HeartbeatFields
       DEF validateHeartbeat, heartbeatRight, CheckTypes, orDefault
  <2> QED BY <2>1, <2>3, <2>4, <2>5
<1> QED BY <1>1, <1>2 DEF Heartbeats

\* Of the right types of authentication, each has what it needs.
LEMMA AuthParsed ==
    ASSUME NEW a \in Auths
    PROVE  validateWebhookAuth(a) <=> authRight(a)
<1>1. CASE a.given /\ a.Type = "basic"
  BY <1>1 DEF validateWebhookAuth, authRight, AuthTypes
<1>2. CASE a.given /\ a.Type = "bearer"
  BY <1>2 DEF validateWebhookAuth, authRight, AuthTypes
<1>3. CASE ~ a.given
  BY <1>3 DEF validateWebhookAuth, authRight
<1>4. CASE a.given /\ a.Type \notin {"basic", "bearer"}
  BY <1>4 DEF validateWebhookAuth, authRight, AuthTypes
<1> QED BY <1>1, <1>2, <1>3, <1>4 DEF Auths

\* Rules: each is valid and has a name of its own.
LEMMA RulesParsed ==
    ASSUME NEW rs
    PROVE  validateRules(rs) <=>
              /\ rs # <<>> /\ \A i \in DOMAIN rs : rs[i].valid
              /\ "" \notin {rs[i].Name : i \in DOMAIN rs}
              /\ \A i, j \in DOMAIN rs : i # j => rs[i].Name # rs[j].Name
  BY DEF validateRules

\* The file: what is not about the state maps.
LEMMA FileParsed ==
    ASSUME NEW f \in Contents
    PROVE  f.text = "ok" /\ Validate(defaulted(f)) <=> fileRight(f)
<1>1. /\ f.MaxBodyBytes \in Int /\ f.Timeout \in Int /\ f.Retries \in Int
      /\ f.Auth \in Auths /\ f.Heartbeat \in Heartbeats /\ f.MaxListed \in SUBSET Int
  BY DEF Contents
<1> DEFINE d == defaulted(f)
<1>2. /\ d.MaxBodyBytes > 0 <=> f.MaxBodyBytes >= 0
      /\ d.Timeout > 0 <=> f.Timeout >= 0
  BY <1>1, DefaultedFields, SMT DEF orDefault, DefaultMaxBody
<1>3. (\A k \in d.MaxListed : k >= 0) <=> \A k \in f.MaxListed : k >= 0
  BY <1>1, DefaultedFields DEF orDefault
<1>4. validateURL(d.URL) <=> f.URL \in {"http", "https"}
  BY DefaultedFields DEF validateURL
<1>5. validateHeartbeat(d.Heartbeat) <=> heartbeatRight(f.Heartbeat)
  BY <1>1, DefaultedFields, HeartbeatParsed
<1>6. validateWebhookAuth(d.Auth) <=> authRight(f.Auth)
  BY <1>1, DefaultedFields, AuthParsed
<1>7. d.Retries = f.Retries /\ d.Rules = f.Rules
  BY DefaultedFields
<1> HIDE DEF d
<1>8. Validate(d) <=> /\ f.MaxBodyBytes >= 0 /\ f.Timeout >= 0 /\ f.Retries >= 0
                      /\ \A k \in f.MaxListed : k >= 0
                      /\ f.URL \in {"http", "https"}
                      /\ authRight(f.Auth) /\ heartbeatRight(f.Heartbeat)
                      /\ validateRules(f.Rules)
  BY <1>2, <1>3, <1>4, <1>5, <1>6, <1>7 DEF Validate
<1> QED BY <1>8, RulesParsed DEF fileRight, d

\* The state map: what is right stays right with its defaults, which are in the
\* vocabulary themselves.
LEMMA MapParsed ==
    ASSUME NEW t \in CheckTypes, NEW w,
           \A s \in DOMAIN w.Values : w.Values[s] \in DOMAIN States[t],
           w.Unmatched \in DOMAIN States[t] \cup {""},
           w.Resolved \in DOMAIN States[t] \cup {""}
    PROVE  validateStateMap(t, applyDefaults(t, w))
<1> DEFINE d == applyDefaults(t, w)
<1>1. /\ d.Values = IF w.given THEN w.Values ELSE defaultValues(t)
      /\ d.Unmatched \in DOMAIN States[t]
      /\ d.Resolved \in DOMAIN States[t]
  BY Vocabulary DEF applyDefaults, CheckTypes
<1>2. \A s \in DOMAIN defaultValues(t) : defaultValues(t)[s] \in DOMAIN States[t]
  <2>1. CASE t = "host"
    BY <2>1, Vocabulary DEF defaultValues
  <2>2. CASE t = "service"
    <3>1. defaultValues(t) =
             [s \in Keys \cap {"ok", "warning", "critical", "unknown"} |-> s]
      BY <2>2 DEF defaultValues
    <3> QED BY <2>2, <3>1, Vocabulary
  <2> QED BY <2>1, <2>2 DEF CheckTypes
<1>3. \A s \in DOMAIN d.Values : d.Values[s] \in DOMAIN States[t]
  BY <1>1, <1>2
<1> QED BY <1>1, <1>3 DEF validateStateMap

-----------------------------------------------------------------------------
\* The steps of each command: how many, and of which parts.
LEMMA PartsOf ==
    ASSUME NEW c, NEW s
    PROVE  /\ parts("serve", c, s) = buildState(c)
           /\ parts("check", c, s) = runCheck(c)
           /\ parts("test", c, s) = runTest(c, s)
  BY DEF parts

\* A command that fails does so at the first part it cannot make.
LEMMA FailsAtFirst ==
    ASSUME NEW n \in {3, 4}, NEW steps, DOMAIN steps = 1 .. n,
           ~ \A i \in 1 .. n : steps[i].made
    PROVE  \E i \in 1 .. n : /\ outcome(steps) = steps[i].part
                             /\ ~ steps[i].made
                             /\ \A j \in 1 .. i - 1 : steps[j].made
<1> DEFINE isFirst(i) == ~ steps[i].made /\ \A j \in 1 .. i - 1 : steps[j].made
           first == CHOOSE i \in DOMAIN steps : isFirst(i)
<1>1. \E i \in 1 .. n : isFirst(i)
  <2>1. CASE ~ steps[1].made
    BY <2>1
  <2>2. CASE steps[1].made /\ ~ steps[2].made
    BY <2>2
  <2>3. CASE steps[1].made /\ steps[2].made /\ ~ steps[3].made
    BY <2>3
  <2>4. CASE steps[1].made /\ steps[2].made /\ steps[3].made
    BY <2>4
  <2> QED BY <2>1, <2>2, <2>3, <2>4
<1>2. first \in 1 .. n /\ isFirst(first)
  BY <1>1
<1>3. outcome(steps) = steps[first].part
  BY DEF outcome
<1> HIDE DEF first
<1> QED BY <1>2, <1>3

\* A command of which every part can be made ends well, and no other.
LEMMA OutcomeOf ==
    ASSUME NEW n \in {3, 4}, NEW steps, DOMAIN steps = 1 .. n,
           \A i \in 1 .. n : steps[i].part \in Parts
    PROVE  /\ outcome(steps) \in Verdicts
           /\ outcome(steps) = "ok" <=> \A i \in 1 .. n : steps[i].made
<1>1. CASE \A i \in 1 .. n : steps[i].made
  BY <1>1 DEF outcome, Verdicts
<1>2. CASE ~ \A i \in 1 .. n : steps[i].made
  BY <1>2, FailsAtFirst DEF Parts, Verdicts
<1> QED BY <1>1, <1>2

LEMMA ServeOutcome ==
    ASSUME NEW c
    PROVE  /\ outcome(buildState(c)) \in Verdicts
           /\ outcome(buildState(c)) = "ok"
                 <=> /\ engine(c) /\ aggregator(c)
                     /\ nrdpTLS(c) /\ serverTLS(c)
<1> DEFINE s == buildState(c)
<1>1. /\ DOMAIN s = 1 .. 4
      /\ s[1] = [part |-> "engine", made |-> engine(c)]
      /\ s[2] = [part |-> "aggregator", made |-> aggregator(c)]
      /\ s[3] = [part |-> "nrdpTLS", made |-> nrdpTLS(c)]
      /\ s[4] = [part |-> "serverTLS", made |-> serverTLS(c)]
  BY DEF buildState
<1> HIDE DEF s
<1>2. \A i \in 1 .. 4 : s[i].part \in Parts
  BY <1>1 DEF Parts
<1>3. (\A i \in 1 .. 4 : s[i].made)
         <=> s[1].made /\ s[2].made /\ s[3].made /\ s[4].made
  <2>1. 1 .. 4 = {1, 2, 3, 4}
    OBVIOUS
  <2> QED BY <2>1, Zenon
<1>4. /\ outcome(s) \in Verdicts
      /\ outcome(s) = "ok" <=> \A i \in 1 .. 4 : s[i].made
  BY <1>1, <1>2, OutcomeOf
<1>5. /\ s[1].made <=> engine(c)
      /\ s[2].made <=> aggregator(c)
      /\ s[3].made <=> nrdpTLS(c)
      /\ s[4].made <=> serverTLS(c)
  BY <1>1
<1> QED BY <1>3, <1>4, <1>5 DEF s

LEMMA CheckOutcome ==
    ASSUME NEW c
    PROVE  /\ outcome(runCheck(c)) \in Verdicts
           /\ outcome(runCheck(c)) = "ok"
                 <=> engine(c) /\ serverTLS(c) /\ nrdpTLS(c)
<1> DEFINE s == runCheck(c)
<1>1. /\ DOMAIN s = 1 .. 3
      /\ s[1] = [part |-> "engine", made |-> engine(c)]
      /\ s[2] = [part |-> "serverTLS", made |-> serverTLS(c)]
      /\ s[3] = [part |-> "nrdpTLS", made |-> nrdpTLS(c)]
  BY DEF runCheck
<1> HIDE DEF s
<1>2. \A i \in 1 .. 3 : s[i].part \in Parts
  BY <1>1 DEF Parts
<1>3. (\A i \in 1 .. 3 : s[i].made) <=> s[1].made /\ s[2].made /\ s[3].made
  <2>1. 1 .. 3 = {1, 2, 3}
    OBVIOUS
  <2> QED BY <2>1, Zenon
<1>4. /\ outcome(s) \in Verdicts
      /\ outcome(s) = "ok" <=> \A i \in 1 .. 3 : s[i].made
  BY <1>1, <1>2, OutcomeOf
<1>5. /\ s[1].made <=> engine(c)
      /\ s[2].made <=> serverTLS(c)
      /\ s[3].made <=> nrdpTLS(c)
  BY <1>1
<1> QED BY <1>3, <1>4, <1>5 DEF s

LEMMA TestOutcome ==
    ASSUME NEW c, NEW s
    PROVE  /\ outcome(runTest(c, s)) \in Verdicts
           /\ outcome(runTest(c, s)) = "ok"
                 <=> /\ engine(c) /\ s # "unreadable"
                     /\ aggregator(c) /\ Merge(c, s)
           /\ outcome(runTest(c, s)) = "merge"
                 => engine(c) /\ aggregator(c)
           /\ engine(c) /\ aggregator(c) =>
                 outcome(runTest(c, s)) \in {"alerts", "merge", "ok"}
<1> DEFINE t == runTest(c, s)
           readable == s # "unreadable"
<1>1. /\ DOMAIN t = 1 .. 4
      /\ t[1] = [part |-> "engine", made |-> engine(c)]
      /\ t[2] = [part |-> "alerts", made |-> readable]
      /\ t[3] = [part |-> "aggregator", made |-> aggregator(c)]
      /\ t[4] = [part |-> "merge", made |-> Merge(c, s)]
  BY DEF runTest
<1> HIDE DEF t, readable
<1>2. \A i \in 1 .. 4 : t[i].part \in Parts
  BY <1>1 DEF Parts
<1>3. (\A i \in 1 .. 4 : t[i].made)
         <=> t[1].made /\ t[2].made /\ t[3].made /\ t[4].made
  <2>1. 1 .. 4 = {1, 2, 3, 4}
    OBVIOUS
  <2> QED BY <2>1, Zenon
<1>4. /\ outcome(t) \in Verdicts
      /\ outcome(t) = "ok" <=> \A i \in 1 .. 4 : t[i].made
  BY <1>1, <1>2, OutcomeOf
<1>5. /\ t[1].made <=> engine(c)
      /\ t[2].made <=> readable
      /\ t[3].made <=> aggregator(c)
      /\ t[4].made <=> Merge(c, s)
  BY <1>1
<1>6. ASSUME outcome(t) # "ok"
      PROVE  \/ outcome(t) = "engine" /\ ~ engine(c)
             \/ outcome(t) = "alerts"
             \/ outcome(t) = "aggregator" /\ ~ aggregator(c)
             \/ outcome(t) = "merge" /\ engine(c) /\ aggregator(c)
  <2>1. PICK n \in 1 .. 4 : /\ outcome(t) = t[n].part
                            /\ ~ t[n].made
                            /\ \A j \in 1 .. n - 1 : t[j].made
    BY <1>1, <1>4, <1>6, FailsAtFirst
  <2>2. CASE n = 4
    <3>1. t[1].made /\ t[3].made
      BY <2>1, <2>2
    <3> QED BY <1>1, <1>5, <2>1, <2>2, <3>1
  <2>3. CASE n \in {1, 2, 3}
    BY <1>1, <1>5, <2>1, <2>3
  <2> QED BY <2>2, <2>3
<1> QED BY <1>3, <1>4, <1>5, <1>6 DEF t, readable

LEMMA OutcomeType ==
    ASSUME NEW c, NEW s, NEW command \in Commands
    PROVE  outcome(parts(command, c, s)) \in Verdicts
  BY PartsOf, ServeOutcome, CheckOutcome, TestOutcome DEF Commands

-----------------------------------------------------------------------------
LEMMA ParsedStep ==
    ASSUME ParsedInv, LoadedInv, [LoadNext]_loadVars
    PROVE  ParsedInv'
<1>1. CASE LoadFile
  <2>1. /\ pc = "written" /\ cfg = file /\ file \in Contents /\ file' = file
        /\ sample \in Samples /\ sample' = sample
        /\ checkType \in CheckTypes /\ checkType' = checkType
    BY <1>1 DEF LoadFile, Load, Refuse, ParsedInv, LoadedInv
  <2>2. file.text = "ok" /\ Validate(defaulted(file)) <=> fileRight(file)
    BY <2>1, FileParsed
  <2> DEFINE d == applyDefaults(checkType, m)
             v == validateStateMap(checkType, d)
  <2>3. mapRight => v
    BY <2>1, MapParsed DEF mapRight
  <2> HIDE DEF v, d
  <2>4. CASE fileRight(file) /\ v
    <3>1. pc' = "loaded" /\ m' = d
      BY <1>1, <2>2, <2>4 DEF LoadFile, Load, d, v
    <3>2. cfg' = defaulted(file)
      BY <1>1, <3>1 DEF LoadFile
    <3>3. validateStateMap(checkType', m')
      BY <2>1, <2>4, <3>1 DEF v
    <3> QED BY <2>1, <2>2, <2>4, <3>1, <3>2, <3>3 DEF ParsedInv
  <2>5. CASE ~ (fileRight(file) /\ v)
    <3>1. pc' = "rejected" /\ m' = m
      BY <1>1, <2>2, <2>5 DEF LoadFile, Load, Refuse, d, v
    <3>2. cfg' = cfg
      BY <1>1, <3>1 DEF LoadFile
    <3>3. ~ (fileRight(file') /\ mapRight')
      BY <2>1, <2>3, <2>5, <3>1 DEF mapRight
    <3> QED BY <2>1, <3>1, <3>2, <3>3 DEF ParsedInv
  <2> QED BY <2>4, <2>5
<1>2. CASE ScoreAlert
  BY <1>2 DEF ScoreAlert, Score, ParsedInv
<1>3. CASE UNCHANGED loadVars \/ \E c \in Commands : RunCommand(c)
  BY <1>3 DEF RunCommand, loadVars, vars, ParsedInv, mapRight
<1> QED BY <1>1, <1>2, <1>3 DEF LoadNext

LEMMA AlwaysParsed == LoadSpec => [](ParsedInv /\ LoadedInv)
<1>1. LoadInit => ParsedInv
  BY FilesAssumption DEF LoadInit, Init, ParsedInv
<1>2. LoadSpec => []LoadedInv
  BY LoadIsMapping, LoadedIsValidated, PTL
<1>3. ParsedInv /\ LoadedInv /\ [LoadNext]_loadVars => ParsedInv'
  BY ParsedStep
<1> QED BY <1>1, <1>2, <1>3, PTL DEF LoadSpec

LEMMA VerdictStep ==
    ASSUME VerdictInv, ParsedInv, [LoadNext]_loadVars
    PROVE  VerdictInv'
<1>1. CASE LoadFile
  <2>1. /\ pc = "written" /\ pc' \in {"loaded", "rejected"}
        /\ verdict = [c \in Commands |-> "pending"]
    BY <1>1 DEF LoadFile, Load, Refuse, VerdictInv
  <2>2. CASE pc' = "loaded"
    BY <1>1, <2>1, <2>2 DEF LoadFile, VerdictInv, Verdicts
  <2>3. CASE pc' = "rejected"
    BY <1>1, <2>1, <2>3 DEF LoadFile, VerdictInv
  <2> QED BY <2>1, <2>2, <2>3
<1>2. CASE ScoreAlert
  BY <1>2 DEF ScoreAlert, Score, VerdictInv
<1>3. ASSUME NEW c \in Commands, RunCommand(c)
      PROVE  VerdictInv'
  <2>1. /\ pc = "loaded" /\ pc' = pc /\ cfg' = cfg
        /\ verdict' = [verdict EXCEPT ![c] = outcome(parts(c, cfg, sample))]
        /\ sample' = sample
        /\ verdict \in [Commands -> Verdicts]
    BY <1>3 DEF RunCommand, vars, VerdictInv
  <2>2. outcome(parts(c, cfg, sample)) \in Verdicts
    BY OutcomeType
  <2> QED BY <2>1, <2>2 DEF VerdictInv
<1>4. CASE UNCHANGED loadVars
  BY <1>4 DEF loadVars, vars, VerdictInv
<1> QED BY <1>1, <1>2, <1>3, <1>4 DEF LoadNext

LEMMA AlwaysJudged == LoadSpec => []VerdictInv
<1>1. LoadInit => VerdictInv
  BY DEF LoadInit, Init, VerdictInv
<1>2. VerdictInv /\ ParsedInv /\ [LoadNext]_loadVars => VerdictInv'
  BY VerdictStep
<1> QED BY <1>1, <1>2, AlwaysParsed, PTL DEF LoadSpec

-----------------------------------------------------------------------------
\* Whatever the files say: what is loaded is right, and what is right is loaded.
THEOREM RightIsLoaded == LoadSpec => []LoadsExactlyRight
<1>1. ParsedInv /\ LoadedInv => LoadsExactlyRight
  <2> SUFFICES ASSUME ParsedInv, LoadedInv PROVE LoadsExactlyRight
    OBVIOUS
  <2>1. pc = "loaded" => fileRight(file)
    BY FileParsed DEF ParsedInv
  <2>2. pc = "loaded" => mapRight
    BY DEF ParsedInv, mapRight, validateStateMap
  <2> QED BY <2>1, <2>2 DEF ParsedInv, LoadsExactlyRight
<1> QED BY <1>1, AlwaysParsed, PTL

\* With a loaded config a request gets in with the credentials the file demands, and
\* with no others.
THEOREM AuthIsChecked == LoadSpec => []AuthHolds
<1>1. ParsedInv => AuthHolds
  <2> SUFFICES ASSUME ParsedInv, pc = "loaded", NEW r \in Requests
               PROVE  WithAuth(cfg.Auth, r) <=>
                         \/ ~ file.Auth.given
                         \/ file.Auth.Type \in {"", "none"}
                         \/ demands(file.Auth, r)
    BY DEF AuthHolds
  <2>1. cfg.Auth = file.Auth
    BY DefaultedFields DEF ParsedInv
  <2>2. validateWebhookAuth(file.Auth)
    BY <2>1 DEF ParsedInv, Validate
  <2>3. CASE ~ file.Auth.given \/ file.Auth.Type \in {"", "none"}
    BY <2>1, <2>3 DEF WithAuth
  <2>4. CASE file.Auth.given /\ file.Auth.Type = "basic"
    BY <2>1, <2>2, <2>4 DEF validateWebhookAuth, WithAuth, demands
  <2>5. CASE file.Auth.given /\ file.Auth.Type = "bearer"
    BY <2>1, <2>2, <2>5 DEF validateWebhookAuth, WithAuth, demands
  <2>6. file.Auth.given => file.Auth.Type \in {"", "none", "basic", "bearer"}
    BY <2>2 DEF validateWebhookAuth, AuthTypes
  <2> QED BY <2>3, <2>4, <2>5, <2>6
<1> QED BY <1>1, AlwaysParsed, PTL

\* beat finds its state and Run its interval in every loaded config.
THEOREM HeartbeatIsSound == LoadSpec => []HeartbeatSound
<1>1. ParsedInv => HeartbeatSound
  BY DEF ParsedInv, HeartbeatSound, Validate, validateHeartbeat
<1> QED BY <1>1, AlwaysParsed, PTL

\* No config gets past check and test that serve does not start with; and what
\* serve starts with, they refuse only for the sample of test.
THEOREM DryRunsPredictServe == LoadSpec => []DryRunsAgree
<1>1. ParsedInv /\ VerdictInv => DryRunsAgree
  <2> SUFFICES ASSUME ParsedInv, VerdictInv PROVE DryRunsAgree
    OBVIOUS
  <2>1. CASE pc # "loaded"
    BY <2>1 DEF ParsedInv, VerdictInv, DryRunsAgree, Commands
  <2>2. CASE pc = "loaded"
    <3>1. /\ verdict["serve"] \in {"pending", outcome(buildState(cfg))}
          /\ verdict["check"] \in {"pending", outcome(runCheck(cfg))}
          /\ verdict["test"] \in {"pending", outcome(runTest(cfg, sample))}
      BY <2>2, PartsOf DEF VerdictInv, Commands
    <3>2. ASSUME verdict["check"] = "ok", verdict["test"] \in {"merge", "ok"}
          PROVE  verdict["serve"] \in {"pending", "ok"}
      <4>1. outcome(runCheck(cfg)) = "ok"
        BY <3>1, <3>2
      <4>2. outcome(runTest(cfg, sample)) \in {"merge", "ok"}
        BY <3>1, <3>2
      <4> QED BY <3>1, <4>1, <4>2, ServeOutcome, CheckOutcome, TestOutcome
    <3>3. ASSUME verdict["serve"] = "ok"
          PROVE  /\ verdict["check"] \in {"pending", "ok"}
                 /\ verdict["test"] \in {"pending", "alerts", "merge", "ok"}
      <4>1. outcome(buildState(cfg)) = "ok"
        BY <3>1, <3>3
      <4> QED BY <3>1, <4>1, ServeOutcome, CheckOutcome, TestOutcome
    <3> QED BY <3>2, <3>3 DEF DryRunsAgree
  <2> QED BY <2>1, <2>2
<1> QED BY <1>1, AlwaysParsed, AlwaysJudged, PTL

\* A defaulted config is one a file could have said.
LEMMA DefaultedType ==
    ASSUME NEW f \in Contents
    PROVE  defaulted(f) \in Contents
<1>1. \A h \in Heartbeats : defaultedHeartbeat(h) \in Heartbeats
  <2> SUFFICES ASSUME NEW h \in Heartbeats, h.Enabled
               PROVE  defaultedHeartbeat(h) \in Heartbeats
    BY DEF defaultedHeartbeat
  <2>1. "up" \in Names /\ "ok" \in Names
    BY NamesAssumption, Vocabulary DEF CheckTypes
  <2>2. /\ orDefault(h.CheckType, "", "service") \in CheckTypes \cup {"", "typo"}
        /\ orDefault(h.State, "", IF h.CheckType = "host" THEN "up" ELSE "ok") \in Names
        /\ orDefault(h.Interval, 0, 60) \in Int
        /\ h.Host \in Hosts /\ h.Service \in Services
    <3>1. /\ h.CheckType \in CheckTypes \cup {"", "typo"} /\ h.State \in Names
          /\ h.Interval \in Int /\ h.Host \in Hosts /\ h.Service \in Services
      BY DEF Heartbeats
    <3>2. orDefault(h.CheckType, "", "service") \in CheckTypes \cup {"", "typo"}
      BY <3>1 DEF orDefault, CheckTypes
    <3>3. orDefault(h.State, "", IF h.CheckType = "host" THEN "up" ELSE "ok") \in Names
      BY <2>1, <3>1, Zenon DEF orDefault
    <3>4. orDefault(h.Interval, 0, 60) \in Int
      <4>1. \A x \in Int : orDefault(x, 0, 60) \in Int
        BY SMT DEF orDefault
      <4> QED BY <3>1, <4>1, Zenon
    <3> QED BY <3>1, <3>2, <3>3, <3>4, Zenon
  <2> QED BY <2>2, Zenon DEF defaultedHeartbeat, Heartbeats
<1>2. /\ orDefault(f.MaxBodyBytes, 0, DefaultMaxBody) \in Int
      /\ orDefault(f.Timeout, 0, 5) \in Int
      /\ orDefault(f.MaxListed, {}, {5}) \in SUBSET Int
  BY SMT DEF orDefault, DefaultMaxBody, Contents
<1>3. defaultedHeartbeat(f.Heartbeat) \in Heartbeats
  BY <1>1 DEF Contents
<1>4. /\ f.text \in Texts
      /\ f.ServerTLS \in TLSSpecs /\ f.NRDPTLS \in TLSSpecs
      /\ f.Auth \in Auths /\ f.Retries \in Int
      /\ f.URL \in URLs /\ f.Token \in Secrets
      /\ f.Aggregation \in SUBSET BOOLEAN /\ f.Output \in Outputs /\ f.Rules \in Seq(RuleConfigs)
  BY DEF Contents
<1> QED BY <1>2, <1>3, <1>4, Zenon DEF defaulted, Contents

\* Type correctness, that of the state map included.
THEOREM LoadTypeCorrect == LoadSpec => []LoadTypeOK
<1>1. LoadSpec => []TypeOK
  BY LoadIsMapping, TypeCorrect, PTL
<1>2. ParsedInv /\ VerdictInv /\ TypeOK => LoadTypeOK
  <2> SUFFICES ASSUME ParsedInv, VerdictInv, TypeOK PROVE LoadTypeOK
    OBVIOUS
  <2>1. file \in Contents /\ cfg \in Contents /\ sample \in Samples
    BY DefaultedType DEF ParsedInv
  <2>2. verdict \in [Commands -> Verdicts]
    BY DEF ParsedInv, VerdictInv, Verdicts
  <2> QED BY <2>1, <2>2 DEF LoadTypeOK
<1> QED BY <1>1, <1>2, AlwaysParsed, AlwaysJudged, PTL

\* The lookups of StateMapping never miss in a config that went this way.
THEOREM LoadedLookupsSafe == LoadSpec => []LookupsNeverMiss
  BY LoadIsMapping, LookupsSafe, PTL

\* And of Worst: no code of an alert hides a worse one, with any config file.
THEOREM LoadedWorstIsRight == LoadSpec => []WorstIsMostSevere
  BY LoadIsMapping, WorstIsRight, PTL
=============================================================================
