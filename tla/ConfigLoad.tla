----------------------------- MODULE ConfigLoad -----------------------------
(***************************************************************************)
(* How a config file becomes a config: Load, applyDefaults and Validate of *)
(* internal/config, and what the commands serve, check and test make of    *)
(* the result (cmd/nrdp-webhook, internal/tlsutil), each on the same file, *)
(* test with a file of sample alerts besides.                              *)
(* What a running server does with the config without looking back, like   *)
(* WithAuth (internal/webhook/auth.go), relies on what is rejected here.   *)
(*                                                                         *)
(* The state map of one check type is that of StateMapping, and a rule is  *)
(* valid as MappingRules says; here a rule is a name and two verdicts.     *)
(***************************************************************************)
EXTENDS StateMapping

CONSTANTS Files,        \* what the files say, apart from the state map
          Secrets,      \* user names, passwords and tokens
        RuleNames     \* names of rules

Commands == {"serve", "check", "test"}

\* A certificate, key or CA file: not named, missing or unusable, usable.
Pems == {"", "bad", "good"}
TLSSpecs == [given : BOOLEAN, cert : Pems, key : Pems, ca : Pems]

AuthTypes == {"", "none", "basic", "bearer"}
Auths == [given : BOOLEAN, Type : AuthTypes \cup {"typo"},
          Username : Secrets, Password : Secrets, Token : Secrets]

Hosts == {"", "host"}
Services == {"", "service"}
Heartbeats == [Enabled : BOOLEAN, Interval : Int,
               CheckType : CheckTypes \cup {"", "typo"},
               Host : Hosts, Service : Services, State : Names]

\* compiles: its templates parse.
RuleConfigs == [Name : RuleNames, valid : BOOLEAN, compiles : BOOLEAN]

\* text: ${VAR} without a value, YAML that does not decode strictly, or neither.
Texts == {"unset", "unparsable", "ok"}
URLs == {"", "unparsable", "noscheme", "nohost", "http", "https"}

\* The summary template: none, one that does not parse, one that fails on the
\* sample where alerts share a target, one that works on it.
Outputs == {"", "bad", "fails", "good"}

\* What a config can say.  A number that is left out is 0, a pointer is a set of
\* at most one value.  Strings that get a default and may be anything are left out.
Contents == [text : Texts, MaxBodyBytes : Int, ServerTLS : TLSSpecs, Auth : Auths,
             URL : URLs, Token : Secrets, Timeout : Int, Retries : Int,
             NRDPTLS : TLSSpecs, Heartbeat : Heartbeats, Aggregation : SUBSET BOOLEAN,
             MaxListed : SUBSET Int, Output : Outputs, Rules : Seq(RuleConfigs)]

\* The alerts given to test: nothing it can read, or alerts of which none, or
\* several, go to the same target.
Samples == {"unreadable", "apart", "shared"}

ASSUME FilesAssumption ==
    Files \subseteq Contents /\ "" \in Secrets /\ "" \in RuleNames

VARIABLES file,         \* the config file
          sample,       \* the file of alerts that test is given
          cfg,          \* the config it has been loaded into
          verdict       \* verdict[c]: "pending", where command c failed, or "ok"

loadVars == <<vars, file, sample, cfg, verdict>>

-----------------------------------------------------------------------------
(* applyDefaults and Validate.                                             *)

orDefault(value, zero, default) == IF value = zero THEN default ELSE value

DefaultMaxBody == 8 * 1024 * 1024

\* Faulty variant: the same default state for both check types.
defaultedHeartbeatShared(h) ==
    IF ~ h.Enabled THEN h
    ELSE [h EXCEPT !.CheckType = orDefault(@, "", "service"),
                   !.Interval  = orDefault(@, 0, 60),
                   !.State     = orDefault(@, "", "ok")]

\* The state left out depends on the check type, left out or not.
defaultedHeartbeat(h) ==
    IF ~ h.Enabled THEN h
    ELSE [Enabled   |-> TRUE,
          Interval  |-> orDefault(h.Interval, 0, 60),
          CheckType |-> orDefault(h.CheckType, "", "service"),
          Host      |-> h.Host,
          Service   |-> h.Service,
          State     |-> orDefault(h.State, "", IF h.CheckType = "host"
                                               THEN "up" ELSE "ok")]

defaulted(f) == [text         |-> f.text,
                 MaxBodyBytes |-> orDefault(f.MaxBodyBytes, 0, DefaultMaxBody),
                 ServerTLS    |-> f.ServerTLS,
                 Auth         |-> f.Auth,
                 URL          |-> f.URL,
                 Token        |-> f.Token,
                 Timeout      |-> orDefault(f.Timeout, 0, 5),
                 Retries      |-> f.Retries,
                 NRDPTLS      |-> f.NRDPTLS,
                 Heartbeat    |-> defaultedHeartbeat(f.Heartbeat),
                 Aggregation  |-> f.Aggregation,
                 MaxListed    |-> orDefault(f.MaxListed, {}, {5}),
                 Output       |-> f.Output,
                 Rules        |-> f.Rules]

\* Faulty variant: a type that is not known is not looked into.
validateWebhookAuthLax(a) ==
    a.given => /\ a.Type = "basic" => a.Username # "" /\ a.Password # ""
               /\ a.Type = "bearer" => a.Token # ""

validateWebhookAuth(a) ==
    a.given => /\ a.Type \in AuthTypes
               /\ a.Type = "basic" => a.Username # "" /\ a.Password # ""
               /\ a.Type = "bearer" => a.Token # ""

validateURL(u) == u \in {"http", "https"}

\* config.States: anything but "host" has the service vocabulary.
statesOf(t) == IF t = "host" THEN States["host"] ELSE States["service"]

\* Faulty variant: the state is looked for in the service vocabulary.
validateHeartbeatService(h) ==
    h.Enabled => /\ h.Interval > 0
                 /\ h.Host # ""
                 /\ h.CheckType \in CheckTypes
                 /\ h.Service # "" <=> h.CheckType = "service"
                 /\ h.State \in DOMAIN States["service"]

validateHeartbeat(h) ==
    h.Enabled => /\ h.Interval > 0
                 /\ h.Host # ""
                 /\ h.CheckType \in CheckTypes
                 /\ h.Service # "" <=> h.CheckType = "service"
                 /\ h.State \in DOMAIN statesOf(h.CheckType)

validateRules(rs) == /\ rs # <<>>
                     /\ \A i \in DOMAIN rs : rs[i].valid /\ rs[i].Name # ""
                     /\ \A i, j \in DOMAIN rs : rs[i].Name = rs[j].Name => i = j

\* Validate, without the state maps; a defaulted config.  The token of nrdp is not
\* looked at.
Validate(c) == /\ c.MaxBodyBytes > 0
               /\ validateWebhookAuth(c.Auth)
               /\ validateURL(c.URL)
               /\ c.Retries >= 0
               /\ c.Timeout > 0
               /\ validateHeartbeat(c.Heartbeat)
               /\ \A k \in c.MaxListed : k >= 0
               /\ validateRules(c.Rules)

-----------------------------------------------------------------------------
(* What the commands build.                                                *)

\* tlsutil.ServerConfig: a pair, and a CA for the clients' certificates if any.
ServerConfig(t) == t.cert = "good" /\ t.key = "good" /\ t.ca # "bad"

\* tlsutil.ClientConfig: a CA if any, and a pair or none.
ClientConfig(t) == /\ t.ca # "bad"
                   /\ \/ t.cert = "good" /\ t.key = "good"
                      \/ t.cert = "" /\ t.key = ""

\* mapping.New and checkresult.NewAggregator.
engine(c) == \A i \in DOMAIN c.Rules : c.Rules[i].compiles
aggregator(c) == c.Output # "bad"

nrdpTLS(c) == c.NRDPTLS.given => ClientConfig(c.NRDPTLS)
serverTLS(c) == c.ServerTLS.given => ServerConfig(c.ServerTLS)

\* buildState: the parts serve makes, in this order.
buildState(c) == <<[part |-> "engine",     made |-> engine(c)],
                   [part |-> "aggregator", made |-> aggregator(c)],
                   [part |-> "nrdpTLS",    made |-> nrdpTLS(c)],
                   [part |-> "serverTLS",  made |-> serverTLS(c)]>>

\* Faulty variant: the CA and the certificate are passed in the wrong order.
runCheckMixedUp(c) ==
    <<[part |-> "engine",    made |-> engine(c)],
      [part |-> "serverTLS", made |-> serverTLS(c)],
      [part |-> "nrdpTLS",
       made |-> nrdpTLS([c EXCEPT !.NRDPTLS.ca = c.NRDPTLS.cert,
                                  !.NRDPTLS.cert = c.NRDPTLS.ca])]>>

\* runCheck and checkTLS: what check tries out.
runCheck(c) == <<[part |-> "engine",    made |-> engine(c)],
                 [part |-> "serverTLS", made |-> serverTLS(c)],
                 [part |-> "nrdpTLS",   made |-> nrdpTLS(c)]>>

\* Aggregator.Merge on the alerts of the sample, for which serve has a fallback
\* (AlertBatch) and test has none.
AggregationEnabled(c) == c.Aggregation # {FALSE}
Merge(c, s) == AggregationEnabled(c) /\ s = "shared" => c.Output # "fails"

\* Faulty variant: the alerts are shown one by one, without the aggregator.
runTestUnmerged(c, s) == <<[part |-> "engine", made |-> engine(c)],
                           [part |-> "alerts", made |-> s # "unreadable"]>>

\* runTest: what test builds, reads and does before it prints the result.
runTest(c, s) == <<[part |-> "engine",     made |-> engine(c)],
                   [part |-> "alerts",     made |-> s # "unreadable"],
                   [part |-> "aggregator", made |-> aggregator(c)],
                   [part |-> "merge",      made |-> Merge(c, s)]>>

parts(command, c, s) == CASE command = "serve" -> buildState(c)
                          [] command = "check" -> runCheck(c)
                          [] command = "test"  -> runTest(c, s)

\* A command ends with the first part it cannot make.
outcome(steps) ==
    IF \A i \in DOMAIN steps : steps[i].made THEN "ok"
    ELSE LET first == CHOOSE i \in DOMAIN steps :
                         /\ ~ steps[i].made
                         /\ \A j \in 1 .. i - 1 : steps[j].made
         IN  steps[first].part

Parts == {"engine", "alerts", "aggregator", "merge", "nrdpTLS", "serverTLS"}
Verdicts == {"pending", "load", "ok"} \cup Parts

-----------------------------------------------------------------------------
(* WithAuth and beat, which rely on the config that was loaded.            *)

\* The credentials of a request, if it has any.
Requests == [scheme : {"none", "basic", "bearer"},
             Username : Secrets, Password : Secrets, Token : Secrets]

\* Faulty variant: both must differ for a request to be turned away.
WithAuthEither(a, r) ==
    CASE a.given /\ a.Type = "basic"  -> /\ r.scheme = "basic"
                                         /\ \/ r.Username = a.Username
                                            \/ r.Password = a.Password
      [] a.given /\ a.Type = "bearer" -> r.scheme = "bearer" /\ r.Token = a.Token
      [] OTHER                        -> TRUE

\* Whether WithAuth lets a request through to the handler.
WithAuth(a, r) ==
    CASE a.given /\ a.Type = "basic"  -> /\ r.scheme = "basic"
                                         /\ r.Username = a.Username
                                         /\ r.Password = a.Password
      [] a.given /\ a.Type = "bearer" -> r.scheme = "bearer" /\ r.Token = a.Token
      [] OTHER                        -> TRUE

-----------------------------------------------------------------------------
LoadInit == /\ Init
            /\ file \in Files
            /\ sample \in Samples
            /\ cfg = file
            /\ verdict = [c \in Commands |-> "pending"]

\* Load, with the same outcome for every command: the state maps decide if
\* everything else is right.
LoadFile ==
    /\ IF file.text = "ok" /\ Validate(defaulted(file)) THEN Load ELSE Refuse
    /\ IF pc' = "loaded"
       THEN cfg' = defaulted(file) /\ UNCHANGED verdict
       ELSE verdict' = [c \in Commands |-> "load"] /\ UNCHANGED cfg
    /\ UNCHANGED <<file, sample>>

\* A command builds what it needs.
RunCommand(c) == /\ pc = "loaded"
                 /\ verdict[c] = "pending"
                 /\ verdict' = [verdict EXCEPT ![c] = outcome(parts(c, cfg, sample))]
                 /\ UNCHANGED <<vars, file, sample, cfg>>

\* serve and test score alerts, test before it merges them.
ScoreAlert == /\ verdict["serve"] = "ok" \/ verdict["test"] \in {"merge", "ok"}
              /\ Score
              /\ UNCHANGED <<file, sample, cfg, verdict>>

LoadNext == LoadFile \/ ScoreAlert \/ \E c \in Commands : RunCommand(c)

LoadSpec == LoadInit /\ [][LoadNext]_loadVars

-----------------------------------------------------------------------------
LoadTypeOK == /\ TypeOK
              /\ file \in Contents
              /\ sample \in Samples
              /\ cfg \in Contents
              /\ verdict \in [Commands -> Verdicts]

\* What the config file has to be like: a reader's view, which knows of defaults
\* only what may be left out.  Whether it gives nrdp.token, which the docs require
\* (docs/configuration.md:62), plays no part in it.
authRight(a) == CASE ~ a.given                   -> TRUE
                  [] a.given /\ a.Type = "basic"  -> "" \notin {a.Username, a.Password}
                  [] a.given /\ a.Type = "bearer" -> a.Token # ""
                  [] OTHER                        -> a.Type \in {"", "none"}

heartbeatRight(h) ==
    \/ ~ h.Enabled
    \/ /\ h.Host # "" /\ h.Interval >= 0
       /\ \/ /\ h.CheckType = "host" /\ h.Service = ""
             /\ h.State \in DOMAIN States["host"] \cup {""}
          \/ /\ h.CheckType \in {"service", ""} /\ h.Service # ""
             /\ h.State \in DOMAIN States["service"] \cup {""}

fileRight(f) == /\ f.text = "ok"
                /\ f.MaxBodyBytes >= 0 /\ f.Timeout >= 0 /\ f.Retries >= 0
                /\ \A k \in f.MaxListed : k >= 0
                /\ f.URL \in {"http", "https"}
                /\ authRight(f.Auth)
                /\ heartbeatRight(f.Heartbeat)
                /\ f.Rules # <<>> /\ \A i \in DOMAIN f.Rules : f.Rules[i].valid
                /\ "" \notin {f.Rules[i].Name : i \in DOMAIN f.Rules}
                /\ \A i, j \in DOMAIN f.Rules :
                      i # j => f.Rules[i].Name # f.Rules[j].Name

mapRight == /\ \A s \in DOMAIN m.Values : m.Values[s] \in DOMAIN States[checkType]
            /\ m.Unmatched \in DOMAIN States[checkType] \cup {""}
            /\ m.Resolved \in DOMAIN States[checkType] \cup {""}

\* Loading rejects exactly the files that are not right by this view: the defaults,
\* some of which depend on other fields, pass the validation they come before,
\* and no wrong value hides behind one.  A file without nrdp.token, wrong by the
\* docs, is among those that load.
LoadsExactlyRight == /\ pc = "loaded" => fileRight(file) /\ mapRight
                     /\ pc = "rejected" => ~ (fileRight(file) /\ mapRight)

\* serve, check and test each make by hand what they need of a config.  Neither
\* dry run covers all of it, but no config gets past both of them that serve
\* does not start with; and what serve starts with, check accepts, and test
\* refuses only for its sample: alerts it cannot read, or a summary that fails on
\* them, where serve would go on unmerged.
DryRunsAgree ==
    /\ verdict["check"] = "ok" /\ verdict["test"] \in {"merge", "ok"} =>
          verdict["serve"] \in {"pending", "ok"}
    /\ verdict["serve"] = "ok" =>
          /\ verdict["check"] \in {"pending", "ok"}
          /\ verdict["test"] \in {"pending", "alerts", "merge", "ok"}

\* What a request must have by the auth section of the file.
demands(a, r) == /\ r.scheme = a.Type
                 /\ \/ /\ a.Type = "basic" /\ "" \notin {r.Username, r.Password}
                       /\ <<r.Username, r.Password>> = <<a.Username, a.Password>>
                    \/ a.Type = "bearer" /\ r.Token # "" /\ r.Token = a.Token

\* WithAuth lets every request through whose type it does not know and compares
\* with credentials that it does not check for being there: with a config that
\* was loaded, a request gets in exactly if it comes by the scheme of the file
\* with all the credentials in it, none of them empty, or if the file says
\* "none" or nothing.
AuthHolds ==
    pc = "loaded" =>
        \A r \in Requests :
            WithAuth(cfg.Auth, r) <=> \/ ~ file.Auth.given
                                      \/ file.Auth.Type \in {"", "none"}
                                      \/ demands(file.Auth, r)

\* beat looks its state up without checking, and Run waits for the interval as it
\* is: with a config that was loaded the lookup does not miss, the wait is not
\* endless polling, and a service is named exactly for a service check.
HeartbeatSound ==
    pc = "loaded" /\ cfg.Heartbeat.Enabled =>
        /\ cfg.Heartbeat.State \in DOMAIN statesOf(cfg.Heartbeat.CheckType)
        /\ cfg.Heartbeat.Interval > 0
        /\ cfg.Heartbeat.CheckType = "service" <=> cfg.Heartbeat.Service # ""

-----------------------------------------------------------------------------
(* What docs and comments say, and the code does not do.                   *)

\* "Validate any config with `nrdp-webhook check --config config.yaml`"
\* (docs/configuration.md:357) and "Compiling the rule engine here catches a bad
\* template/regex at check time" (cmd/nrdp-webhook/check.go:33): what check
\* accepts, serve starts with.
CheckPredictsServe == verdict["check"] = "ok" => verdict["serve"] \in {"pending", "ok"}
=============================================================================
