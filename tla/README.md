# TLA+ models of alertmanager-webhook-nagios-nrdp

The program receives Alertmanager webhooks, maps each alert to a Nagios host or
service by configured rules, and submits passive check results to an NRDP
server. These modules model the parts of it that decide whether an alert
reaches Nagios, in which state, and by which configuration. TLC checks them on
small instances; TLAPS proves all of the safety properties for all values of the
constants.

`tlc -config X.cfg M` runs a check, `tlapm MProofs.tla` the proofs of a module.

## 1. The system

### Components

| Component (source) | State | Operations | Modelled in |
|---|---|---|---|
| **NRDP client** `internal/nrdp/client.go` | per call: attempt, timers | `Submit`, `submitOnce` | `NrdpClient`, `NrdpOutage`, `SubmitContract` |
| **Webhook handler** `internal/webhook/handler.go` | per request: entries, targets seen; counters | `ServeHTTP`, `mapAlerts` | `Delivery` (calls and their answers), `AlertBatch` (the payload) |
| **Config reload, requests** `cmd/nrdp-webhook/serve.go` | `server.current` (atomic pointer); listener settings fixed at the start | `applyConfig`, `watchReload`, `POST /-/reload`, `ServeHTTP`, shutdown | `ConfigReload`; shutdown and restart in `Delivery` |
| **Aggregation** `internal/checkresult/aggregate.go` | per request: groups, their order | `Merge`, `mergeGroup` | `AlertBatch` |
| **Mapping engine** `internal/mapping/engine.go` | compiled rules, immutable | `Resolve`, matchers, templates | `MappingRules` |
| **Names** `internal/nrdp/xml.go`, `internal/checkresult/checkresult.go` | none | `SanitizeName`, `Build`, `Target` | `MappingRules` |
| **State mapping** `internal/nrdpstate/state.go` | state maps, immutable | `Resolver.state`, `Worst` | `NagiosStates`, `StateResolver`, `StateMapping` |
| **Config** `internal/config` | none | `Load`, `applyDefaults`, `Validate` | `ConfigLoad`; state maps in `StateResolver` and `StateMapping`, rules in `MappingRules` |
| **TLS settings** `internal/tlsutil/tlsutil.go` | none | `ServerConfig`, `ClientConfig` | `ConfigLoad` |
| **Authentication** `internal/webhook/auth.go` | none | `WithAuth` | `ConfigLoad` |
| **Command-line tools** `cmd/nrdp-webhook/check.go`, `test.go` | none | what each builds of a config; the sample of `test` | `ConfigLoad` (not what they print) |
| **Heartbeat** `internal/heartbeat/heartbeat.go` | timer | `Run`, `beat` | `Heartbeat` |
| **Metrics** `internal/metrics/metrics.go` | counters | increments | those of the alerts in `AlertBatch` |
| Payload decoding, chart, image | none | | not modelled, section 7 |

### How they interact

Alertmanager POSTs a payload. `ServeHTTP` in `serve.go` takes the current state,
an immutable bundle of engine, resolver, aggregator and client, by one atomic
load, and builds a handler from it. The handler maps the alerts one after the
other, merges those for the same Nagios object, and calls `Submit`, which blocks
it; the outcome becomes the response. Reloads replace the pointer from two kinds
of goroutines, the `watchReload` loop (SIGHUP and directory events) and one
handler per `POST /-/reload`, without a lock between them. The heartbeat
goroutine reads the same pointer before and after each wait and submits through
the client it finds there.

### What is hard, and what correctness means

* *Concurrent reloads.* Several reloads run at once and read the file and store
  the result in separate steps. A config that does not load must never be
  served, a request must never mix two configs, an applied edit must stay
  applied, a trigger must not be lost while a reload is running.
* *Retries against a server that may or may not have applied a POST.* A success
  must be real, the deadline of the whole must leave each attempt its time, the
  handler must be released whatever NRDP does, and outages shorter than the
  pauses must be bridged.
* *Delivery.* Alertmanager retries and hangs up, calls for an older and a newer
  state overlap, a submission outlives its request, the process is stopped in the
  middle of one. Nothing may be acknowledged that Nagios was not told, and a check
  may only be set back by what nobody waits for any more.
* *Batches.* Alerts of one payload collide on a target, and merging can fail
  halfway. No alert may be lost without being counted, a recovered alert must not
  hide one that fires, the worst state must win although the numeric order of
  codes is not that of severity, and is so differently for hosts and services.
* *Values nobody checks at run time.* The resolver's lookups, `WithAuth`, and the
  heartbeat rely on defaulting and validation having run, in that order, when the
  config was loaded; some defaults depend on other fields. `check`, `test` and
  `serve` each build what they need of a config in their own way.
* *Waiting.* The heartbeat must survive failures, follow reloads that happen while it
  waits, and end on shutdown.

`PROJECT.json` lists each hazard with the line where it bites and the properties
that cover it.

## 2. The modules

An `MCx` module is the TLC instance of module `x`, `xProofs` its theorems.
Operators commented as a *faulty variant* are not used by the specifications:
each is what a definition would be after a plausible mistake in the code, and
with it in place TLC refutes the property it is listed with in `PROJECT.json`.

### `SubmitContract`, `NrdpClient`, `NrdpOutage`

`NrdpClient` is one call of `Submit` with a clock. `pc` is where the call is (an
attempt, the pause after it, or one of three ways out: `return nil`,
`return lastErr` after the last attempt, the `ctx.Done()` branch of the pause);
`wire` holds the POSTs the server has not yet decided on. Each attempt starts a
POST; the attempt ends by an answer, judged by `submitOnce`, by its own timeout,
or by the deadline of the whole. A POST is not withdrawn when its attempt ends,
so the server may apply it any time later (`Apply`) and its answer is then
ignored. Answers may be lost, garbled, have another status or no `<status>` at
all, which decodes to 0. A goroutine acts up to `latency` after its timer
fired; how much that is differs between behaviours. `submitBudget` is the
deadline derived in `serve.go`.

`SubmitContract` is what the handler may rely on: "ok" is only said after NRDP has
applied the batch; an error promises nothing. `NrdpClient` implements it with
`verdict` computed from `pc` (`ImplementsContract`).

`NrdpOutage` puts the client before two kinds of server in one specification: one
of which nothing is known, and one that is down until `back` and answers promptly
from then on.

### `Delivery`, `AtLeastOnce`

`Delivery` is the whole path of one check's state: Alertmanager, the webhook
process with several calls in flight, NRDP and Nagios. A revision stands for what
a group of alerts says at a time; `truth` is the newest. `Flush`, `Send`, `HangUp`
and `Abandon` are Alertmanager's notification pipeline (external); `Refuse`,
`Skip`, `Submit`, `Succeed`, `Fail` and `Answer` are the ways through `ServeHTTP`.
`HangUp` leaves the call as it is, because the handler detaches the submission
from the request. A call uses `Client.Submit` by its contract: any of its POSTs is
applied at any time (`Apply`), also after the verdict, and "ok" comes after one of
them. `Stop` is SIGTERM, `Exit` is `runServe` returning without waiting for the
calls, or a kill; the POSTs of the calls it cuts off remain on the wire. `Restart` is the
supervisor. `settled` is history.

`AtLeastOnce` says the same to somebody outside, without calls, processes or
retries: what is acknowledged has been told or passed over, acknowledgements never
go back, and Nagios is told of nothing that was not so at some time. `Delivery`
implements it in the four variables they share (`ImplementsAtLeastOnce`).

### `NagiosStates`, `StateResolver`, `StateMapping`

The vocabularies and the severity order; as operators, `applyDefaults` and
`validateStateMap` on one state map, `Resolver.state` on it, with Go's zero value for
a missing key, and `Worst` as a scan, compared with its definition by quantifiers
(`WorstOf`). `StateMapping` is the path of one state map from the file to the
resolver, and the alerts scored with it.

### `ConfigLoad`

One config file on its way through `Load`, `applyDefaults` and `Validate`, and then
the three commands on the result, each making its parts in its own order until one
cannot be made (`outcome`). `test` also reads a file of sample alerts (`sample`),
between building the engine and the aggregator, and merges them, for which it has
no fallback as `serve` has. It extends `StateMapping`, whose `Load` and `Refuse`
decide on the state map once the rest of the file is right, and whose `Score` is
taken by `serve` and `test` only. Texts, URLs, PEM files and templates are the
verdicts the code reaches on them, and of the host and service of a heartbeat it only
matters whether they are there; numbers, rule names, credentials and lists are
values. `server.listen`, `aggregation.identifyBy` and the other strings that get a
default and may be anything are left out. `fileRight` is a second description of a
correct file, written without defaults and field by field, against which that of the
code is compared. It says nothing of `nrdp.token`, which the docs require and the code
does not look at (section 6): a file that lacks nothing else is among those that have to
load. `WithAuth` is an
operator on the loaded config and a request, and `demands` what the file asks of one.

### `MappingRules`

`Resolve` as a loop over validated rules, one action per way it can go on, and
`Build` with `Target` after it, which looks its state up in the state map of the
rule's check type (`scored`, with the operators of `StateResolver`). A label value
is a sequence of four kinds of characters (ordinary, `;`, control, blank), the ones
`SanitizeName` tells apart. A template is the label it prints, the argument of
`default`, and whether it calls something that fails on an empty string; a regex is
the set of values it matches.

### `AlertBatch`

`mapAlerts` and `Merge` step by step over whole payloads. What rules, resolver
and template make of an alert comes as constants (`Fate`, `TargetOf`, `CodeOf`),
as does which groups the summary template fails on, so that the proofs hold for
all of them. Of the three it assumes no more than what `MappingRules` is proved to
make (`CheckResultsAreUsable`): the code of an entry is one its check can have.
`entries`, `seen`, `order`, `groups` are the variables of the two functions; the
five counters live on between payloads. Whether aggregation is on may differ from
payload to payload, as a reload may come between them. The summary text is
abstracted to the set of alerts it describes. Counting forwarded checkresults is
done where the batch is ready: `ServeHTTP` adds its length once, whichever way the
submission ends.

### `ConfigReload`

`disk` is the content of the file; an edit replaces it in whole or in part, a
ConfigMap update swaps `..data`. `pc[p]` is where reloader `p` is: `Build` reads
the file and builds a state or fails, `Store` stores it. These are two actions
because nothing in `applyConfig` keeps others out between them. The buffered
signal channel is `hup`, the event channel `events`. A request takes its state in
`Arrive`, uses it in `MapAlerts` and `Submit`; `used` records whose parts it has
used. `initial` is the config the listener was set up from.

### `Heartbeat`

`Run` with a discrete timer: `Plan` reads the config and sets the timer, `Fire`
takes its tick, `Beat` or `Skip` reads the config again, `BeatDone` is
`Submit`'s return with or without an error, `Return` the context's end. `Reload`
and `Cancel` come at any moment. `unread` and `silent` are history
for the properties.

## 3. The runs

| Run | Shows |
|---|---|
| `delivery` | What is acknowledged, Nagios was told (`AckedIsSettled`); only POSTs of calls that were given up, or repeated ones, set it back (`StepBackIsStray`); alerts that go on firing come to be shown (`FiringIsShown`); the whole implements `AtLeastOnce`. |
| `nrdp_client` | An acknowledged batch has been applied. While delays stay within the margin, the deadline never costs an attempt its time; when they do not, the handler is still released within three wake-ups of it. `Submit` returns, and implements the contract. An outage no longer than all the pauses is bridged. |
| `config_load` | Exactly the files that are right (`fileRight`, without `nrdp.token`) load. What is not checked again at run time holds of every loaded config: state lookups, heartbeat, and a request gets in exactly with the scheme and credentials of the file. No config gets past both `check` and `test` that `serve` does not start with, and what `serve` starts with they refuse only for the sample. `Worst` finds the most severe code. |
| `mapping_rules` | The first matching rule alone decides; checkresults that leave have usable names and a state of their check type; a matcher and its opposite leave no gap. |
| `alert_batch` | Merged, fallen back or not merged at all, no alert is dropped. Merged, there is one result per target, it shows the worst firing alert, in the order of the payload; unmerged, the last alert of a target decides. Nothing leaks from one payload to the next, and the counters account for each alert. |
| `config_reload` | The watch loop, a `POST /-/reload` handler and a request: only accepted configs are served, no request mixes two, a reload that runs by itself leaves the newest config in place whatever overlapping ones did before, and every trigger leads to the file as it stands unless reloads overlap. |
| `heartbeat` | Beats follow reloads within a bounded time, keep coming, survive failures, and end on shutdown. |

Five more runs end in a counterexample: `config_reload_race`, `config_reload_swap`,
`config_reload_timeout`, `alert_batch_uniform` and `config_check` (section 6).

### Bounds, and why they are enough

* `delivery`: two calls in flight, the fewest that overlap; one retry, so that an
  attempt that has been applied is repeated. Alerts fire, resolve and fire again
  (`Firing = {0, 2}`): one revision that is older and firing, one that is resolved,
  one that ends firing. One end of the process.
* `nrdp_client`: 2 retries give a first, a middle and a last attempt, and up to
  three POSTs on the wire at once. `Timeout` 2 and `RetryBackoff` 5 differ, so that
  a mix-up shows. Goroutines are late by 0, 1 or 4 in a behaviour: a latency of 1
  satisfies `SlackSuffices` with nothing to spare (5 against a margin of 6), one of
  4 overruns the margin by far but is shorter than a pause, so that the deadline
  cuts submissions and `HandlerReleased` is put to the test. Of the outages, 4 ends
  within the first pause and 10 is the longest that two pauses of 5 bridge.
* `config_load`: files that are plain but for one section or two that have to do with
  each other. Limits: a negative, an omitted and a positive value of each, every kind
  of URL and text. All authentication settings over an empty and two nonempty secrets,
  with all requests, so that a request can have the wrong credentials as well as none.
  All heartbeats. All TLS settings of both sides, with a summary template that parses,
  one that does not, and none. Every token with every URL. All lists of up to three
  rules over three names and the empty one: all alike, two alike, all different.
  Every sample with every template, with aggregation on, off and left out, with
  rules that compile or not and a CA that does or does not (`Merged`).
  Every state map over a severity with a default, one without and the absent one,
  all names of both vocabularies, a misspelt one and an omitted one; lists of three
  codes, in which each pair of codes comes in both orders. The state map and the rest
  of the file do not both depart from the plain one (`MCInit`): the theorems
  have no such bound.
* `mapping_rules`: up to three of the valid ones of the listed rules (`MCRules`),
  all label sets of two labels over five values. Three rules are enough for a
  matching rule, one before and one after it. Two state sections that load, one all
  defaults and one unlike them, and one that does not; every severity.
* `alert_batch`: four of eleven alerts in one payload or two, each with
  aggregation on or off. One payload of four has two groups of two and one group
  of four; two payloads are the fewest in which something can leak. Five alerts share
  a service: critical, warning, unknown, and two resolved ones whose state is
  unknown, so that voting by the wrong members or the wrong order shows. Two share
  a host. The template fails on the groups without a firing member.
* `config_reload`: three changes of the file, enough for a half-written one to be
  read, completed and replaced while a signal waits; one request. Two reloaders, the
  watch loop and one handler, overlap in every order; the theorems hold for any
  number.
* `heartbeat`: one interval below the idle wait and one above it; submissions as
  long as two ticks. Time inside `silent` and `unread` is bounded by the loop
  itself, not by a guard.

`Latencies`, `Outages`, `MaxRev`, `MaxRestarts`, `MaxAlerts`, `MaxPayloads` and
`MaxRules` are the only bounds a program does not have; each is a guard or the range
of a quantifier or of an initial value, named at its declaration. Runs whose
system stops by design (a submission that has returned, a payload that is done, a config that is loaded) turn deadlock detection off;
`Delivery`, `ConfigReload` and `Heartbeat` keep it: notifications are repeated, signals
never end, and a heartbeat that has returned still sees reloads.

### Fairness

* `NrdpClient`: weak fairness of the clock and of the client, which is the Go
  runtime firing timers and scheduling a goroutine that can run. Nothing is
  assumed of NRDP; only the server of `NrdpOutage` that is promised to be well
  again answers in time.
* `Delivery`: weak fairness of each handler, of Alertmanager's timer and of its
  giving up, of the exit that follows SIGTERM, of the supervisor, and of POSTs
  leaving the wire. That a handler goes on is what `nrdp_client` shows of `Submit`,
  by its deadline. Strong fairness stands for three things no webhook can do
  without: Alertmanager does not give up every notification before it has sent it;
  if calls for the present state keep coming, not all of them are refused, and not all
  of their POSTs are lost. Neither hanging up nor changes, signals or
  kills are held to anything. Only `FiringIsShown` uses fairness.
* `ConfigReload`: weak fairness of the watch loop and of a POST handler that has
  begun. Nothing of the operator: no edit, signal or request has to come.
  One condition stands for the whole loop because its `select` waits for all
  its sources at once; `TriggeredLoads` does not need a fairer choice among
  them, as a signal that stays in the channel means that the loop is reading
  events, of which there are finitely many, each one a reload or dropped.
* `Heartbeat`: weak fairness of the loop and of the clock. A submission is
  bounded by the client's own timeouts, so `left` runs down.

## 4. What is proved

The theorems hold for all values of the constants that satisfy the named
assumptions. Most need an invariant stronger than themselves.

* **`DeliveryProofs`** (from `DeliveryAssumption`). `TypeCorrect`,
  `NothingAckedIsLost`, `OnlyStraysSetBack` and `DeliversAtLeastOnce`, for any number
  of calls, retries and restarts. `AckedIsSettled` says nothing of the calls still on
  their way; `EvidenceInv` does: a positive verdict has a POST behind it, and a POST
  leaves its mark. `AwaitInv` is why neither Nagios nor `acked` goes back by the call
  Alertmanager waits for: it carries the revision being notified, and nothing
  newer has been carried, shown or acknowledged while that one is under way.
  `PastInv` is what makes a POST the `Tell` of a state that was so at some time. The
  refinement has one step per action; all but `Change`, `Apply`, `Skip` and
  `Answer` are stutters.
* **`NrdpClientProofs`** (from `ConstantsAssumption`).
  `BudgetSafe`: the deadline ends no submission while
  `(2 * Retries + 1) * latency < Margin`. `now < submitBudget` is not inductive,
  since it does not say how much time is left for the attempts still to come;
  `TimeInv` is: attempt `k` begins at most `k` full cycles of timeout, pause and
  two delays after the call, and no wait outlasts its timer by more than one
  delay. `CycleStep` and `CycleMonotone` do the multiplications the SMT solver
  cannot.
  `HandlerFreed`: from `HoldInv`, which says that a pause that begins after the
  deadline is the last, and that an attempt only does so if the pause before it did
  not. `AckSafe`: from `AckInv`, an attempt that holds an acceptable answer has been
  applied. `SubmitImplementsContract`: the refinement, one step per action;
  `Succeed` maps to the contract's by `AckInv`, a repeated application to a
  stutter. `TypeCorrect` with `PauseInv`, a pause is never after the last attempt.
  Of an outage, also from `OutagesAssumption`: `OutagesHidden`, no outage that the
  pauses can bridge makes `Submit` return an error, and `OutageEndsWell`, a submission
  through one can only end in a batch that has been applied; the safety half of
  `OutageBridged`. `PaceInv` is `TimeInv` from below, no attempt begins before as many
  pauses are over, so that the last attempt finds the server up; `LastInv` says that
  it is owed an answer, or has it, before its time is over.
* **`StateResolverProofs`** (from `NamesAssumption`). `ScoreInCodes`: a validated map
  gives every alert a code its check type can hold. `WorstIsWorstOf`: the scan `Worst`
  returns the most severe code of a list of any length. Its loop invariant is
  `foundAmong`: what has been found before position `n` is the worst of the codes
  before it, and the early return has not been taken. Scans are recursive functions,
  and induction over the positions of *one* list needs no theorem with a predicate
  for a parameter: `PositionInduction` takes the set of positions at which the
  invariant holds, `RecursiveFunction` says that a function given by its first value
  and its steps exists. Both rest on the least number principle (`LeastNumber`).
* **`ConfigLoadProofs`** (from `FilesAssumption` and `NamesAssumption`). Of one state
  map (`StateMapping`): `LookupsSafe` and `TypeCorrect` from `LoadedInv`, a loaded map
  has passed validation; `WorstIsRight` from that and `WorstIsWorstOf`. With any
  severities and any names. Of a file: `LoadTypeCorrect`, `RightIsLoaded`,
  `AuthIsChecked`, `HeartbeatIsSound`, `DryRunsPredictServe` for all files: any
  integers, secrets, rule names and state names, and rule lists of any length. `ParsedInv`: a loaded config is the file with its defaults and passed
  validation, a rejected one was not right. `HeartbeatParsed`, `AuthParsed`,
  `RulesParsed` and `MapParsed` compare the two descriptions section by section.
  `AuthIsChecked` follows from the validation of the file's section, which leaves
  `WithAuth` no type it does not know and nothing empty to compare with.
  `VerdictInv` with `OutcomeOf` (the outcome is "ok" exactly when every part can be
  made) and `FailsAtFirst` (or else the first that cannot) gives
  `DryRunsPredictServe`. `LoadIsMapping` (`LoadSpec => Spec`) carries what is
  proved of `StateMapping` over: `LoadedLookupsSafe`, `LoadedWorstIsRight`.
* **`AlertBatchProofs`** (from `BatchAssumption`). `OneResult`, `ShowsWorst` and
  `AllDescribed` for every rule set, payload and failing template. The invariant
  follows the phases: `EntriesInv` (the entries are the usable alerts of the
  prefix already read), `GroupsInv` (no target is listed twice, a listed target
  has members, the groups partition the entries passed), `OutInv` (the results so
  far are those of the first targets in the order; a finished batch is merged
  completely or not at all). `WorstIsWorst` proves that `WorstOf` finds a code and
  that none is worse. `SingleIsMerged` is why a target with one alert needs no
  case of its own. `TypeCorrect` from the type half of these. `Balances` from
  `LedgerInv`, the same equation at every step of a payload: what has been counted is
  what has been read, with the payload under way apart, for which `SeenInv` and
  facts on cardinality give the duplicates. `LastWins` and `InPayloadOrder` from
  `EntryOrderInv` and `TargetOrderInv`: the last alert of a target in the part of the
  payload that has been read makes its last entry, the first one its first, and
  targets stand in the order of their first entries.
* **`MappingRulesProofs`** (from `MappingAssumption` and `NamesAssumption`).
  `FirstDecides` and `NoGap` from `PassedInv`: no rule passed over matches.
  `SanitizedIsUsable`: what `SanitizeName` makes of a string of any length is empty or
  a name `Build` may use. `NoneLeft` is its first step, an induction over the
  characters; for the other two, `Span` and `EndsOf` find the first and the last
  character that is not blank, and `Part` says what is between them.
  `EntriesUsable` and `MappingTypeCorrect` from `TargetInv` (the target of an entry is
  that of the rule that matched, and `Build` could use it; its code is of that rule's
  check type) and `MapsInv` (the state maps have passed validation).
  `EntriesUsable` is the one thing `BatchAssumption` of `AlertBatch` demands of the
  codes: what is proved there of batches applies to the entries made here.
* **`HeartbeatProofs`** (from `HeartbeatAssumption`, `LongestInterval`).
  `TypeCorrect`, `FollowsReload`, `NextBeatInTime`. The two bounds are inductive only
  together with what is left of the timer: `WaitInv`, time since a reload the
  loop has not read plus time left never exceeds the longest wait or submission;
  `BeatInv`, time since the last beat plus time left never exceeds one interval and
  one submission.
* **`ConfigReloadProofs`** (from `ReloadAssumption`). `TypeCorrect`,
  `OnlyAcceptedConfigs` and `RequestsAreConsistent` for any number of
  reloaders and requests, from `ServingInv`: what a reloader is about to store
  was accepted, a request has used nothing but what it took on arrival.
  `LoneReloads`: from `LoneInv`, a reloader that is not overlapped has
  read what no later reload has replaced.
  `TriggersKept`: as long as a file whose reload has been triggered is not served, a
  reload that will read or store it is queued or under way, unless reloads overlap
  (`NoTriggerLost`). This is the safety half of `TriggeredLoads`: with it, only a
  reload that never gets on could keep an edit from being served. `TriggerInv` adds
  what makes it inductive: a reload that nobody overlaps and that is about to store
  an older file has another behind it.
  `NoStepBack`: without `POST /-/reload` the server never goes back to an older
  config, because then no reload overlaps another (`Alone`). The run `config_reload_race` shows that the hypothesis
  `Posts = {}` is needed.

## 5. What is only model-checked

All the invariants, action properties and refinements that the runs check are
proved. What is left to TLC is liveness, as fairness and `ENABLED` are beyond the
prover: `FiringIsShown`, `SubmitReturns`, `OutageBridged`, `TriggeredLoads`,
`HeartbeatGoesOn`, `ReturnsOnCancel`. Of `OutageBridged` and `TriggeredLoads` the
safety half is proved (section 4): that they cannot go wrong, but not that they
come about.

## 6. Where the code and what is said of it differ

Each of these runs ends in a counterexample; the code is modelled as it is.

* `config_reload_race`: `applyConfig` can run twice at once. The call that read the
  older file may store last; the server then stays with the older config although
  both reloads reported success.
* `config_reload_swap`: a ConfigMap update renames `..data` and never touches the
  directory entry of the file itself. `watchReload` drops the event, because it
  compares the base name with that of the file. The comment above it and the
  README say that such updates are picked up. The model assumes what inotify
  reports for a rename in a watched directory: the names in that directory.
* `config_reload_timeout`: `WriteTimeout` is computed once, each request's budget
  from the current config.
* `alert_batch_uniform`: a summary template can fail on some groups only, and one
  such group unmerges the whole payload.
* `config_check`: `check` never builds the aggregator. A config whose
  `aggregation.output` template does not parse passes `check`, and `serve` does not
  start with it, although `docs/configuration.md:357` says to validate any config that way.

Met while modelling, without a run of their own:

* A reload without `server.tls` is accepted, and from then on every handshake on a
  TLS listener fails (the guard `handshake` of `ConfigReload`), while
  `docs/configuration.md:36` says that a reload cannot turn TLS off.
* `nrdp_webhook_mapping_unmatched_total` also counts alerts whose rule matched and
  failed to render (`SkipUnmatched`), which `docs/configuration.md:368` does not say;
  `nrdp_webhook_duplicate_checkresults_total` counts, with aggregation off, alerts
  that are not merged (`KeepEntry`), which `docs/configuration.md:370` says they are.
* The heartbeat loop sees a reload when its timer fires, which may be after the
  interval of a config replaced long ago, and not within `idleInterval` as the
  comment at `heartbeat.go:33` has it. How much later is `BeatsFollowReload`.
* `WriteTimeout` and Alertmanager's own timeout leave a detached submission of an
  older state at work. If it is the last to be applied, and the newer state is a
  resolved one that was acknowledged, nothing sends that again: the check stays in
  the older state. `StepBackIsStray` says which POSTs this takes; `FiringIsShown`
  is about firing alerts, which Alertmanager repeats.
* A firing alert whose 200 was never heard, but whose POST was applied, and that
  resolves before any notification of it is acknowledged: Alertmanager has nothing to
  resolve, and the check stays. `Flush` shows why: it needs `truth` or `acked`
  in `Firing`.
* A 200 from NRDP without a `<status>` counts as success (`status` decodes to 0),
  while `docs/nrdp.md:62` calls anything but a status of 0 an error.
* `docs/configuration.md:62` calls `nrdp.token` required, and `Parse` rejects an unset
  variable lest an empty token reach Nagios (`config.go:265`). A config that leaves the
  token out is loaded all the same. `LoadsExactlyRight` is stated for the code as it
  is: right by `fileRight`, with a token or without.
* `test` ends with an error when the summary template fails on the sample
  (`test.go:88-91`), where `serve` submits the results unmerged; the comment above says
  that it merges exactly as the server would. `DryRunsAgree` has this as one of the two
  grounds on which `test` may refuse a config that serves.
* A heartbeat host of semicolons only passes validation and is submitted as an
  empty name; `beat` does not look at the sanitized name as `Build` does.
* Very large `nrdp.timeout` or `nrdp.retries` overflow the 64-bit budget of a
  submission, whose deadline is then over before it begins; validation has no
  upper limit. The durations of `NrdpClient` are unbounded numbers.
* A summary template that renders to nothing is submitted as an empty output.
* An edit between the initial load and the moment the directory is watched is not
  seen until the next trigger.

## 7. What is not modelled

* **The start** of the server before `watchReload` runs: a SIGHUP before its
  `signal.Notify` ends the process and is not in the model.
* **Decoding** of payloads and YAML, environment expansion, durations, PEM files:
  data, whose only consequence is whether a payload or a config is accepted.
* **Several checks in one payload** in `Delivery`: a batch is one POST, so the checks
  of a payload go the same way. `Delivery` follows one of them; what becomes of a
  payload is in `AlertBatch`.
* **fsnotify's internals**: nobody receives from its error channel; whether that can
  block its event channel depends on the library.
* **Logging, output text (`SanitizeOutput`, XML encoding), the identifiers and list of a
  summary, what `test` prints**: no property is about their wording.
* **Metrics** other than the counters of the alerts: each repeats a verdict that is
  modelled.
* **Helm chart, image**: deployment; the mount of the ConfigMap is the environment
  of `ConfigReload`.

## 8. The plan

Done, in this order, because it decides whether alerts arrive: `NrdpClient` with its
contract, `StateResolver` with `StateMapping`, `AlertBatch`, `ConfigReload`,
`Heartbeat`, `MappingRules`; then their composition seen from Alertmanager, `Delivery` with `AtLeastOnce`, and
`ConfigLoad`, on which all of them rely; then the proofs of their safety properties.
Left, most useful first:

1. The submission budget in 64-bit integers.
2. A second check in `Delivery`, and payloads Alertmanager truncates.
3. `ConfigReload` with the watch loop alone as the refinement of a register that only
   moves forward; `NoStepBack` is its safety half.
