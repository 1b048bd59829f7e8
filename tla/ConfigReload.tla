---------------------------- MODULE ConfigReload ----------------------------
(***************************************************************************)
(* How a running `serve` keeps up with its config file                     *)
(* (cmd/nrdp-webhook/serve.go): applyConfig, run by the watchReload loop   *)
(* and by any number of POST /-/reload handlers at once, the file and      *)
(* signal notifications that drive the loop, and the requests that use     *)
(* whatever config is current.                                             *)
(*                                                                         *)
(* It begins after the initial load and the setup of the listener, when    *)
(* watchReload has been started, and leaves out the shutdown.  The file    *)
(* system, inotify and the signals are external.                           *)
(***************************************************************************)
EXTENDS Integers, Sequences

CONSTANTS Posts,        \* handlers of POST /-/reload that can run at a time
          Requests,     \* handlers of POST /webhook that can run at a time
          Budgets,      \* submission budgets the configs lead to
          TlsChoices,   \* whether the configs have a server.tls section
          WriteSlack,   \* what WriteTimeout has beyond the initial budget
          MaxRev        \* bound: changes of the file

watch == "watch"        \* the watchReload loop
Reloaders == Posts \cup {watch}

ASSUME ReloadAssumption ==
    /\ watch \notin Posts
    /\ Budgets \subseteq Nat
    /\ TlsChoices \subseteq BOOLEAN
    /\ WriteSlack \in Nat \ {0}
    /\ MaxRev \in Nat

\* What the config file holds: its revision, whether it is all there or still
\* being written, whether buildState accepts it, and what it says.
Contents == [rev : 0 .. MaxRev, whole : BOOLEAN, loads : BOOLEAN,
             tls : TlsChoices, budget : Budgets]
NoContent == [rev |-> -1, whole |-> FALSE, loads |-> FALSE]

VARIABLES disk,         \* the content of the config file
          dirWatch,     \* inotify watches the directory of the file
          events,       \* directory events watchReload has not received
          hup,          \* a SIGHUP waits in the channel of capacity 1
          pc,           \* pc[p]: where reloader p is
          got,          \* got[p]: the content p has built a state from
          current,      \* server.current: what the served state was built from
          initial,      \* initialCfg, from which the listener was set up
          phase,        \* phase[q]: where webhook request q is
          pinned,       \* pinned[q]: the state ServeHTTP took for q
          used,         \* history: used[q], what q's parts were taken from
          latest,       \* history: the newest revision a reload has applied
          crossed,      \* history: the reloaders whose run overlaps another's
          mixed,        \* history: one of them was the last to store
          notice        \* history: how the file's content became known

overlaps  == <<crossed, mixed>>
reloading == <<pc, got, current, latest, overlaps>>
serving   == <<phase, pinned, used>>
files     == <<disk, events>>
vars == <<files, dirWatch, hup, reloading, initial, serving, notice>>

Phases == {"idle", "mapping", "submitting"}

\* "unknown": the loop has no way of knowing.  "directory": something happened
\* in the watched directory.  "trigger": a reload will be triggered.
Notices == {"unknown", "directory", "trigger"}

Init == /\ disk \in {c \in Contents : c.rev = 0 /\ c.whole /\ c.loads}
        /\ current = disk
        /\ initial = disk
        /\ latest = 0
        /\ crossed = {}
        /\ mixed = FALSE
        /\ dirWatch = FALSE
        /\ events = <<>>
        /\ hup = FALSE
        /\ pc = [p \in Reloaders |-> IF p = watch THEN "starting" ELSE "idle"]
        /\ got = [p \in Reloaders |-> NoContent]
        /\ phase = [q \in Requests |-> "idle"]
        /\ pinned = [q \in Requests |-> NoContent]
        /\ used = [q \in Requests |-> {}]
        /\ notice = "unknown"

-----------------------------------------------------------------------------
(* The config file, the directory watch and SIGHUP: external.              *)

\* The file has a new content; a watch on the directory reports the name that
\* changed in it.
change(c, name) == /\ disk.rev < MaxRev
                   /\ c.rev = disk.rev + 1
                   /\ disk' = c
                   /\ events' = IF dirWatch THEN Append(events, name) ELSE events
                   /\ notice' = IF ~ dirWatch THEN "unknown"
                                ELSE IF name = "config" THEN "trigger"
                                ELSE "directory"
                   /\ UNCHANGED <<dirWatch, hup, reloading, initial, serving>>

\* An editor truncates the file or writes part of it.  What is there may by
\* chance be a loadable config of its own.
WritePart == \E c \in Contents : ~ c.whole /\ change(c, "config")

\* An editor writes the rest of the file, or replaces the file in one go.
WriteWhole == \E c \in Contents : c.whole /\ change(c, "config")

\* A ConfigMap volume is updated: ..data is renamed over, and the file, a link
\* through it, changes without an event of its own.
SwapData == \E c \in Contents : disk.whole /\ c.whole /\ change(c, "..data")

\* Faulty variant: the channel has no buffer, so the runtime drops a signal
\* that comes while the loop is not at its select.
SighupUnbuffered == /\ pc[watch] # "starting"
                    /\ hup' = (pc[watch] = "idle")
                    /\ notice' = "trigger"
                    /\ UNCHANGED <<files, dirWatch, reloading, initial, serving>>

\* SIGHUP, once signal.Notify has been called (before, it ends the process).
\* The runtime drops it if one is waiting already.
Sighup == /\ pc[watch] # "starting"
          /\ hup' = TRUE
          /\ notice' = "trigger"
          /\ UNCHANGED <<files, dirWatch, reloading, initial, serving>>

-----------------------------------------------------------------------------
(* watchReload.                                                            *)

go(p, place) == pc' = [pc EXCEPT ![p] = place]

Busy == {p \in Reloaders : pc[p] \in {"read", "store"}}

\* A run of applyConfig begins.
begin(p) == /\ go(p, "read")
            /\ crossed' = IF Busy = {} THEN crossed \ {p}
                          ELSE crossed \cup Busy \cup {p}
            /\ UNCHANGED mixed

\* signal.Notify.
StartHup == /\ pc[watch] = "starting"
            /\ go(watch, "adding")
            /\ UNCHANGED <<files, dirWatch, hup, got, current, latest, overlaps,
                           initial, serving, notice>>

\* The directory is watched from here on, or the watch fails with a warning.
StartWatch == /\ pc[watch] = "adding"
              /\ go(watch, "idle")
              /\ dirWatch' \in BOOLEAN
              /\ UNCHANGED <<files, hup, got, current, latest, overlaps,
                             initial, serving, notice>>

\* case <-hup
TakeHup == /\ pc[watch] = "idle"
           /\ hup
           /\ hup' = FALSE
           /\ begin(watch)
           /\ UNCHANGED <<files, dirWatch, got, current, latest, initial,
                          serving, notice>>

\* case ev := <-events: only events with the base name of the file count.
TakeEvent == /\ pc[watch] = "idle"
             /\ events # <<>>
             /\ events' = Tail(events)
             /\ \/ Head(events) = "config" /\ begin(watch)
                \/ Head(events) # "config" /\ UNCHANGED <<pc, overlaps>>
             /\ UNCHANGED <<disk, dirWatch, hup, got, current, latest, initial,
                            serving, notice>>

-----------------------------------------------------------------------------
(* POST /-/reload and applyConfig, which nothing keeps from running twice   *)
(* at the same time.                                                        *)

PostReload(p) == /\ pc[p] = "idle"
                 /\ begin(p)
                 /\ notice' = "trigger"
                 /\ UNCHANGED <<files, dirWatch, hup, got, current, latest,
                                initial, serving>>

\* Faulty variant: the pointer is stored before the error is looked at.
BuildStoresNil(p) == /\ pc[p] = "read"
                     /\ IF disk.loads
                        THEN /\ got' = [got EXCEPT ![p] = disk]
                             /\ go(p, "store")
                             /\ UNCHANGED current
                        ELSE /\ go(p, "idle")
                             /\ current' = NoContent
                             /\ UNCHANGED got
                     /\ UNCHANGED <<files, dirWatch, hup, latest, overlaps,
                                    initial, serving, notice>>

\* Faulty variant: the error of a failed build is only logged.
BuildUnchecked(p) == /\ pc[p] = "read"
                     /\ got' = [got EXCEPT ![p] = disk]
                     /\ go(p, "store")
                     /\ UNCHANGED <<files, dirWatch, hup, current, latest, overlaps,
                                    initial, serving, notice>>

\* Faulty variant: a failed reload falls back to the config of the start.
BuildFallsBack(p) == /\ pc[p] = "read"
                     /\ IF disk.loads
                        THEN /\ got' = [got EXCEPT ![p] = disk]
                             /\ go(p, "store")
                             /\ UNCHANGED current
                        ELSE /\ go(p, "idle")
                             /\ current' = initial
                             /\ UNCHANGED got
                     /\ UNCHANGED <<files, dirWatch, hup, latest, overlaps,
                                    initial, serving, notice>>

\* buildState: read the file and build a state, which fails or is to be stored.
Build(p) == /\ pc[p] = "read"
            /\ IF disk.loads
               THEN /\ got' = [got EXCEPT ![p] = disk]
                    /\ go(p, "store")
               ELSE /\ go(p, "idle")
                    /\ UNCHANGED got
            /\ UNCHANGED <<files, dirWatch, hup, current, latest, overlaps,
                           initial, serving, notice>>

\* current.Store: the reload has succeeded.
Store(p) == /\ pc[p] = "store"
            /\ current' = got[p]
            /\ latest' = IF got[p].rev > latest THEN got[p].rev ELSE latest
            /\ got' = [got EXCEPT ![p] = NoContent]
            /\ mixed' = (p \in crossed)
            /\ go(p, "idle")
            /\ UNCHANGED <<files, dirWatch, hup, crossed, initial, serving,
                           notice>>

-----------------------------------------------------------------------------
(* Webhook requests.                                                       *)

\* A TLS listener asks for the certificate of the current config on every
\* handshake.
handshake == initial.tls => current.tls

\* ServeHTTP takes the current state; its auth config decides on the request.
Arrive(q) == /\ phase[q] = "idle"
             /\ handshake
             /\ phase' = [phase EXCEPT ![q] = "mapping"]
             /\ pinned' = [pinned EXCEPT ![q] = current]
             /\ used' = [used EXCEPT ![q] = {current}]
             /\ UNCHANGED <<files, dirWatch, hup, reloading, initial, notice>>

\* The alerts go through the engine, the resolver and the aggregator.
MapAlerts(q) == /\ phase[q] = "mapping"
                /\ phase' = [phase EXCEPT ![q] = "submitting"]
                /\ used' = [used EXCEPT ![q] = @ \cup {pinned[q]}]
                /\ UNCHANGED <<files, dirWatch, hup, reloading, initial,
                               pinned, notice>>

\* Faulty variant: the client is looked up when it is needed.
SubmitLatest(q) == /\ phase[q] = "submitting"
                   /\ phase' = [phase EXCEPT ![q] = "idle"]
                   /\ used' = [used EXCEPT ![q] = @ \cup {current}]
                   /\ UNCHANGED <<files, dirWatch, hup, reloading, initial,
                                  pinned, notice>>

\* The client and the budget of the same state submit the batch.
Submit(q) == /\ phase[q] = "submitting"
             /\ phase' = [phase EXCEPT ![q] = "idle"]
             /\ used' = [used EXCEPT ![q] = @ \cup {pinned[q]}]
             /\ UNCHANGED <<files, dirWatch, hup, reloading, initial,
                            pinned, notice>>

-----------------------------------------------------------------------------
Watcher == StartHup \/ StartWatch \/ TakeHup \/ TakeEvent
           \/ Build(watch) \/ Store(watch)
Post(p) == Build(p) \/ Store(p)
Request(q) == Arrive(q) \/ MapAlerts(q) \/ Submit(q)

Next == \/ WritePart \/ WriteWhole \/ SwapData \/ Sighup
        \/ Watcher
        \/ \E p \in Posts : PostReload(p) \/ Post(p)
        \/ \E q \in Requests : Request(q)

Spec == Init /\ [][Next]_vars

\* A goroutine that can run does.  Nothing is assumed of the operator.
Fairness == WF_vars(Watcher) /\ \A p \in Posts : WF_vars(Post(p))

FairSpec == Spec /\ Fairness

-----------------------------------------------------------------------------
TypeOK == /\ disk \in Contents
          /\ dirWatch \in BOOLEAN
          /\ events \in Seq({"config", "..data"})
          /\ hup \in BOOLEAN
          /\ pc \in [Reloaders -> {"starting", "adding", "idle", "read", "store"}]
          /\ got \in [Reloaders -> Contents \cup {NoContent}]
          /\ current \in Contents
          /\ initial \in Contents
          /\ phase \in [Requests -> Phases]
          /\ pinned \in [Requests -> Contents \cup {NoContent}]
          /\ used \in [Requests -> SUBSET Contents]
          /\ latest \in 0 .. MaxRev
          /\ crossed \in SUBSET Reloaders
          /\ mixed \in BOOLEAN
          /\ notice \in Notices

\* Whatever the file goes through, broken or half-written, and however many
\* reloads run, the server serves a config that buildState has accepted, and
\* so does every request that took one earlier.
ServedConfigLoads == /\ current.loads
                     /\ \A q \in Requests : phase[q] # "idle" => pinned[q].loads

\* A request is authenticated, mapped and submitted by one and the same config,
\* even if reloads store others meanwhile: "never a mix of an old engine with a
\* new client".
OneGeneration == \A q \in Requests : \A c, d \in used[q] : c = d

\* Once a reload that ran by itself has stored its config, the server has the
\* newest config any reload has applied, even if reloads that overlapped had put
\* an older one in its place; it stays so until reloads overlap again.
LoneReloadRepairs == mixed \/ latest <= current.rev

\* Once a reload of the file as it now stands has been triggered, by an event,
\* a signal or a request, the server comes to serve it, unless reloads overlap:
\* no trigger is lost while a reload is running, and a half-written file that
\* loaded by chance does not stay.
TriggeredLoads ==
    (notice = "trigger" /\ disk.loads)
        ~> (current = disk \/ mixed \/ ~ disk.loads \/ notice # "trigger")

-----------------------------------------------------------------------------
(* What comments say, and the code does not do.                            *)

\* "an auth or mapping change from a reload takes effect on the next request
\* without a restart" (cmd/nrdp-webhook/serve.go:127): the server does not go
\* back to a config older than one that a reload has applied.
TakesEffect == latest <= current.rev

\* "watchReload triggers reload on SIGHUP and on changes to the config file's
\* parent directory (a ConfigMap volume update replaces the file via a symlink
\* swap ...)" (cmd/nrdp-webhook/serve.go:270): a content that came with an event
\* in the watched directory is loaded.
WatchedChangesLoad ==
    (notice # "unknown" /\ disk.loads)
        ~> (current = disk \/ ~ disk.loads \/ notice = "unknown")

\* "WriteTimeout has to clear the worst-case handler, which is dominated by the
\* NRDP submission budget, or a slow Nagios would cut the response short"
\* (cmd/nrdp-webhook/serve.go:208).
WriteTimeoutClears ==
    \A q \in Requests :
        phase[q] # "idle" => pinned[q].budget < initial.budget + WriteSlack
=============================================================================
