------------------------- MODULE ConfigReloadProofs -------------------------
(***************************************************************************)
(* What holds of the server's config for any number of reloads and         *)
(* requests that run at the same time, and for any history of the file.    *)
(***************************************************************************)
EXTENDS ConfigReload, SequenceTheorems, TLAPS

\* What a reloader is about to store has been accepted by buildState.
BuiltInv == \A p \in Reloaders : pc[p] = "store" => got[p] \in Contents /\ got[p].loads

\* A request has used nothing but what it took on arrival.
RequestInv == \A q \in Requests :
                 /\ used[q] \subseteq {pinned[q]}
                 /\ phase[q] # "idle" => pinned[q] \in Contents /\ pinned[q].loads

\* The inductive invariant behind the three theorems on any number of reloaders.
ServingInv == TypeOK /\ BuiltInv /\ RequestInv /\ current.loads

\* Why a reload that runs by itself brings the newest config: nothing is newer
\* than the file, and nobody stores between its read and its own store.
LoneInv == /\ latest <= disk.rev
           /\ LoneReloadRepairs
           /\ \A p \in Reloaders : pc[p] = "store" => got[p].rev <= disk.rev
           /\ \A p \in Reloaders :
                 pc[p] = "store" /\ p \notin crossed => latest <= got[p].rev
           /\ \A p, q \in Busy : p # q => p \in crossed

\* A reload is yet to read the file: a signal or an event waits for the loop, or
\* a run of applyConfig has just begun.
Queued == \E i \in 1 .. Len(events) : events[i] = "config"
Awaited == hup \/ Queued \/ \E p \in Reloaders : pc[p] = "read"

\* A state built from the file as it stands is about to be stored.
InHand == \E p \in Reloaders : pc[p] = "store" /\ got[p] = disk

\* Once a reload of the file as it now stands has been triggered, the server
\* serves it or a reload that will read or store it is under way: a signal that
\* finds the channel full, an event behind others in the queue, or a request
\* during another reload is not lost.  Only reloads that overlap can undo it.
NoTriggerLost ==
    notice = "trigger" /\ disk.loads /\ ~ mixed
        => current = disk \/ Awaited \/ InHand

\* Why it is not lost: what a reload that nobody overlaps has built from an older
\* file is not the last word, as something else is to be read.
TriggerInv ==
    notice = "trigger" /\ disk.loads =>
        /\ current = disk \/ mixed \/ Awaited \/ InHand
        /\ \A p \in Reloaders :
              pc[p] = "store" /\ p \notin crossed => got[p] = disk \/ Awaited

-----------------------------------------------------------------------------
(* One lemma for each kind of step.                                        *)

\* The empty queue, and the queue with one more name.
LEMMA Queues ==
    /\ <<>> \in Seq({"config", "..data"})
    /\ \A name \in {"config", "..data"} : \A s \in Seq({"config", "..data"}) :
          Append(s, name) \in Seq({"config", "..data"})
  BY EmptySeq, AppendProperties

\* The file changes.
LEMMA FileStep ==
    ASSUME ServingInv, WritePart \/ WriteWhole \/ SwapData
    PROVE  ServingInv'
<1>1. PICK c \in Contents, name \in {"config", "..data"} : change(c, name)
  BY DEF WritePart, WriteWhole, SwapData
<1>2. events' \in Seq({"config", "..data"})
  BY <1>1, Queues DEF change, ServingInv, TypeOK
<1>3. notice' \in Notices
  BY <1>1 DEF change, Notices
<1> QED BY <1>1, <1>2, <1>3
        DEF change, reloading, overlaps, serving, ServingInv, TypeOK, BuiltInv, RequestInv

\* A signal, or the start of the loop.
LEMMA SignalStep ==
    ASSUME ServingInv, Sighup \/ StartHup \/ StartWatch
    PROVE  ServingInv'
<1>1. CASE Sighup
  BY <1>1 DEF Sighup, files, reloading, overlaps, serving, ServingInv, TypeOK, BuiltInv,
              RequestInv, Notices
<1>2. CASE StartHup
  BY <1>2 DEF StartHup, go, files, overlaps, serving, ServingInv, TypeOK, BuiltInv, RequestInv
<1>3. CASE StartWatch
  BY <1>3 DEF StartWatch, go, files, overlaps, serving, ServingInv, TypeOK, BuiltInv, RequestInv
<1> QED BY <1>1, <1>2, <1>3

\* A run of applyConfig begins.
LEMMA BeginStep ==
    ASSUME ServingInv, NEW p \in Reloaders, begin(p)
    PROVE  /\ pc' \in [Reloaders -> {"starting", "adding", "idle", "read", "store"}]
           /\ pc' = [pc EXCEPT ![p] = "read"]
           /\ crossed' \in SUBSET Reloaders
           /\ mixed' = mixed
BY DEF begin, go, Busy, ServingInv, TypeOK

\* The loop takes a signal or an event, or a POST /-/reload begins.
LEMMA TriggerStep ==
    ASSUME ServingInv, TakeHup \/ TakeEvent \/ \E p \in Posts : PostReload(p)
    PROVE  ServingInv'
<1>1. CASE TakeHup
  <2>1. begin(watch) /\ watch \in Reloaders
    BY <1>1 DEF TakeHup, Reloaders
  <2> QED BY <1>1, <2>1, BeginStep
          DEF TakeHup, files, serving, ServingInv, TypeOK, BuiltInv, RequestInv
<1>2. CASE TakeEvent
  <2>1. events' \in Seq({"config", "..data"})
    BY <1>2, HeadTailProperties DEF TakeEvent, ServingInv, TypeOK
  <2>2. CASE begin(watch)
    BY <1>2, <2>1, <2>2, BeginStep
       DEF TakeEvent, Reloaders, serving, ServingInv, TypeOK, BuiltInv, RequestInv
  <2>3. CASE UNCHANGED <<pc, overlaps>>
    BY <1>2, <2>1, <2>3
       DEF TakeEvent, overlaps, serving, ServingInv, TypeOK, BuiltInv, RequestInv
  <2> QED BY <1>2, <2>2, <2>3 DEF TakeEvent
<1>3. ASSUME NEW p \in Posts, PostReload(p) PROVE ServingInv'
  <2>1. begin(p) /\ p \in Reloaders
    BY <1>3 DEF PostReload, Reloaders
  <2> QED BY <1>3, <2>1, BeginStep
          DEF PostReload, files, serving, ServingInv, TypeOK, BuiltInv,
              RequestInv, Notices
<1> QED BY <1>1, <1>2, <1>3

\* A reloader builds a state or fails to.
LEMMA BuildStep ==
    ASSUME ServingInv, NEW p \in Reloaders, Build(p)
    PROVE  ServingInv'
<1>1. CASE disk.loads
  BY <1>1 DEF Build, go, files, overlaps, serving, ServingInv, TypeOK, BuiltInv, RequestInv
<1>2. CASE ~ disk.loads
  BY <1>2 DEF Build, go, files, overlaps, serving, ServingInv, TypeOK, BuiltInv, RequestInv
<1> QED BY <1>1, <1>2

\* A reloader stores its state.
LEMMA StoreStep ==
    ASSUME ServingInv, NEW p \in Reloaders, Store(p)
    PROVE  ServingInv'
<1>1. got[p] \in Contents /\ got[p].loads
  BY DEF Store, ServingInv, BuiltInv
<1>2. latest' \in 0 .. MaxRev
  <2>1. got[p].rev \in 0 .. MaxRev
    BY <1>1 DEF Contents
  <2> QED BY <2>1 DEF Store, ServingInv, TypeOK
<1>3. got' \in [Reloaders -> Contents \cup {NoContent}]
  BY DEF Store, ServingInv, TypeOK
<1>4. pc' \in [Reloaders -> {"starting", "adding", "idle", "read", "store"}]
  BY DEF Store, go, ServingInv, TypeOK
<1>5. TypeOK'
  BY <1>1, <1>2, <1>3, <1>4 DEF Store, files, serving, ServingInv, TypeOK
<1>6. BuiltInv'
  BY DEF Store, go, ServingInv, TypeOK, BuiltInv
<1> QED BY <1>1, <1>5, <1>6 DEF Store, serving, ServingInv, RequestInv

\* A webhook request arrives, is mapped or is submitted.
LEMMA RequestStep ==
    ASSUME ServingInv, NEW q \in Requests, Request(q)
    PROVE  ServingInv'
<1>0. UNCHANGED <<files, dirWatch, hup, reloading, initial, notice>>
  BY DEF Request, Arrive, MapAlerts, Submit
<1>1. CASE Arrive(q)
  <2>1. /\ phase' \in [Requests -> Phases]
        /\ pinned' \in [Requests -> Contents \cup {NoContent}]
        /\ used' \in [Requests -> SUBSET Contents]
    BY <1>1 DEF Arrive, ServingInv, TypeOK, Phases
  <2>2. RequestInv'
    BY <1>1 DEF Arrive, ServingInv, TypeOK, RequestInv
  <2> QED BY <1>0, <2>1, <2>2 DEF files, reloading, overlaps, ServingInv, TypeOK, BuiltInv
<1>2. CASE MapAlerts(q)
  <2>1. phase[q] # "idle" /\ pinned[q] \in Contents
    BY <1>2 DEF MapAlerts, ServingInv, RequestInv
  <2>2. /\ phase' \in [Requests -> Phases]
        /\ used' \in [Requests -> SUBSET Contents]
    BY <1>2, <2>1 DEF MapAlerts, ServingInv, TypeOK, Phases
  <2>3. RequestInv'
    BY <1>2, <2>1 DEF MapAlerts, ServingInv, TypeOK, RequestInv
  <2> QED BY <1>0, <1>2, <2>2, <2>3
          DEF MapAlerts, files, reloading, overlaps, ServingInv, TypeOK, BuiltInv
<1>3. CASE Submit(q)
  <2>1. phase[q] # "idle" /\ pinned[q] \in Contents
    BY <1>3 DEF Submit, ServingInv, RequestInv
  <2>2. /\ phase' \in [Requests -> Phases]
        /\ used' \in [Requests -> SUBSET Contents]
    BY <1>3, <2>1 DEF Submit, ServingInv, TypeOK, Phases
  <2>3. RequestInv'
    BY <1>3, <2>1 DEF Submit, ServingInv, TypeOK, RequestInv
  <2> QED BY <1>0, <1>3, <2>2, <2>3
          DEF Submit, files, reloading, overlaps, ServingInv, TypeOK, BuiltInv
<1> QED BY <1>1, <1>2, <1>3 DEF Request

\* The server serves an accepted config from the start, and every step keeps
\* it so.
LEMMA ServingInvariant == Spec => []ServingInv
<1>1. Init => ServingInv
  <2> SUFFICES ASSUME Init PROVE ServingInv
    OBVIOUS
  <2>1. TypeOK
    <3>1. disk \in Contents /\ current \in Contents /\ initial \in Contents
      BY DEF Init
    <3>2. latest \in 0 .. MaxRev
      BY ReloadAssumption, SMT DEF Init
    <3>3. pc \in [Reloaders -> {"starting", "adding", "idle", "read", "store"}]
      BY DEF Init
    <3>4. events \in Seq({"config", "..data"})
      BY Queues DEF Init
    <3> QED BY <3>1, <3>2, <3>3, <3>4 DEF Init, TypeOK, Phases, Notices
  <2> QED BY <2>1 DEF Init, ServingInv, BuiltInv, RequestInv
<1>2. ServingInv /\ [Next]_vars => ServingInv'
  <2> SUFFICES ASSUME ServingInv, [Next]_vars PROVE ServingInv'
    OBVIOUS
  <2>1. CASE UNCHANGED vars
    BY <2>1 DEF vars, files, reloading, overlaps, serving, ServingInv, TypeOK,
                BuiltInv, RequestInv
  <2>2. CASE Watcher
    BY <2>2, SignalStep, TriggerStep, BuildStep, StoreStep DEF Watcher, Reloaders
  <2>3. ASSUME NEW p \in Posts, Post(p) PROVE ServingInv'
    BY <2>3, BuildStep, StoreStep DEF Post, Reloaders
  <2> QED BY <2>1, <2>2, <2>3, FileStep, SignalStep, TriggerStep, RequestStep
          DEF Next
<1> QED BY <1>1, <1>2, PTL DEF Spec

-----------------------------------------------------------------------------
(* The theorems.                                                           *)

\* Every variable keeps its type; in particular there is always a config.
THEOREM TypeCorrect == Spec => []TypeOK
<1>1. ServingInv => TypeOK
  BY DEF ServingInv
<1> QED BY <1>1, ServingInvariant, PTL

\* A config that buildState has rejected is never served, whatever happens to
\* the file and however many reloads overlap.
THEOREM OnlyAcceptedConfigs == Spec => []ServedConfigLoads
<1>1. ServingInv => ServedConfigLoads
  BY DEF ServingInv, RequestInv, ServedConfigLoads
<1> QED BY <1>1, ServingInvariant, PTL

\* A request never mixes the parts of two configs.
THEOREM RequestsAreConsistent == Spec => []OneGeneration
<1>1. ServingInv => OneGeneration
  BY DEF ServingInv, RequestInv, OneGeneration
<1> QED BY <1>1, ServingInvariant, PTL

\* One kind of step after the other, LoneInv is kept.
LEMMA LoneStep ==
    ASSUME ServingInv, LoneInv, [Next]_vars
    PROVE  LoneInv'
<1>0. /\ disk.rev \in Int /\ current.rev \in Int /\ latest \in Int
      /\ watch \in Reloaders /\ Posts \subseteq Reloaders
      /\ \A p \in Reloaders : pc[p] = "store" => got[p].rev \in Int
  BY SMT DEF ServingInv, TypeOK, BuiltInv, Contents, Reloaders
<1>1. CASE WritePart \/ WriteWhole \/ SwapData
  <2>1. PICK c \in Contents, name \in {"config", "..data"} : change(c, name)
    BY <1>1 DEF WritePart, WriteWhole, SwapData
  <2>2. disk'.rev = disk.rev + 1 /\ UNCHANGED <<pc, got, current, latest, overlaps>>
    BY <2>1 DEF change, reloading
  <2> QED BY <1>0, <2>2, SMT DEF LoneInv, LoneReloadRepairs, Busy, overlaps
<1>2. CASE \/ Sighup \/ StartHup \/ StartWatch
           \/ \E q \in Requests : Request(q)
  <2>1. /\ UNCHANGED <<disk, got, current, latest, overlaps>>
        /\ \/ UNCHANGED pc
           \/ /\ pc[watch] \in {"starting", "adding"}
              /\ pc' = [pc EXCEPT ![watch] = pc'[watch]]
              /\ pc'[watch] \in {"adding", "idle"}
    BY <1>0, <1>2 DEF Sighup, StartHup, StartWatch, Request, Arrive, MapAlerts,
                      Submit, files, reloading, go, ServingInv, TypeOK
  <2>2. pc \in [Reloaders -> {"starting", "adding", "idle", "read", "store"}]
    BY DEF ServingInv, TypeOK
  <2>3. Busy' = Busy /\ \A p \in Reloaders : pc'[p] = "store" => pc[p] = "store"
    BY <2>1, <2>2 DEF Busy
  <2> QED BY <2>1, <2>3 DEF LoneInv, LoneReloadRepairs, overlaps
<1>3. ASSUME NEW p \in Reloaders, begin(p), pc[p] = "idle",
             UNCHANGED <<disk, got, current, latest>>
      PROVE  LoneInv'
  <2>1. pc \in [Reloaders -> {"starting", "adding", "idle", "read", "store"}]
    BY DEF ServingInv, TypeOK
  <2>2. /\ mixed' = mixed
        /\ Busy' = Busy \cup {p}
        /\ \A q \in Reloaders : pc'[q] = "store" => pc[q] = "store" /\ q \in Busy
    BY <1>3, <2>1 DEF begin, go, Busy
  <2>3. \A q \in Busy : q \in crossed'
    BY <1>3 DEF begin
  <2>4. \A q, r \in Busy' : q # r => q \in crossed'
    BY <1>3, <2>2, <2>3 DEF begin
  <2> QED BY <1>3, <2>2, <2>3, <2>4 DEF LoneInv, LoneReloadRepairs
<1>4. CASE TakeHup \/ TakeEvent \/ \E p \in Posts : PostReload(p)
  <2>1. UNCHANGED <<disk, got, current, latest>>
    BY <1>4 DEF TakeHup, TakeEvent, PostReload, files
  <2>2. CASE \E p \in Reloaders : pc[p] = "idle" /\ begin(p)
    BY <1>3, <2>1, <2>2
  <2>3. CASE UNCHANGED <<pc, overlaps>>
    BY <2>1, <2>3 DEF LoneInv, LoneReloadRepairs, Busy, overlaps
  <2> QED BY <1>0, <1>4, <2>2, <2>3 DEF TakeHup, TakeEvent, PostReload
<1>5. ASSUME NEW p \in Reloaders, Build(p) PROVE LoneInv'
  <2>1. pc \in [Reloaders -> {"starting", "adding", "idle", "read", "store"}]
    BY DEF ServingInv, TypeOK
  <2>2. UNCHANGED <<disk, current, latest, overlaps>>
    BY <1>5 DEF Build, files
  <2>3. Busy' \subseteq Busy
    BY <1>5, <2>1 DEF Build, go, Busy
  <2>4. \A q \in Reloaders : pc'[q] = "store" =>
           \/ pc[q] = "store" /\ got'[q] = got[q]
           \/ got'[q] = disk
    BY <1>5, <2>1 DEF Build, go, ServingInv, TypeOK
  <2> QED BY <1>0, <2>2, <2>3, <2>4, SMT DEF LoneInv, LoneReloadRepairs, overlaps
<1>6. ASSUME NEW p \in Reloaders, Store(p) PROVE LoneInv'
  <2>1. pc \in [Reloaders -> {"starting", "adding", "idle", "read", "store"}]
    BY DEF ServingInv, TypeOK
  <2>2. /\ current' = got[p] /\ disk' = disk /\ crossed' = crossed
        /\ latest' = IF got[p].rev > latest THEN got[p].rev ELSE latest
        /\ mixed' = (p \in crossed)
        /\ pc[p] = "store"
    BY <1>6 DEF Store, files
  <2>3. /\ Busy' = Busy \ {p}
        /\ \A q \in Reloaders : pc'[q] = "store" =>
              q # p /\ pc[q] = "store" /\ got'[q] = got[q] /\ q \in Busy
    BY <1>6, <2>1 DEF Store, go, Busy, ServingInv, TypeOK
  <2>4. latest' \in Int /\ latest' <= disk.rev
    BY <1>0, <2>2, SMT DEF LoneInv
  <2>5. p \in Busy /\ \A q \in Busy : q # p => q \in crossed
    BY <2>2 DEF Busy, LoneInv
  <2>6. p \notin crossed => latest' = got[p].rev
    BY <1>0, <2>2, SMT DEF LoneInv
  <2>7. mixed' \/ latest' <= current'.rev
    <3>1. CASE p \in crossed
      BY <2>2, <3>1
    <3>2. CASE p \notin crossed
      BY <1>0, <2>2, <2>6, <3>2, SMT
    <3> QED BY <3>1, <3>2
  <2> QED BY <2>2, <2>3, <2>4, <2>5, <2>7 DEF LoneInv, LoneReloadRepairs
<1>7. CASE UNCHANGED vars
  BY <1>7 DEF vars, files, reloading, overlaps, Busy, LoneInv, LoneReloadRepairs
<1> QED BY <1>0, <1>1, <1>2, <1>4, <1>5, <1>6, <1>7
        DEF Next, Watcher, Post, Reloaders

LEMMA LoneStart == Init => LoneInv
<1> SUFFICES ASSUME Init PROVE LoneInv
  OBVIOUS
<1>1. disk.rev = 0 /\ current.rev = 0 /\ latest = 0
  BY DEF Init
<1>2. \A p \in Reloaders : pc[p] \in {"starting", "idle"}
  BY DEF Init
<1> QED BY <1>1, <1>2, SMT DEF LoneInv, LoneReloadRepairs, Busy

\* A reload that runs by itself always leaves the newest config in place,
\* whatever overlapping reloads did before it.
THEOREM LoneReloads == Spec => []LoneReloadRepairs
<1>1. LoneInv => LoneReloadRepairs
  BY DEF LoneInv
<1> QED BY <1>1, LoneStart, LoneStep, ServingInvariant, PTL DEF Spec

-----------------------------------------------------------------------------
(* Triggers.                                                               *)

\* The signal, the queue and the readers decide on what is awaited.
LEMMA AwaitedKept ==
    ASSUME ServingInv, UNCHANGED <<disk, got, current, overlaps, notice>>,
           Awaited => Awaited',
           \A p \in Reloaders : pc'[p] = "store" <=> pc[p] = "store",
           TriggerInv
    PROVE  TriggerInv'
  BY DEF TriggerInv, InHand, overlaps

\* Names in the queue stay there as others join them.
LEMMA QueueGrows ==
    ASSUME ServingInv, NEW name \in {"config", "..data"},
           events' = Append(events, name)
    PROVE  /\ Queued => Queued'
           /\ name = "config" => Queued'
<1>1. /\ Len(events) \in Nat
      /\ Len(events') = Len(events) + 1
      /\ \A i \in 1 .. Len(events) : events'[i] = events[i]
      /\ events'[Len(events) + 1] = name
  BY LenProperties, AppendProperties DEF ServingInv, TypeOK
<1>2. PICK L : L = Len(events)
  OBVIOUS
<1>3. Len(events) + 1 \in 1 .. Len(events')
      /\ \A i \in 1 .. Len(events) : i \in 1 .. Len(events')
  <2>1. \A k \in Nat : k + 1 \in 1 .. k + 1 /\ \A i \in 1 .. k : i \in 1 .. k + 1
    OBVIOUS
  <2> QED BY <1>1, <2>1
<1> QED BY <1>1, <1>3 DEF Queued

\* The loop takes the first name, and the others stay.
LEMMA QueueShrinks ==
    ASSUME ServingInv, events # <<>>, events' = Tail(events), Queued,
           Head(events) # "config"
    PROVE  Queued'
<1>1. PICK i \in 1 .. Len(events) : events[i] = "config"
  BY DEF Queued
<1>2. /\ Len(events) \in Nat
      /\ Head(events) = events[1]
      /\ Len(Tail(events)) = Len(events) - 1
      /\ \A k \in 1 .. Len(Tail(events)) : Tail(events)[k] = events[k + 1]
  BY LenProperties, HeadTailProperties DEF ServingInv, TypeOK
<1>3. i # 1
  BY <1>1, <1>2
<1>4. i - 1 \in 1 .. Len(Tail(events)) /\ (i - 1) + 1 = i
  <2>1. \A L \in Nat : \A k \in 1 .. L : k # 1 => k - 1 \in 1 .. L - 1 /\ (k - 1) + 1 = k
    OBVIOUS
  <2> QED BY <1>1, <1>2, <1>3, <2>1
<1>5. Tail(events)[i - 1] = "config"
  BY <1>1, <1>2, <1>4
<1> QED BY <1>4, <1>5 DEF Queued

LEMMA TriggerInvStep ==
    ASSUME ServingInv, LoneInv, TriggerInv, [Next]_vars
    PROVE  TriggerInv'
<1>0. /\ pc \in [Reloaders -> {"starting", "adding", "idle", "read", "store"}]
      /\ watch \in Reloaders /\ Posts \subseteq Reloaders
  BY DEF ServingInv, TypeOK, Reloaders
<1>1. CASE WritePart \/ WriteWhole \/ SwapData
  <2>1. PICK c \in Contents, name \in {"config", "..data"} : change(c, name)
    BY <1>1 DEF WritePart, WriteWhole, SwapData
  <2>2. CASE notice' = "trigger"
    <3>1. events' = Append(events, "config")
      BY <2>1, <2>2 DEF change
    <3>2. Queued'
      BY <3>1, QueueGrows
    <3> QED BY <3>2 DEF TriggerInv, Awaited
  <2>3. CASE notice' # "trigger"
    BY <2>3 DEF TriggerInv
  <2> QED BY <2>2, <2>3
<1>2. CASE Sighup
  <2>1. Awaited'
    BY <1>2 DEF Sighup, Awaited
  <2> QED BY <2>1 DEF TriggerInv
<1>3. CASE StartHup \/ StartWatch
  <2>1. /\ UNCHANGED <<disk, events, hup, got, current, overlaps, notice>>
        /\ pc[watch] \in {"starting", "adding"}
        /\ \E place \in {"adding", "idle"} : pc' = [pc EXCEPT ![watch] = place]
    BY <1>3 DEF StartHup, StartWatch, go, files
  <2>2. \A p \in Reloaders : /\ pc'[p] = "store" <=> pc[p] = "store"
                             /\ pc[p] = "read" => pc'[p] = "read"
    BY <1>0, <2>1
  <2>3. Awaited => Awaited'
    BY <2>1, <2>2 DEF Awaited, Queued
  <2> QED BY <2>1, <2>2, <2>3, AwaitedKept
<1>4. ASSUME NEW p \in Reloaders, begin(p) PROVE Awaited'
  BY <1>0, <1>4 DEF begin, go, Awaited
<1>5. CASE TakeHup \/ \E p \in Posts : PostReload(p)
  BY <1>0, <1>4, <1>5 DEF TakeHup, PostReload, TriggerInv
<1>6. CASE TakeEvent
  <2>1. CASE begin(watch)
    BY <1>0, <1>4, <2>1 DEF TriggerInv
  <2>2. CASE Head(events) # "config" /\ UNCHANGED <<pc, overlaps>>
    <3>1. /\ UNCHANGED <<disk, hup, got, current, notice>>
          /\ events # <<>> /\ events' = Tail(events)
      BY <1>6 DEF TakeEvent
    <3>2. Awaited => Awaited'
      BY <2>2, <3>1, QueueShrinks DEF Awaited
    <3> QED BY <2>2, <3>1, <3>2, AwaitedKept
  <2> QED BY <1>6, <2>1, <2>2 DEF TakeEvent
<1>7. ASSUME NEW p \in Reloaders, Build(p) PROVE TriggerInv'
  <2>1. UNCHANGED <<disk, notice, crossed>>
    BY <1>7 DEF Build, files, overlaps
  <2>2. CASE ~ disk.loads
    BY <2>1, <2>2 DEF TriggerInv
  <2>3. CASE disk.loads
    <3>1. /\ pc[p] = "read"
          /\ got' = [got EXCEPT ![p] = disk] /\ pc' = [pc EXCEPT ![p] = "store"]
      BY <1>7, <2>3 DEF Build, go
    <3>2. got'[p] = disk /\ pc'[p] = "store"
      BY <1>0, <3>1 DEF ServingInv, TypeOK
    <3>3. InHand'
      BY <2>1, <3>2 DEF InHand
    <3>4. \A q \in Reloaders : pc'[q] = "store" /\ q \notin crossed' => got'[q] = disk'
      <4> SUFFICES ASSUME NEW q \in Reloaders, pc'[q] = "store", q # p
                   PROVE  q \in crossed
        BY <2>1, <3>2
      <4>1. p \in Busy /\ q \in Busy
        BY <1>0, <3>1 DEF Busy
      <4> QED BY <4>1 DEF LoneInv
    <3> QED BY <3>3, <3>4 DEF TriggerInv
  <2> QED BY <2>2, <2>3
<1>8. ASSUME NEW p \in Reloaders, Store(p) PROVE TriggerInv'
  <2>1. /\ UNCHANGED <<disk, notice, crossed, events, hup>>
        /\ current' = got[p] /\ mixed' = (p \in crossed)
        /\ pc[p] = "store" /\ pc' = [pc EXCEPT ![p] = "idle"]
        /\ got' = [got EXCEPT ![p] = NoContent]
    BY <1>8 DEF Store, go, files
  <2>2. \A q \in Reloaders : /\ pc'[q] = "store" => q # p /\ pc[q] = "store"
                             /\ pc[q] = "read" => pc'[q] = "read"
                             /\ q # p => got'[q] = got[q]
    BY <1>0, <2>1 DEF ServingInv, TypeOK
  <2>3. Awaited => Awaited'
    BY <2>1, <2>2 DEF Awaited, Queued
  <2> SUFFICES ASSUME notice = "trigger", disk.loads
               PROVE  /\ (current' = disk' \/ mixed' \/ Awaited' \/ InHand')
                      /\ \A q \in Reloaders :
                            pc'[q] = "store" /\ q \notin crossed'
                               => (got'[q] = disk' \/ Awaited')
    BY <2>1 DEF TriggerInv
  <2>4. \A q \in Reloaders :
           pc[q] = "store" /\ q \notin crossed => got[q] = disk \/ Awaited
    BY DEF TriggerInv
  <2>5. current' = disk' \/ mixed' \/ Awaited'
    <3>1. CASE p \in crossed
      BY <2>1, <3>1
    <3>2. CASE p \notin crossed
      BY <2>1, <2>3, <2>4, <3>2
    <3> QED BY <3>1, <3>2
  <2>6. ASSUME NEW q \in Reloaders, pc'[q] = "store", q \notin crossed'
        PROVE  got'[q] = disk' \/ Awaited'
    <3>1. pc[q] = "store" /\ q \notin crossed /\ got'[q] = got[q] /\ disk' = disk
      BY <2>1, <2>2, <2>6
    <3> QED BY <2>3, <2>4, <3>1
  <2> QED BY <2>5, <2>6
<1>9. CASE (\E q \in Requests : Request(q)) \/ UNCHANGED vars
  <2>1. UNCHANGED <<disk, events, hup, pc, got, current, overlaps, notice>>
    BY <1>9 DEF Request, Arrive, MapAlerts, Submit, vars, files, reloading
  <2>2. Awaited => Awaited'
    BY <2>1 DEF Awaited, Queued
  <2> QED BY <2>1, <2>2, AwaitedKept
<1> QED BY <1>0, <1>1, <1>2, <1>3, <1>5, <1>6, <1>7, <1>8, <1>9
        DEF Next, Watcher, Post

\* No trigger is lost, however many reloads run and whatever happens to the file.
THEOREM TriggersKept == Spec => []NoTriggerLost
<1>1. Init => LoneInv /\ TriggerInv
  BY LoneStart DEF Init, TriggerInv
<1>2. TriggerInv => NoTriggerLost
  BY DEF TriggerInv, NoTriggerLost
<1> QED BY <1>1, <1>2, LoneStep, TriggerInvStep, ServingInvariant, PTL DEF Spec

-----------------------------------------------------------------------------
\* As long as only the watch loop reloads, a config that has been applied is
\* not followed by an older one.
THEOREM NoStepBack == Posts = {} => (Spec => []TakesEffect)
<1> SUFFICES ASSUME Posts = {} PROVE Spec => []TakesEffect
  OBVIOUS
<1> DEFINE Alone == crossed = {} /\ ~ mixed
<1>1. Init => Alone
  BY DEF Init
<1>2. ServingInv /\ Alone /\ [Next]_vars => Alone'
  <2> SUFFICES ASSUME ServingInv, Alone, [Next]_vars PROVE Alone'
    OBVIOUS
  <2>1. Reloaders = {watch}
    BY DEF Reloaders
  <2>2. CASE TakeHup \/ TakeEvent
    <3>1. pc[watch] = "idle" /\ Busy = {}
      BY <2>1, <2>2 DEF TakeHup, TakeEvent, Busy
    <3> QED BY <2>2, <3>1 DEF TakeHup, TakeEvent, begin, overlaps
  <2>3. CASE StartHup \/ StartWatch \/ Build(watch)
    BY <2>3 DEF StartHup, StartWatch, Build, overlaps
  <2>7. CASE Store(watch)
    <3>1. crossed' = crossed /\ mixed' = (watch \in crossed)
      BY <2>7 DEF Store
    <3>2. crossed = {} /\ watch \notin {}
      OBVIOUS
    <3>3. ~ mixed'
      BY <3>1, <3>2, Zenon
    <3> QED BY <3>1, <3>2, <3>3
  <2>4. CASE WritePart \/ WriteWhole \/ SwapData \/ Sighup
    BY <2>4 DEF WritePart, WriteWhole, SwapData, change, Sighup, reloading, overlaps
  <2>5. CASE \E q \in Requests : Request(q)
    BY <2>5 DEF Request, Arrive, MapAlerts, Submit, reloading, overlaps
  <2>6. CASE UNCHANGED vars
    BY <2>6 DEF vars, reloading, overlaps
  <2> QED BY <2>2, <2>3, <2>4, <2>5, <2>6, <2>7 DEF Next, Watcher
<1>3. Alone /\ LoneReloadRepairs => TakesEffect
  BY DEF LoneReloadRepairs, TakesEffect
<1> QED BY <1>1, <1>2, <1>3, ServingInvariant, LoneReloads, PTL DEF Spec
=============================================================================
