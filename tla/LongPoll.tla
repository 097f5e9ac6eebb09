------------------------------ MODULE LongPoll ------------------------------
(***************************************************************************)
(* Waiting for a change over HTTP: rootHandler and selfHandler of metad.go *)
(* with Root, Self, Watch, WatchSelf and changeToResult of                 *)
(* metadata/metarepo.go, clients that poll again with the version they got *)
(* last, and restarts of metad, after which it counts versions anew.       *)
(*                                                                         *)
(* A handler compares versions, registers its watchers, waits, and reads   *)
(* the data, each under a lock of its own: other requests' writes happen   *)
(* in between.  Of the data store this module keeps what module Store      *)
(* promises: a version that every put raises, and an event in the channel  *)
(* of a registered watcher whenever what it watches changes.               *)
(***************************************************************************)
EXTENDS Naturals, FiniteSets

CONSTANTS
    Client,         \* clients, one request at a time each
    DataPath,       \* data paths that are mapped and asked for
    RootPath,       \* the data path that clients ask for by its own name
    Content,        \* what a data path may hold
    Missing,        \* a data path without data: the reply is 404
    Unmapped,       \* no mapping for the ip
    NoReply,        \* content of a client that has had no reply yet
    BufLen,         \* capacity of a watcher's channel (DEFAULT_WATCH_BUF_LEN)
    AggLen,         \* capacity of an aggregate watcher's channel
    MaxVersion,     \* bound on the version
    MaxMappings,    \* bound on the number of changes of the mapping
    MaxRestarts     \* bound on the number of restarts

ASSUME LongPollAssumption ==
    /\ IsFiniteSet(DataPath)
    /\ RootPath \in DataPath
    /\ Missing \notin Content
    /\ Unmapped \notin DataPath
    /\ NoReply \notin Content \cup {Missing}
    /\ BufLen \in Nat \ {0}
    /\ AggLen \in Nat \ {0}
    /\ MaxVersion \in Nat
    /\ MaxMappings \in Nat
    /\ MaxRestarts \in Nat

VARIABLES
    data,           \* content of each data path
    version,        \* version of the data store
    mapping,        \* the data path that the clients' ip is mapped to, if any
    mappings,       \* number of changes of the mapping so far
    restarts,       \* number of restarts so far
    kind,           \* what each client asks for
    pc,             \* where its handler is
    target,         \* the data path that the handler watches
    wanted,         \* selfHandler: currentVersion, read at its start
    chan,           \* events that changeToResult has not read yet
    stopped,        \* WatchSelf: stopChan is closed
    prev,           \* the version that the client got last, 0 before the first
    got,            \* the content that it got last
    past,           \* history: per version, the contents that clients asked for
    ours,           \* history: prev was given by the metad that is running now
    remapped,       \* history: the mapping changed since the client's reply was read
    slipped         \* history: it changed after WatchSelf read and before it watched it

world   == <<data, version, mapping, mappings, restarts>>
handler == <<pc, target, wanted, chan, stopped>>
history == <<past, ours, remapped, slipped>>

vars == <<world, kind, handler, prev, got, history>>

Idle == "idle"

PC == {Idle, "check", "getMapping", "watchMapping", "watchData", "wait", "batch",
       "remove", "stuck", "read", "abandoned"}

\* /path, /self, and /self/key where the key is mapped to a link or to an object.
Kind == {"data", "self", "selfLink", "selfObject"}

Datum == Content \cup {Missing}

OfSelf(c) == kind[c] # "data"

\* WatchSelf watches an object's links by one aggregate watcher.
Aggregated(c) == kind[c] \in {"self", "selfObject"}

\* How many events may be unread: those in the watcher's channel and, behind it,
\* in the hands of the aggregate watcher's goroutine and in the aggregate's own
\* channel.  Of several links the model has the one whose data changes.
Room(c) == IF Aggregated(c) THEN BufLen + 1 + AggLen ELSE BufLen

\* What Root and Self return for the client: the data at RootPath, or the data
\* its ip is mapped to, nothing when it is not mapped.
Asked(c, d, m) ==
    IF ~OfSelf(c) THEN d[RootPath]
    ELSE IF m = Unmapped THEN Missing
    ELSE d[m]

TypeOK ==
    /\ data \in [DataPath -> Datum]
    /\ version \in 0..MaxVersion
    /\ mapping \in DataPath \cup {Unmapped}
    /\ mappings \in 0..MaxMappings
    /\ restarts \in 0..MaxRestarts
    /\ kind \in [Client -> Kind]
    /\ pc \in [Client -> PC]
    /\ target \in [Client -> DataPath]
    /\ wanted \in [Client -> 0..MaxVersion]
    /\ chan \in [Client -> Nat]
    /\ \A c \in Client : chan[c] <= Room(c)
    /\ stopped \in [Client -> BOOLEAN]
    /\ prev \in [Client -> 0..MaxVersion]
    /\ got \in [Client -> Datum \cup {NoReply}]
    /\ past \in [0..MaxVersion -> [Client -> SUBSET Datum]]
    /\ ours \in [Client -> BOOLEAN]
    /\ remapped \in [Client -> BOOLEAN]
    /\ slipped \in [Client -> BOOLEAN]

\* The initial sync puts every key once: as many versions as keys, of which
\* there are at least the paths that hold something.
Synced(d, v) ==
    v \in Cardinality({p \in DataPath : d[p] # Missing})..MaxVersion

\* The history of a process that starts with version v.
PastOf(d, m, v) ==
    [n \in 0..MaxVersion |-> [c \in Client |-> IF n = v THEN {Asked(c, d, m)} ELSE {}]]

NoRequest ==
    /\ pc' = [c \in Client |-> Idle]
    /\ target' = [c \in Client |-> RootPath]
    /\ wanted' = [c \in Client |-> 0]
    /\ chan' = [c \in Client |-> 0]
    /\ stopped' = [c \in Client |-> FALSE]
    /\ slipped' = [c \in Client |-> FALSE]

\* metad listens when the initial sync is done.
Init ==
    /\ data \in [DataPath -> Datum]
    /\ version \in 0..MaxVersion
    /\ Synced(data, version)
    /\ mapping \in DataPath \cup {Unmapped}
    /\ mappings = 0
    /\ restarts = 0
    /\ kind \in [Client -> Kind]
    /\ pc = [c \in Client |-> Idle]
    /\ target = [c \in Client |-> RootPath]
    /\ wanted = [c \in Client |-> 0]
    /\ chan = [c \in Client |-> 0]
    /\ stopped = [c \in Client |-> FALSE]
    /\ prev = [c \in Client |-> 0]
    /\ got = [c \in Client |-> NoReply]
    /\ past = PastOf(data, mapping, version)
    /\ ours = [c \in Client |-> TRUE]
    /\ remapped = [c \in Client |-> FALSE]
    /\ slipped = [c \in Client |-> FALSE]

-----------------------------------------------------------------------------
Registered(c) == pc[c] \in {"wait", "batch", "remove", "abandoned"}

\* Mutant: internalNotify sends whether or not there is room.
NotifiedBeyondBuf(c, p, x) ==
    IF Registered(c) /\ target[c] = p /\ data[p] # x THEN chan[c] + 1 ELSE chan[c]

\* The channel of c after p has become x: internalNotify drops what does not fit.
Notified(c, p, x) ==
    IF Registered(c) /\ target[c] = p /\ data[p] # x /\ chan[c] < Room(c)
    THEN chan[c] + 1
    ELSE chan[c]

\* Mutant: the version stays.
WriteSameVersion(p, x) ==
    /\ version < MaxVersion
    /\ x = Missing => data[p] # Missing
    /\ data' = [data EXCEPT ![p] = x]
    /\ chan' = [c \in Client |-> Notified(c, p, x)]
    /\ past' = [past EXCEPT ![version + 1] = [c \in Client |-> {Asked(c, data', mapping)}]]
    /\ UNCHANGED <<version, mapping, mappings, restarts, kind, pc, target, wanted,
                   stopped, prev, got, ours, remapped, slipped>>

\* A put or a delete in the data store: the version grows, and a registered
\* watcher gets an event when its path changes (module Store, NotifiedIffChanged).
\* Deleting what is not there is no change.
Write(p, x) ==
    /\ version < MaxVersion
    /\ x = Missing => data[p] # Missing
    /\ version' = version + 1
    /\ data' = [data EXCEPT ![p] = x]
    /\ chan' = [c \in Client |-> Notified(c, p, x)]
    /\ past' = [past EXCEPT ![version + 1] = [c \in Client |-> {Asked(c, data', mapping)}]]
    /\ UNCHANGED <<mapping, mappings, restarts, kind, pc, target, wanted, stopped,
                   prev, got, ours, remapped, slipped>>

\* Mutant: the mapping is watched last.
HearsMappingLate(c) == kind[c] = "self" /\ Registered(c)

\* WatchSelf's goroutine hears of a change of the mapping.  For /self/key the
\* handler watches another node: "ip/key" has no leading slash, and store.walk
\* skips the first component.
HearsMapping(c) == kind[c] = "self" /\ (Registered(c) \/ pc[c] = "watchData")

\* A change of the mapping goes to the mapping store and its watchers: the
\* goroutine in WatchSelf closes stopChan.  The data version stays.
ChangeMapping(p) ==
    /\ mappings < MaxMappings
    /\ p # mapping
    /\ mapping' = p
    /\ mappings' = mappings + 1
    /\ stopped' = [c \in Client |-> stopped[c] \/ HearsMapping(c)]
    /\ past' = [past EXCEPT ![version] =
                  [c \in Client |-> past[version][c] \cup {Asked(c, data, p)}]]
    /\ remapped' = [c \in Client |-> remapped[c] \/ OfSelf(c)]
    /\ slipped' = [c \in Client |-> slipped[c] \/ pc[c] = "watchMapping"]
    /\ UNCHANGED <<data, version, restarts, kind, pc, target, wanted, chan, prev, got, ours>>

\* metad stops, for whatever reason, and starts again: requests end without a
\* reply, and the stores are filled from etcd with a version of their own.  What
\* changes in etcd while metad is down is as a change right after the restart.
Restart(v) ==
    /\ restarts < MaxRestarts
    /\ restarts' = restarts + 1
    /\ Synced(data, v)
    /\ version' = v
    /\ NoRequest
    /\ past' = PastOf(data, mapping, v)
    /\ ours' = [c \in Client |-> FALSE]
    /\ UNCHANGED <<data, mapping, mappings, kind, prev, got, remapped>>

-----------------------------------------------------------------------------
Goto(c, l) == pc' = [pc EXCEPT ![c] = l]

\* GET with wait=true and prev_version.
Request(c) ==
    /\ pc[c] = Idle
    /\ Goto(c, "check")
    /\ UNCHANGED <<world, kind, target, wanted, chan, stopped, prev, got, history>>

\* GET without wait: read at once; selfHandler reads the version first.
RequestNow(c) ==
    /\ pc[c] = Idle
    /\ wanted' = [wanted EXCEPT ![c] = version]
    /\ Goto(c, "read")
    /\ UNCHANGED <<world, kind, target, chan, stopped, prev, got, history>>

\* Mutant: the handler replies at once only to a version from the past.
CheckVersionBehind(c) ==
    /\ pc[c] = "check"
    /\ wanted' = [wanted EXCEPT ![c] = version]
    /\ IF prev[c] > 0 /\ prev[c] < version
       THEN Goto(c, "read")
       ELSE Goto(c, IF OfSelf(c) THEN "getMapping" ELSE "watchData")
    /\ target' = [target EXCEPT ![c] = RootPath]
    /\ UNCHANGED <<world, kind, chan, stopped, prev, got, history>>

\* prevVersion > 0 && prevVersion != DataVersion()
CheckVersion(c) ==
    /\ pc[c] = "check"
    /\ wanted' = [wanted EXCEPT ![c] = version]
    /\ IF prev[c] > 0 /\ prev[c] # version
       THEN Goto(c, "read")
       ELSE Goto(c, IF OfSelf(c) THEN "getMapping" ELSE "watchData")
    /\ target' = [target EXCEPT ![c] = RootPath]
    /\ UNCHANGED <<world, kind, chan, stopped, prev, got, history>>

\* WatchSelf reads the mapping, then watches it, then watches what it maps to;
\* without a mapping it returns at once.
GetMapping(c) ==
    /\ pc[c] = "getMapping"
    /\ IF mapping = Unmapped
       THEN Goto(c, "read") /\ UNCHANGED target
       ELSE Goto(c, "watchMapping") /\ target' = [target EXCEPT ![c] = mapping]
    /\ slipped' = [slipped EXCEPT ![c] = FALSE]
    /\ UNCHANGED <<world, kind, wanted, chan, stopped, prev, got, past, ours, remapped>>

WatchMapping(c) ==
    /\ pc[c] = "watchMapping"
    /\ stopped' = [stopped EXCEPT ![c] = FALSE]
    /\ Goto(c, "watchData")
    /\ UNCHANGED <<world, kind, target, wanted, chan, prev, got, history>>

WatchData(c) ==
    /\ pc[c] = "watchData"
    /\ chan' = [chan EXCEPT ![c] = 0]
    /\ Goto(c, "wait")
    /\ UNCHANGED <<world, kind, target, wanted, stopped, prev, got, history>>

\* changeToResult: an event of the watched node itself (Path "/") ends the wait;
\* after an event of a node below it further events are collected until none
\* comes for 100ms.  An aggregate watcher's events have the mapping's key as path.
ReceiveEvent(c) ==
    /\ pc[c] \in {"wait", "batch"}
    /\ chan[c] > 0
    /\ chan' = [chan EXCEPT ![c] = @ - 1]
    /\ \E l \in (IF Aggregated(c) THEN {"batch"} ELSE {"remove", "batch"}) : Goto(c, l)
    /\ UNCHANGED <<world, kind, target, wanted, stopped, prev, got, history>>

\* Mutant: no timer was set.
TimerNeverFires(c) == pc[c] = "batch" /\ UNCHANGED vars

\* select may take the timer although there is another event.
TimerFires(c) ==
    /\ pc[c] = "batch"
    /\ Goto(c, "remove")
    /\ UNCHANGED <<world, kind, target, wanted, chan, stopped, prev, got, history>>

Stopped(c) ==
    /\ pc[c] \in {"wait", "batch"}
    /\ stopped[c]
    /\ Goto(c, "remove")
    /\ UNCHANGED <<world, kind, target, wanted, chan, stopped, prev, got, history>>

\* The client closes its connection: ctx is done, and changeToResult returns.
Disconnect(c) ==
    /\ pc[c] \in {"wait", "batch"}
    /\ Goto(c, "abandoned")
    /\ UNCHANGED <<world, kind, target, wanted, chan, stopped, prev, got, history>>

\* The deferred watcher.Remove calls, when they return.  The reply to a client
\* that is gone is written to nobody.
RemoveWatchers(c) ==
    /\ pc[c] \in {"remove", "abandoned"}
    /\ chan' = [chan EXCEPT ![c] = 0]
    /\ stopped' = [stopped EXCEPT ![c] = FALSE]
    /\ target' = [target EXCEPT ![c] = RootPath]
    /\ slipped' = [slipped EXCEPT ![c] = FALSE]
    /\ wanted' = [wanted EXCEPT ![c] = IF pc[c] = "remove" THEN @ ELSE 0]
    /\ Goto(c, IF pc[c] = "remove" THEN "read" ELSE Idle)
    /\ UNCHANGED <<world, kind, prev, got, past, ours, remapped>>

\* aggregateWatcher.Remove removes its watchers and waits for its goroutine.  When
\* more events are unread than its channel holds, the goroutine blocks on a
\* channel that nobody reads any more, and Remove does not return (module
\* AggregateWatcher: RemoveReturnsIfRoom, RemoveReturns).  Of a client that is gone it keeps a
\* goroutine only.
RemoveHangs(c) ==
    /\ pc[c] = "remove"
    /\ Aggregated(c)
    /\ chan[c] > AggLen
    /\ Goto(c, "stuck")
    /\ UNCHANGED <<world, kind, target, wanted, chan, stopped, prev, got, history>>

\* The client of a handler that hangs closes its connection, without a reply.
GiveUp(c) ==
    /\ pc[c] = "stuck"
    /\ chan' = [chan EXCEPT ![c] = 0]
    /\ stopped' = [stopped EXCEPT ![c] = FALSE]
    /\ target' = [target EXCEPT ![c] = RootPath]
    /\ slipped' = [slipped EXCEPT ![c] = FALSE]
    /\ wanted' = [wanted EXCEPT ![c] = 0]
    /\ Goto(c, Idle)
    /\ UNCHANGED <<world, kind, prev, got, past, ours, remapped>>

\* Root reads version and data under one lock.  Where there is no data it finds
\* either the empty directory that a watcher keeps, or no node: then it returns
\* before it has read the version, and 404 goes out with version 0.  selfHandler
\* replies with the version that it read when the request came in.
ReplyVersions(c) ==
    IF OfSelf(c) THEN {wanted[c]}
    ELSE IF data[RootPath] = Missing THEN {0, version}
    ELSE {version}

ReadAndReply(c) ==
    /\ pc[c] = "read"
    /\ got' = [got EXCEPT ![c] = Asked(c, data, mapping)]
    /\ \E v \in ReplyVersions(c) : prev' = [prev EXCEPT ![c] = v]
    /\ ours' = [ours EXCEPT ![c] = TRUE]
    /\ remapped' = [remapped EXCEPT ![c] = FALSE]
    /\ wanted' = [wanted EXCEPT ![c] = 0]
    /\ Goto(c, Idle)
    /\ UNCHANGED <<world, kind, target, chan, stopped, past, slipped>>

Handler(c) ==
    \/ CheckVersion(c)
    \/ GetMapping(c)
    \/ WatchMapping(c)
    \/ WatchData(c)
    \/ ReceiveEvent(c)
    \/ TimerFires(c)
    \/ Stopped(c)
    \/ RemoveWatchers(c)
    \/ RemoveHangs(c)
    \/ ReadAndReply(c)

Next ==
    \/ \E p \in DataPath, x \in Datum : Write(p, x)
    \/ \E p \in DataPath \cup {Unmapped} : ChangeMapping(p)
    \/ \E v \in 0..MaxVersion : Restart(v)
    \/ \E c \in Client : Request(c) \/ RequestNow(c) \/ Disconnect(c) \/ GiveUp(c) \/ Handler(c)

Spec == Init /\ [][Next]_vars

\* A client that waits with nothing on its way to it.
Asleep(c) == pc[c] = "wait" /\ chan[c] = 0 /\ ~stopped[c]

\* A goroutine that can go on does.  Clients poll with a timeout: they ask again
\* after a reply, and give up a wait in which nothing happens and a request whose
\* handler hangs, to ask again with the version they have.
FairSpec ==
    /\ Spec
    /\ \A c \in Client : /\ WF_vars(Handler(c))
                         /\ WF_vars(Request(c))
                         /\ WF_vars(Asleep(c) /\ Disconnect(c))
                         /\ WF_vars(GiveUp(c))

-----------------------------------------------------------------------------
(* Properties.                                                             *)

\* A reply is at least as new as the version it is tagged with: what the client
\* got was there at that version or later, so that polling with the version can
\* repeat data but not skip any ("may be cause client repeat get data").
VersionNotAhead ==
    \A c \in Client : prev[c] > 0 /\ ours[c] =>
        \E v \in prev[c]..version : got[c] \in past[v][c]

\* A request of /self that sleeps watches the data that the ip is mapped to now,
\* unless the mapping changed just between WatchSelf's reading and watching it.
WatchesMapped ==
    \A c \in Client :
        kind[c] = "self" /\ Asleep(c) /\ ~slipped[c] => target[c] = mapping

\* A client whose watched data, or for /self whose mapping, changes while it
\* waits gets a reply, if it does not give up: a burst of events ends the wait
\* when it is over.  The one exception is a handler of an aggregate watcher that
\* stopped reading with more events unread than the aggregate's channel holds:
\* aggregateWatcher.Remove may then never return.
EventsWake ==
    \A c \in Client :
        (pc[c] \in {"wait", "batch"} /\ (chan[c] > 0 \/ stopped[c])) ~>
            \/ pc[c] = Idle
            \/ pc[c] = "stuck" /\ Aggregated(c) /\ chan[c] > AggLen

\* The version that the client got from an earlier process is by chance the
\* version of this one.
Coincides(c) == ~ours[c] /\ prev[c] = version

\* Clients that poll with a version and a timeout end up with the last data,
\* whichever writes fell between a version check and the registration of a
\* watcher, and although metad was restarted and counts versions anew.  Only a
\* version that is the same by chance hides a change, and a change of the
\* mapping between two polls, which the data's version does not count.
Converges ==
    \A c \in Client :
        <>[](prev[c] > 0 =>
               \/ got[c] = Asked(c, data, mapping)
               \/ Coincides(c)
               \/ remapped[c])

\* A client of /self that waits with a version has not lost a change: it is
\* asleep only while it has the current data (selfHandler, "may be cause client
\* repeat get data, but not lost change").  rootHandler has the same window.
NoLostChange ==
    \A c \in Client :
        kind[c] = "self" /\ Asleep(c) /\ prev[c] > 0 => got[c] = Asked(c, data, mapping)

=============================================================================
