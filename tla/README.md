# metad in TLA+

metad is a metadata server. It keeps a copy of a tree of metadata that lives in
etcd, answers HTTP requests from that copy, and lets clients wait for changes.
This directory models the parts of metad in which something can go wrong that a
test would hardly reach, checks the models with TLC on small instances, and
proves their safety properties with TLAPS for every instance.

## 1. The system

| Component | State | Operations | Talks to |
|---|---|---|---|
| node tree (`store/node.go`, `store/store.go`) | nodes with value, children, watchers; a version; `cleanChan` | Get, Put, PutBulk, Delete, Watch, Clean, Destroy, Traveller | calls watchers' channels; its goroutine takes paths from `cleanChan` |
| watchers (`store/watcher.go`) | a buffered channel per watcher; an aggregate channel fed by goroutines | EventChan, Remove, NewAggregateWatcher | the node they are registered at; `changeToResult` reads them |
| access (`store/access.go`, `store/traveller.go`) | a rule tree per host; a position in tree and rules | Put, Puts, Delete, Get; Enter, Back, GetValue, Close | reads the node tree under `worldLock` |
| metadata repository (`metadata/metarepo.go`) | data store, mapping store, access store, timer pool | Root, Self, Watch, WatchSelf, Get/Put/Delete of data, mapping and rules, StartSync, StopSync | reads the stores, writes to the backend |
| HTTP API (`metad.go`) | the requests being served | rootHandler, selfHandler, the management handlers, Stop | the repository |
| etcd backend (`backends/etcdv3/client.go`) | a watch on etcd, `rev`, `init`, `stop` | Sync, Get, Put, Delete | etcd; puts what it hears into a store |
| local backend (`backends/local/client.go`) | two stores of its own | the same | copies one store into another |
| flatmap, timer pool, atomic (`util`, `atomic`) | - / pooled timers / counters | conversions, acquire and release, increment | used by the others |

A write goes from a management request through the repository to etcd, comes
back through the watch of `internalSync` into the store (of every metad on that
etcd), and from the store's nodes into the channels of watchers, where it ends
the wait of requests. No write goes to the store directly.

What is hard in it:

* **Shape.** A node is a leaf, a directory, or a directory that hides a value.
  Puts, deletes, watches and cleanings convert nodes back and forth, and Remove
  and Clean call each other up and down the tree. Correct means: the tree stays
  a tree, no value is lost or shown too early, no watched node is detached.
* **Concurrency in the store.** `worldLock` orders operations, but watchers are
  removed and cleaned asynchronously, through a queue that drops what does not
  fit. Correct means: no empty directory is forgotten, no watcher goes deaf.
* **Waiting.** A request checks a version, registers watchers, waits and reads
  in separate critical sections. Correct means: the version a client gets lets
  it continue without losing a change.
* **Aggregation.** Events pass two channels and a goroutine; Remove has to
  close both ends. Correct means: no loss, no send to a closed channel, and
  Remove returns.
* **Replication.** A watch and a snapshot overlap, watches break and resume,
  etcd compacts, requests fail half way, deletes are decided on a stale copy,
  and a stop signal may come at any point. Correct means: a copy that has
  caught up equals etcd, and stopping stops.
* **Management.** Data, mappings and rules share etcd's key space under the
  default prefix; JSON objects are flattened to keys, keys are cleaned, and
  deletes are by key or by prefix. Correct means: a request changes what it
  names and nothing else, and a restarted metad shows what a running one does.

`PROJECT.json` lists these hazards line by line.

## 2. Modules

| Module | Models | Uses |
|---|---|---|
| `Paths` | paths as sequences of components, ancestors | |
| `Tree` | a node tree as a value; Put, Watch, Remove and Clean as functions of trees, with the events they send | `Paths` |
| `NodeOps` | the recursion of `node.go` node by node, in every order of the children | `Tree` |
| `KV` | abstract specification: a flat map with a version | `Paths` |
| `Store` | the store: tree, version, watchers, channels, cleaning goroutine | `Tree`, instance of `KV` |
| `TreeProofs` | lemmas on paths, trees and events | `Tree` |
| `StoreProofs` | theorems on the store and its notifications | `Store`, `TreeProofs` |
| `LongPoll` | handlers that wait, and clients that poll | abstracts the store to its events and version |
| `Access` | access trees and the traveller as operators; what a list of rules means | `Tree` |
| `Reading` | requests that look up rules, travel and reply | `Access` |
| `TimerPool` | the pool of timers that waiting requests share | |
| `AggregateWatcher` | aggregated watchers and their reader | `TimerPool` |
| `EtcdSync` | requests that write to etcd, `internalSync` | the store as `KV` describes it |
| `LocalSync` | the local backend: a store that follows another store's events | `Tree` |
| `FlatMap` | Flatten and Expand on JSON values, as closed forms | `Paths` |
| `FlatOps` | the recursion of `util/flatmap` key by key | `FlatMap` |
| `Manage` | the management API over etcd's one key space, and restarts | `FlatMap`, the stores as `KV` describes them |
| `LongPollProofs`, `AggregateProofs`, `EtcdSyncProofs`, `LocalSyncProofs`, `ReadingProofs`, `ManageProofs` | theorems on the module of that name; `AggregateProofs` includes the timer pool, `ManageProofs` the flat maps | `LongPoll`, `AggregateWatcher`, `EtcdSync`, `Manage`; `LocalSync` and `Reading` with `TreeProofs` |
| `MCStore`, `MCNodeOps`, `MCReading`, `MCEtcdSync`, `MCLocalSync`, `MCManage` | instances for TLC | |

### Store

`tree` maps each path to a node: absent, a leaf with a value, or a directory
with a value or `Empty`. `version`, `watchAt` (which node a watcher is at),
`unread` (how full its channel is), `cleanChan` and `cleaning` are the code's
variables; `lost` is history, the directories whose cleaning `store.Clean`
dropped. Put, Delete, Watch and one cleaning hold `worldLock` throughout and are
one action each. PutBulk holds it over a loop in map order: `PutBulk` takes the
lock and each entry is an action, so that the watchers can be read and removed
between two entries; `bulk # {}` stands for the lock. `watcher.Remove` holds
only the node's watcher lock, and can therefore happen while another operation
holds `worldLock`. That other operation asks for a node's watchers at one moment
(`HasWatcher`, or under the lock in `internalNotify`) per node; the removal is
before or after that moment. If it is after, it is after the operation for that
node. If it is before, it is as if it had come before the operation, except that
the node had been notified of earlier steps of the same operation, into a
channel that is now closed and that nobody reads.

The contents of an event are reduced to the number of events in a channel: the
readers of a store's channel in metad use an event as a signal to read again.

The functions of `Tree` say at once which nodes an operation removes, converts
or keeps. `NodeOps` has the recursion itself, and run `store` compares both in
every state that the store reaches.

### LongPoll

One request per client, and a client polls again with the version it was given.
The program counters follow the handlers: `check` the version, `getMapping`,
`watchMapping`, `watchData`, `wait` (with `batch` once the timer runs),
`remove` the watchers, `read` and reply. A data path holds a content or nothing;
`kind` is what the client asks for: `/path`, `/self`, which is what its ip is
mapped to (nothing when it is not mapped), or `/self/key`, where the key is mapped
to a link (`selfLink`) or to an object of links (`selfObject`). The last two read
the same but hear of no change of the mapping, because the code watches another
node of the mapping store than it reads. `/self` and `selfObject` watch through an
aggregate watcher: up to `Room` events may be unread, in the watcher's channel, in
the forwarding goroutine's hands and in the aggregate's channel of `AggLen`. Its
Remove may return or, with more unread than `AggLen`, hang (`RemoveHangs`); why is
the subject of `AggregateWatcher`. The client of a handler that hangs has no reply
and gives up (`GiveUp`). Of the store it keeps what `Store` guarantees:
`Write` raises the version and puts an event into the channels of the watchers
whose path changes (`NotifiedIffChanged`). Access rules are not in it (`Reading`
has them): clients may read what they ask for.

`Restart` ends every request without a reply and counts versions anew: the
initial sync puts each key once, so the new version is at least the number of
paths that hold something, and any number above it, for the keys that nobody
asks for. `past`, `ours`, `remapped` and `slipped` are history: which contents
there were at which version of this process, whose version a client holds, and
whether the mapping changed since its reply or between the two steps of
WatchSelf.

### Access and Reading

An access tree is a function from its nodes' paths to modes; a traveller is a
record of its place in both trees, its mode and its stack, and `enter`, `Back`,
`BackStep` and `BackToRoot` of `nodeTraveller` are operators on it. The second
half of `Access` says what a list of rules means without any walk: which
mentioned path stands for a data path (exact names before wildcards, as
`docs/api.md` has it) and which mode is the deepest. `Allowed` is the documented
meaning: the deepest rule says read. The code departs from it twice, and both
departures have a name of their own: leaves that have rules below their place are
served whatever their mode (`Exposed`), and a rule of mode -1, which the
documentation does not list, refuses what is below it although a rule above allows
it (`Withheld`). `Served` is made of the three. Run `reading_forbidden` checks the
documentation without the first departure, and is refuted.

`Reading` is `Root` and `Self`. The steps are those between which something else
can happen: the look-up in the access store, the one in the mapping store, the
traveller's opening, and, with the data locked for reading, the second reading
of the mapping and each link; a change of the rules or of the mapping can come
between any two of them. The walk itself is also taken step by step: `Enter` one
component at a time (`way`, `step`), and the recursion of `GetValue` one child
at a time, in any order of the children. `todo` is the union of what the loops
on its call stack have still to enter, `step` how deep it is, and `got` the
leaves that it has put into the nested map. `under` keeps the list of rules from which the
request's access tree was made; the tree is immutable, so the model recomputes
it. Sub-paths of `/self` and nested mappings are read like the links they lead
to. Different requests only meet at the lock, so one host is enough.

### AggregateWatcher and TimerPool

Sub watchers' channels, the goroutines' hands, the aggregate channel and the
reader, which becomes the remover when `changeToResult` returns. Events are
numbered per sub watcher so that loss, repetition and order show.

The reader's timer comes from the pool that all requests share. A timer of Go
expires (it is no longer active, Stop returns false) and then sends its tick:
two steps of the runtime, between which ReleaseTimer may find an empty channel.
`TimerPool` keeps the two apart and marks each tick: `due` for its user's own
time-out, `slipped` when the timer was given back between expiry and tick, and
`left` when a user gave it back with a tick in its channel. `OtherRequest` is
another goroutine's use of the pool, with the early return for a leaf, which
forgets its timer.

### EtcdSync

etcd is a map of keys and a history of revisions, each a set of changes (a
transaction or a delete by prefix). A request makes its first call when it comes
and becomes a record of what it has still to do in etcd, one call per action,
each of which may fail: look-ups of DeleteData in the store, a delete, puts in
batches of `MaxOpsPerTxn`. `Followed` leaves out the requests before the first
watch, which lead to what another initial state has, and those after the stop.
`internalSync` follows the code's loop; `next` is the revision that the open
watch delivers next, `rev` the variable that the next watch starts from.
`cancelled` is about the current context, and a new one is not cancelled: that
is the stop race.
`seen` and `gap` are history: the last revision processed, and whether a watch
was opened behind one that was not. The store is the map of `KV`, justified by
`ImplementsKV`. etcd and its client library are modelled from how the code uses
them: `Commit`, `EtcdCompacts` and `WatchBreaks`.

### LocalSync

The backend's store `from` and the repository's store `to` are both trees of
module `Tree`, and the channel between them holds events with their values.
Requests change `from` with the functions of `Tree`, which also say which events
go to the watcher at the root; `Orders` are the orders in which one operation
may send them. A Put that replaces is a Delete and a Put, a map is put entry by
entry. Data and mapping are two instances of the same sync.

### Manage and FlatMap

A JSON value is a function from the places in it, sequences of keys, to what is
there: a text, null, an object or a list; numbers and booleans are the texts that
they are formatted as. On this form Flatten and Expand of `FlatMap` are closed
forms: Flatten keeps the places of texts and nulls that do not start with the
empty key, Expand has an object at every proper prefix of a key, and hides what is
below a text. `FlatOps` has the recursion of the code, `flatten`, `expand` and
`expandMap`, and run `manage` compares both for every value that a request puts
and for everything that is ever in etcd.

`Manage` is sequential: a request is one action, from the handler to the three
stores that have followed it, since `EtcdSync` is about what lies in between.
What it adds is the keys: one key space with `/_metad/mapping/<group>` and
`/_metad/rule/<group>` next to the data (the default prefix, one group), the
filters of the watch and of the initial Get, `path.Clean` on joined keys and
subs, which resolves the components `""`, `"."` and `".."`, string prefixes that
end in the middle of a name (`Begins`), and the delete of `/`, which goes by what
Expand finds. A store is the texts put and not deleted since;
of those the ones above another do not show. `Restart` fills the stores from
etcd. `mixed`, `odd` and `climbed` are history: a text and a directory were once
at one path, a mapping with a key `""` or `"."` was put, and one with `".."` was.
`Clean` is a closed form (a name stays unless as many `".."` as names follow it
somewhere); run `manage` compares it with the resolution component by component
(`resolve` of `FlatOps`) for every entry of every object that is put as data.

The constants say which requests come. `KeysAssumption` leaves out requests for
data that name something below `/_metad`, or lead there by `".."`: the code passes
them on to etcd as it does all others, and they may change any mapping or rule. It
also leaves out mappings that `".."` leads out of the directory of the mappings,
to the rules, to other groups or beside `/_metad` (`MappingDir` stands for the two
names `mapping` and the group's); those that it leads out of their ip are in.
Keys of JSON objects that contain a slash are left out too; checkMapping refuses
them.

## 3. Runs

| Run | Shows | Bounds |
|---|---|---|
| `store` | shape, watched nodes attached, nothing forgotten, notified exactly of changes; the tree implements the flat map; the recursion of `node.go` equals the closed forms | 5 paths (a chain of three and a sibling), 1 value, 2 watchers (symmetric), channels of 1, cleaning queue of 1, 3 changes |
| `store_live` | empty directories go, hidden values return | 1 watcher, 2 changes |
| `long_poll` | a reply is not older than its version, a sleeping request watches the right data, an event ends the wait unless Remove hangs, polling clients end with the last data | one client of each of 4 kinds in turn, two paths that hold something or nothing, channels of 1, versions to 3, 1 change of the mapping, 1 restart |
| `reading` | a reply is what the rules let the host read, with the two departures of `enter`; the traveller never loses its place | 6 paths in two equal branches, every list of at most 2 of 18 rules, the documented example, no rules or 2 mappings, 1 change during the request |
| `aggregate` | no loss, no send after close, Remove returns if there is room; timers have one user, end their batch and wake nobody early | 2 sub watchers, channels of 2 and 1 per sub, as 100 and 50 in the code, 2 events each, 2 timers, 2 users |
| `etcd_sync` | a copy that caught up is etcd, and it catches up; a stop ends the first watch | 2 keys in a directory, one request at a time, batches of 1, 3 revisions, 1 break, compaction, failing calls |
| `local_sync` | the copy shows what the backend shows, a stop ends it in step | 4 paths (a directory with two children), 2 values, channel of 4, 5 requests |
| `manage` | POST replaces, deletes are exact, mappings are links and no data, a restart changes nothing; the recursion of `util/flatmap` equals the closed forms | 5 requests out of 13 puts and 7 deletes of data, 10 puts and 4 deletes of mappings (puts as POST and as PUT) and the rules, with nested objects, lists, null, keys `""`, `"."` and `".."`, clashing keys, names that begin other names, subs, a text at `/`, restarts at any point: 128,049 states |

The bounds are the smallest at which the cases happen: a value hidden by a child
that is itself a directory needs a chain of three; a cleaning that must not take
a sibling along needs the sibling; a full queue needs capacity 1 and two
removals; a batch of puts cut by a failure needs two entries and batches of 1;
a change replayed after a newer one needs three revisions. Absent and present
are the two values that tell a stale copy from a fresh one in `EtcdSync`. In
`LongPoll` clients do not meet: each has its own watchers and history, so one of
each kind is enough, and three versions have room for the two writes that one
poll can miss and one restart. Channels of 1 make room for three unread events in
an aggregate watcher, two more than its Remove can wait for. A slipped tick needs two users of one timer, a
new timer beside a pooled one the second. In `Manage` a wrong state needs a put,
a second put or delete that meets it, and a restart; five requests leave room for
two such sequences to mix.

Runs that refute what the repository says of itself (section 6):
`long_poll_race`, `reading_forbidden`, `aggregate_stuck`, `etcd_stop`.

Deadlock checking is off where the model stops by itself because its bounds are
used up or because a removed watcher or a stopped loop is the end.

### Fairness

* `Store!Fairness`: the cleaning goroutine receives (weak), and gets `worldLock`
  when it asks again and again (strong: Go's mutex hands over to a waiter that
  has waited for a millisecond); a bulk is put to its end (weak: a loop).
* `LongPoll!FairSpec`: a handler that can go on does, and clients poll with a
  timeout: they ask again after a reply, and give up a wait in which nothing
  happens and a request whose handler hangs. `EventsWake` does not rest on the
  latter: a request that hangs is its named exception. The timer is assumed to fire when events stop; with events for ever
  changeToResult restarts it for ever, which the bound on writes leaves out.
* `AggregateWatcher!FairSpec`: goroutines, the reader and Remove go on when they
  can, and the runtime's timers expire and tick. Nobody has to stop the reader.
* `EtcdSync!FairSpec`: the loop and its helper go on; a Get that is retried
  succeeds in the end. Requests and etcd are not fair.
* `LocalSync!FairSpec`: the sync goroutine goes on. Requests and the stop signal
  are not fair.

## 4. Proofs

`StoreProofs` proves, for all sets of names, paths and values, any number of
watchers and any capacities:

* `TypeCorrect`, `ShapeKept`, `LeavesHaveValues`, `WatchedStayAttached`,
  `HiddenValuesHaveChildren`, `GarbageAccounted`: the invariants of run `store`;
* `ImplementsKV`: `Store` implements `KV`, if the empty string is not a value.

Assumptions: `PathAssumption` (paths are finitely many sequences of names,
closed under prefixes) and `StoreAssumption` (channels have room for at least
one event, bulks are finite).

The invariants are inductive only together (`Inv`). A delete keeps watched nodes
because all their ancestors are attached (`TreeShape` with `WatchedAttached`);
it leaves no forgotten directory because the ancestors it empties have neither
value nor watcher, which needs that an old empty directory is accounted for
(`NoForgottenDir`) and hides nothing (`HiddenByChild`). `TreeProofs` proves of
each function on trees what it keeps: `PutPreserves`, `WatchPreserves`,
`RemovePreserves`, `CleanPreserves`, from lemmas on the order of paths (the
ancestors of a path form a chain). `StoreProofs` has one lemma per action on top
of these, and the refinement compares the contents before and after each step.

The action property `NotifiedIffChanged` (`NotifiedExactly`) follows from `Inv`.
The lemmas `PutReports`, `WatchReports`,
`RemoveReports` and `CleanReports` of `TreeProofs` say that the events of an
operation name exactly the paths at which a leaf appears, goes or gets another
value; what a reader of a node sees is made of exactly those leaves
(`VisibleDiffers`).

`AggregateProofs`, for any number of users, timers and sub watchers and any
capacities: `TypeCorrect`, `EventsInOrder` (`InOrder`), `ClosedWhenDone`
(`NoSendAfterClose`), `TimerHasOneUser` (`OneUser`) and `EarlyTicksSlipped`
(`EarlyOnlyAfterSlip`). The last needs `DueOnlyInUse`: a tick is marked as due
only while its timer has expired and is still with the user who waits for it, so
that a Stop which finds the timer running leaves no due tick to the next user.
`NoSendAfterClose` needs that a goroutine ends with empty hands and an empty
channel (`GoroutinesEndEmpty`), since Remove waits only for their end.

`LongPollProofs`, for any number of clients, paths, writes, mapping changes and
restarts: `TypeCorrect`, `RepliesNotStale` (`VersionNotAhead`) and
`SleepersWatchMapped` (`WatchesMapped`). `PastInv` adds that the current contents
are among those of the current version and that the version a handler has read
is not from the future; `MappedInv` follows the mapping from WatchSelf's reading
of it to the wait, with a closed `stopChan` as the excuse for an old one.

`EtcdSyncProofs`, for any keys, bulks, histories and breaks of the watch:
`TypeCorrect`, `SignalledOnce` (`InitSignalledOnce`) and `InSync`
(`InSyncWithoutGap`). `HistoryInv` ties etcd to its history: the last change of a
key says what etcd holds there. `SyncInv` says why the store may differ from etcd
at a path: a change of it is in the part of the history still to be delivered, or
in the response being processed; and that without a gap the loop repeats at most
the last revision it has processed. `InSync` assumes `FlatKeys`, that no key is
the directory of another; without it the property is false (section 6). The
constants' assumption that a bulk names a key once is that of a Go map.

`LocalSyncProofs`, for any tree of paths, any values, any number of requests and
any capacity: `SyncInStep` (`InStep`) and `SyncReturnsInStep`, the safety half of
`StopsInStep`. The property speaks of an empty channel, the invariant of any:
the last event at, above or below a leaf that shows is the put of that leaf
(`LastWord`), a put of anything else is followed by its delete (`TakenBack`), and
where no event is to come the copy is right already and hides no other value
(`InPlace`). The first two are about the events alone, whatever tree they are
applied to, which is why the copy may be made in the middle of them. A put shows
only if nothing is left below it; for that the copy has no empty directories
(`Pruned`) and hence a leaf below every node with children (`LeafBelow`, from the
well-foundedness of the subsets of a finite set).

`ReadingProofs`, for any data, any lists of rules, any mappings, any number of
hosts that read side by side and any changes between their steps: `TypeCorrect`,
`TravellerFollowsRules` (`TravellerInStep`), `LinksAreReadFromRoot`
(`LinksFromRoot`) and `RepliesFollowRules` (`ServesByRules`). Of the constants
they use that a wildcard is not a name, that rule lists are sequences of rules,
that the data after the first sync is a tree and that a mapping names paths. The
argument has two halves. One is about the rules alone: a step of `enter` takes a
node and a mode that are those of a path to those of its child
(`GoverningStep`, `ModeStep`), because the exact child, the wildcard child and none are the
three cases of `Governing`; and `enter` refuses exactly the paths that are not
`Passable`, which `ReadingProofs` defines as what `enter` lets through
(`PassableStep`). That this walk comes to the leaves of `Served` is
`ReadableMeaning`: at most one mentioned path stands for a data path
(`GoverningUnique`), so the last node of the access tree above a leaf decides, and
its mode is the deepest one, unless it has rules below it or is of mode -1. The other is about the walk: a frame of the stack is in step
with the ancestor that it goes back to (`InStepAll`), so that `Back` and
`BackStep` need no memory of how the traveller came; a loop that has children
left is at the traveller's node or above it, not above where `GetValue` began
(`Place`); and what was read together with what the loops, the links and the
rest of an `Enter` have still to read is always what the rules let the host read
(`Account`), which when nothing is left is the property.

`ManageProofs`, for any names, values, JSON bodies and sequences of requests and
restarts: `StoresAgree` (`RestartAgrees`), `MappingsCorrect`
(`MappingsAreLinks`), `ConfigIsKept` (`ConfigKept`), `DeletesAreExact`
(`DeleteExact`), `PostsReplace` (`PostReplaces`), and of the functions alone
`ExpandUndoesFlatten`. Of the constants they use that mapping and rule
directories are different names, that the empty key is not a name of the store,
that bodies are JSON values (`IsJson`: only objects and lists have something below
them) and `KeysAssumption`. The invariant `Inv` has three parts. What is below
`/_metad` in etcd is a link among the mappings or the rules of a host (`KeysOK`),
and the link is below an ip unless a mapping with a key `""`, `"."` or `".."` was
put (`Excuses`): the checks of PutMapping give that of the keys that one request
writes (`MappingPutKeys`), `path.Clean` keeps the names at the front of a key when
no component is `".."` (`CleanKeeps`, by ranks of the components that stay), and a
delete takes keys away, whichever they are. The stores hold nothing else: no mapping is in the
data store and only links are in the mapping store, also with texts and
directories at one path. And as long as no key was the directory of another, the
data store has exactly etcd's data (`Agree`) and the other two are those of a
restart. The last is what needs the history variable: only then does the delete of
a key in the store, which takes the subtree, take what etcd takes. From `Inv` the
data shown is the data held in etcd (`ShownIsHeld`), so the two properties of
requests are about sets of keys: `DeleteKeysAre`, `DirKeysTake`, and
`AllDataFacts` for the delete of `/`, which goes by the names that Expand finds.

Every inductive invariant was also checked by TLC on the instances of section 3.

Only model-checked:

* liveness (`GarbageCollected`, `HiddenValueReturns`, `EventsWake`, `Converges`,
  `RemoveReturnsIfRoom`, `BatchEnds`, `CatchesUp`, `StopEndsFirstWatch`,
  `StopsInStep`), which rests on fairness;
* the agreement of `NodeOps` with `Tree` and of `FlatOps` with `FlatMap`
  (`RecursionAgrees`, `FlatMapRoundTrip`), which is about recursive operators; the
  other half of `FlatMapRoundTrip`, that Expand undoes Flatten, is the theorem
  `ExpandUndoesFlatten`.

## 5. Not modelled

* StopSync's sleeps and Destroy. The signals that StopSync sends are actions of
  `EtcdSync` and `LocalSync`; that everything has ended within its one second,
  after which Destroy takes the tree away and the process exits, is a matter of
  real time.
* The local backend's map of rules, which requests write without a lock, straight
  to the access store: there is no sync of it to model, only the data race.
* What handlers check before they come to the repository (JSON that does not
  parse, subs with a slash, malformed rules): they return an error and change
  nothing. Content negotiation, formats of replies, the management handlers that
  read, configuration, backend selection, logging, the benchmark tool and
  connection set-up hold no protocol state. Atomic counters are wrappers of
  `sync/atomic`, one step each.

The store's models take the empty string out of the values. The code uses it for
"no value": a client's empty string on a directory is lost when the children go.

The data races on `stop` and `cancel` in `internalSync` are modelled as
sequentially consistent reads and writes, which is enough for the stop race.

## 6. What the refuting runs show

* `long_poll_race`: a write between version check and registration is missed
  until the next change, although the comment says "not lost change".
* `aggregate_stuck`: Remove hangs when more events are unread than the aggregate
  channel holds (a burst of more than 50 per mapped path after the reader left).
* `etcd_stop`: a stop signal while the watch is opened again is lost.
* `reading_forbidden`: with the rules `/clusters/*: 0` and `/clusters/*/env: 0` a
  text at `/clusters/cl2` is served. `enter` lets a traveller into a node whose rule
  has rules below it, whatever the rule's own mode, and `GetValue` does not ask for
  the mode of a leaf.

The passing runs' properties stop short of some more facts about the code:

* `DELETE /v1/data/x?subs=b,` deletes `/x` itself, a text or a directory with
  everything below it, since the empty name after the comma joins to `/x`; so does
  `subs=.`, and `subs=..` deletes the parent. docs/api.md:85 promises a delete of
  everything only "unless subs parameter is present", but checkSubs refuses slashes
  only (DeleteMapping skips empty names). `manage` sends such subs; `DeleteExact` is
  about subs that are names.
* `PUT /v1/mapping/<ip>` with `{"..": {"k": "/x"}}` passes checkMapping, and the link
  is put at `/k` of the mapping store, although "mapping's first level key should be
  ip" (metarepo.go:381). `manage` sends it; `MappingsAreLinks` then says only that
  what is put are links.
* A 404 says version 0, since `Root` returns before it reads the version, and
  polling with 0 only waits: data put between two such polls is not reported.
  `Converges` is about clients that hold a version.
* `CheckAccessRules` never fills the set in which it looks for repeated paths;
  such lists are stored and the last rule counts. The lists of `reading` include
  them.
* A rule of mode -1 without rules below it refuses its node although a rule above
  allows it (`Withheld`).
* A request of `/self` whose `aggregateWatcher.Remove` hangs (`aggregate_stuck`)
  never gets its reply; `EventsWake` excepts exactly that.
* POST of `{"..": {"foo": 1}}` to `/x` writes `/foo`: `PostReplaces` is about what
  is below `/x`, and that the rest is where `path.Clean` leads it.
* A watch below a leaf hides the leaf's value, and cleaning shows it again,
  without a new version (`Watch` and `DoClean` of `Store` leave `version`).
* A change of the mapping between two polls of `/self` leaves the version, which
  is the data store's; and a request of `/self/key` is not woken by one.
  `Converges` excepts clients whose mapping changed since their reply.
* After a restart a client's version may be the new process's by chance, and the
  client waits although the data changed (`Coincides`).
* WatchSelf reads the mapping before it watches it (`slipped`).
* A tick that slips between Stop and the drain ends a later batch early: the
  client gets a part of a burst, and its next poll the rest.
* A broken watch may be opened again at revision 0, that is "now", and nothing
  reads what was missed: `InSyncWithoutGap` excepts exactly that.
* With keys at `/a` and at `/a/b`, a delete of `/a` that was decided while the
  put of `/a/b` was on its way deletes one key in etcd and a subtree in the
  store. The runs of `EtcdSync` have keys of which none is the directory of
  another, which is what flatmap makes of one JSON object.
* Also without any concurrency a text and a directory at one path come apart:
  a delete of `/x` deletes the keys below it in etcd and leaves the text, a
  delete of `/` finds only the text and leaves the keys below it, and the stores
  that followed delete both. `RestartAgrees`, `PostReplaces` and `DeleteExact`
  except histories with such a path (`mixed`).
* A POST of a string does not replace a directory: the key is put beside it. A
  POST of an object deletes what is below its path and leaves a text at the path
  itself, which goes on to show when the object has no texts; `PostReplaces` is about
  what is below.
* A request for data below `/_metad` is taken like any other, without the checks of
  the mapping handlers, also one that comes there by `".."`; `Manage` leaves such
  requests out (`KeysAssumption`).
* The rules show as data below `/_metad/rule` after a restart with the default
  prefix, since the initial Get does not filter them as the watch does.
* The delete of `/` deletes each top-level directory by the prefix of its bare
  name: one called `_` takes `/_metad` along (`ConfigKept` excepts it).
* `{"<ip>": {"": "/path"}}`, or with `"."`, passes the checks of a mapping and
  makes the ip itself a link, which `PUT /v1/mapping/<ip>` refuses (`odd`).
* An object with entries like `{"a": {"": {"b": 1}, "b": 2}}` has two entries for
  one key; etcd refuses the transaction, and a POST has by then deleted what was
  there.
* The delete of `/` is a Get and a transaction that deletes what the Get found: a
  key put in between stays. `EtcdSync` and `Manage` make it one commit; no property
  of theirs is about a put that meets a delete of `/`.
* `accessRuleDelete` makes an error reply of its nil error, whose message it
  asks for: the rules are deleted, and the request ends in a panic.
* The local backend's Sync does not wait for the first copy, unlike etcd's.

## 7. Plan

Done: Paths, Tree, NodeOps, KV, Store; Access, Reading, LongPoll with restarts and
`/self/key`, AggregateWatcher with TimerPool, EtcdSync, LocalSync, FlatMap,
FlatOps and Manage, with their runs; the safety properties of all of them are
proved, but for the agreement of the two recursions with their closed forms.

What would come next: a composition of `Manage` and `EtcdSync`, in which requests
meet while the stores are behind; the hazards of `PROJECT.json` without a
property.
