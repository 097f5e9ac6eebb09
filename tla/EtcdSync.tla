------------------------------ MODULE EtcdSync ------------------------------
(***************************************************************************)
(* The etcd backend, backends/etcdv3/client.go: the data that requests     *)
(* write to etcd through metadata/metarepo.go, and internalSync, which     *)
(* keeps a metad's store up to date with a watch on etcd.                  *)
(*                                                                         *)
(* A request never touches the store: it writes to etcd, and the change    *)
(* comes back through the watch.  The store is what module KV promises of  *)
(* it (StoreProofs!ImplementsKV): a map from paths to values in which a    *)
(* delete takes everything below the path along.  etcd is a map of keys    *)
(* without directories.                                                    *)
(*                                                                         *)
(* metad's own prefix in etcd is stripped from the keys, and the keys of   *)
(* the mapping and the access rules are not in it.                         *)
(***************************************************************************)
EXTENDS Paths

CONSTANTS
    Value,          \* values that clients put
    None,           \* no value
    Key,            \* the paths at which clients put values
    Bulks,          \* the maps that clients put: pairs of a path and its entries
    Requester,      \* requests that are served concurrently
    MaxOpsPerTxn,   \* puts in one transaction (128)
    MaxRev,         \* bound on etcd's revision
    MaxBreaks,      \* bound on the number of times the watch breaks
    Compacts        \* whether etcd compacts its history

ASSUME EtcdAssumption ==
    /\ None \notin Value
    /\ Key \subseteq Path \ {Root}
    /\ \A b \in Bulks : b[1] \in Path /\ b[2] \subseteq Key \X Value
    /\ \A b \in Bulks : \A e \in b[2] : Above(b[1], e[1])
    /\ \A b \in Bulks : \A e, f \in b[2] : e[1] = f[1] => e = f
    /\ MaxOpsPerTxn \in Nat \ {0}
    /\ MaxRev \in Nat
    /\ MaxBreaks \in Nat
    /\ Compacts \in BOOLEAN

VARIABLES
    etcd,           \* value of each key
    hist,           \* etcd's history: hist[i] is the changes of revision i
    compact,        \* revisions below this are compacted
    req,            \* what each request has still to do in etcd
    cache,          \* the values in metad's store
    pc,             \* internalSync: where its loop is
    init,           \* internalSync: init
    wgDone,         \* number of calls of initWG.Done
    rev,            \* internalSync: rev
    next,           \* the next revision that the open watch delivers
    todo,           \* changes of the current response not yet processed
    snapshot,       \* result of initStoreFunc's Get
    stop,           \* internalSync: stop
    helper,         \* the goroutine that waits for stopChan
    cancelled,      \* internalSync: ctx is cancelled
    breaks,         \* number of breaks so far
    seen,           \* history: the last revision that the store has processed
    gap             \* history: a watch was opened behind a revision not processed

etcdVars  == <<etcd, hist, compact>>
loopVars  == <<pc, init, wgDone, rev, next, todo, snapshot>>
stopVars  == <<stop, helper, cancelled>>
history   == <<seen, gap>>

vars == <<etcdVars, req, cache, loopVars, stopVars, breaks, history>>

Contents == [Path -> Value \cup {None}]
Nothing  == [p \in Path |-> None]
Change   == [path : Path, val : Value \cup {None}]
Revision == Len(hist)

\* subs: paths of a DeleteData still to look up; del and at: a delete still to
\* make; left: entries still to put.
Idle == [subs |-> {}, del |-> "none", at |-> Root, left |-> {}]

TypeOK ==
    /\ etcd \in Contents
    /\ hist \in Seq(SUBSET Change)
    /\ Len(hist) <= MaxRev
    /\ compact \in 0..MaxRev
    /\ req \in [Requester -> [subs : SUBSET Path, del : {"none", "key", "dir"},
                              at : Path, left : SUBSET (Key \X Value)]]
    /\ cache \in Contents
    /\ pc \in {"top", "create", "init", "initPut", "serve", "done"}
    /\ init \in BOOLEAN
    /\ wgDone \in 0..1
    /\ rev \in 0..MaxRev
    /\ next \in 0..MaxRev + 1
    /\ todo \subseteq Change
    /\ snapshot \in Contents
    /\ stop \in BOOLEAN
    /\ helper \in {"waiting", "cancel", "gone"}
    /\ cancelled \in BOOLEAN
    /\ breaks \in 0..MaxBreaks
    /\ seen \in 0..MaxRev
    /\ gap \in BOOLEAN

Init ==
    /\ \E K \in SUBSET Key : \E f \in [K -> Value] :
          etcd = [p \in Path |-> IF p \in K THEN f[p] ELSE None]
    /\ hist = <<>>
    /\ compact = 0
    /\ req = [r \in Requester |-> Idle]
    /\ cache = Nothing
    /\ pc = "top"
    /\ init = FALSE
    /\ wgDone = 0
    /\ rev = 0
    /\ next = 0
    /\ todo = {}
    /\ snapshot = Nothing
    /\ stop = FALSE
    /\ helper = "waiting"
    /\ cancelled = FALSE
    /\ breaks = 0
    /\ seen = 0
    /\ gap = FALSE

-----------------------------------------------------------------------------
(* Requests.                                                               *)

\* One etcd transaction: a revision with the changes es.
Commit(es) ==
    IF es = {} THEN UNCHANGED etcdVars
    ELSE /\ Revision < MaxRev
         /\ hist' = Append(hist, es)
         /\ etcd' = [p \in Path |->
                       IF \E e \in es : e.path = p
                       THEN (CHOOSE e \in es : e.path = p).val
                       ELSE etcd[p]]
         /\ UNCHANGED compact

metad == <<cache, loopVars, stopVars, breaks, history>>

\* Requests are of interest from the first watch, before which they lead to what
\* another initial state has, to the stop signal.
Followed == ~stop /\ (pc \in {"top", "create"} => init)

Asked(r) == req[r] = Idle /\ Followed

\* internalPut of a string: replace makes no difference.
PutString(r, k, v) ==
    /\ Asked(r)
    /\ Commit({[path |-> k, val |-> v]})
    /\ UNCHANGED <<req, metad>>

\* internalDelete: the key, or all keys with the prefix "path/".
Deleted(del, at) == {k \in Path : /\ etcd[k] # None
                                  /\ IF del = "dir" THEN Above(at, k) ELSE k = at}

Delete(del, at) == Commit({[path |-> k, val |-> None] : k \in Deleted(del, at)})

\* internalPut of a map: with replace the directory is deleted first, in a
\* transaction of its own, and whether that works or not the map is put.
PutMap(r, b, replace) ==
    /\ Asked(r)
    /\ (replace /\ Delete("dir", b[1])) \/ UNCHANGED etcdVars
    /\ req' = [req EXCEPT ![r].left = b[2]]
    /\ UNCHANGED metad

\* MetadataRepo.DeleteData asks the store whether the path is there, and whether
\* it is a directory.
CachedBelow(p) == p = Root \/ \E q \in Path : Above(p, q) /\ cache[q] # None

LookedUp(p, rest) ==
    IF CachedBelow(p) THEN [Idle EXCEPT !.subs = rest, !.del = "dir", !.at = p]
    ELSE IF cache[p] # None THEN [Idle EXCEPT !.subs = rest, !.del = "key", !.at = p]
    ELSE [Idle EXCEPT !.subs = rest]

\* It deletes a path, or some nodes below it (subs), one after the other.
Subs(p) == {c \in Path : c # Root /\ Parent(c) = p}

DeleteData(r, p) ==
    /\ Asked(r)
    /\ \E S \in {{p}} \cup (SUBSET Subs(p) \ {{}}) : \E first \in S :
          req' = [req EXCEPT ![r] = LookedUp(first, S \ {first})]
    /\ UNCHANGED <<etcdVars, metad>>

LookUp(r, p) ==
    /\ Followed
    /\ req[r].del = "none"
    /\ p \in req[r].subs
    /\ req' = [req EXCEPT ![r] = LookedUp(p, req[r].subs \ {p})]
    /\ UNCHANGED <<etcdVars, metad>>

\* The delete.  That of "/" is a Get, to leave out the mapping and the rules, and a
\* transaction that deletes what it found; here the two are one, so that nothing
\* another request puts in between is left over.
EtcdDelete(r) ==
    /\ Followed
    /\ req[r].del # "none"
    /\ Delete(req[r].del, req[r].at)
    /\ req' = [req EXCEPT ![r].del = "none", ![r].at = Root]
    /\ UNCHANGED metad

\* internalPutValues: at most MaxOpsPerTxn entries per transaction, in map order.
EtcdPut(r) ==
    /\ Followed
    /\ \E chunk \in SUBSET req[r].left :
          /\ chunk # {}
          /\ Cardinality(chunk) = MaxOpsPerTxn \/ chunk = req[r].left
          /\ Cardinality(chunk) <= MaxOpsPerTxn
          /\ Commit({[path |-> e[1], val |-> e[2]] : e \in chunk})
          /\ req' = [req EXCEPT ![r].left = @ \ chunk]
    /\ UNCHANGED metad

\* A call of etcd fails: the request ends.
EtcdFails(r) ==
    /\ Followed
    /\ req[r].del # "none" \/ req[r].left # {}
    /\ req' = [req EXCEPT ![r] = Idle]
    /\ UNCHANGED <<etcdVars, metad>>

EtcdCompacts ==
    /\ Compacts
    /\ Followed
    /\ compact < Revision
    /\ compact' = Revision
    /\ UNCHANGED <<etcd, hist, req, cache, loopVars, stopVars, breaks, history>>

-----------------------------------------------------------------------------
(* internalSync.                                                           *)

others == <<etcdVars, req, stopVars>>

\* Mutant: every return calls initWG.Done.
ReturnAlwaysDone ==
    /\ pc' = "done"
    /\ wgDone' = wgDone + 1
    /\ UNCHANGED <<init, rev, next, todo, snapshot, cache>>

Return ==
    /\ pc' = "done"
    /\ wgDone' = IF init THEN wgDone ELSE wgDone + 1
    /\ UNCHANGED <<init, rev, next, todo, snapshot, cache>>

\* if stop { ... return }
CheckStop ==
    /\ pc = "top"
    /\ IF stop THEN Return
       ELSE pc' = "create" /\ UNCHANGED <<init, wgDone, rev, next, todo, snapshot, cache>>
    /\ UNCHANGED <<others, breaks, history>>

\* ctx, cancel = context.WithCancel(...); c.client.Watch(ctx, ..., WithRev(rev)):
\* from the next revision on when rev is 0, else from rev on.  When etcd has
\* compacted rev, the channel yields a response with etcd's revision and closes.
OpenWatch ==
    /\ pc = "create"
    /\ cancelled' = FALSE
    /\ IF 0 < rev /\ rev < compact
       THEN pc' = "top" /\ rev' = Revision /\ UNCHANGED next
       ELSE /\ pc' = IF init THEN "serve" ELSE "init"
            /\ next' = IF rev = 0 THEN Revision + 1 ELSE rev
            /\ UNCHANGED rev
    /\ seen' = IF init THEN seen ELSE Revision
    /\ gap' = (gap \/ (init /\ pc' = "serve" /\ next' > seen + 1))
    /\ UNCHANGED <<init, wgDone, todo, snapshot, cache, etcdVars, req, stop, helper, breaks>>

\* for !init: initStoreFunc reads all keys and puts them in the store.  While the
\* Get fails the loop repeats this step.
InitGet ==
    /\ pc = "init"
    /\ IF stop THEN Return
       ELSE /\ pc' = "initPut"
            /\ snapshot' = etcd
            /\ UNCHANGED <<init, wgDone, rev, next, todo, cache>>
    /\ UNCHANGED <<others, breaks, history>>

\* Mutant: the watch starts when the store has been filled.
InitPutThenWatch ==
    /\ pc = "initPut"
    /\ cache' = [p \in Path |-> IF snapshot[p] # None THEN snapshot[p] ELSE cache[p]]
    /\ snapshot' = Nothing
    /\ init' = TRUE
    /\ wgDone' = wgDone + 1
    /\ pc' = "serve"
    /\ next' = Revision + 1
    /\ UNCHANGED <<rev, todo, others, breaks, history>>

\* Mutant: initWG.Done is left to the return.
InitPutNotDone ==
    /\ pc = "initPut"
    /\ cache' = [p \in Path |-> IF snapshot[p] # None THEN snapshot[p] ELSE cache[p]]
    /\ snapshot' = Nothing
    /\ init' = TRUE
    /\ pc' = "serve"
    /\ UNCHANGED <<wgDone, rev, next, todo, others, breaks, history>>

InitPut ==
    /\ pc = "initPut"
    /\ cache' = [p \in Path |-> IF snapshot[p] # None THEN snapshot[p] ELSE cache[p]]
    /\ snapshot' = Nothing
    /\ init' = TRUE
    /\ wgDone' = wgDone + 1
    /\ pc' = "serve"
    /\ UNCHANGED <<rev, next, todo, others, breaks, history>>

\* Mutant: the last revision is left for the next one.
ReceiveRespLate ==
    /\ pc = "serve"
    /\ todo = {}
    /\ next < Revision
    /\ todo' = hist[next]
    /\ next' = next + 1
    /\ UNCHANGED <<pc, init, wgDone, rev, snapshot, cache, others, breaks, history>>

\* for resp := range watchChan
ReceiveResp ==
    /\ pc = "serve"
    /\ todo = {}
    /\ next <= Revision
    /\ todo' = hist[next]
    /\ next' = next + 1
    /\ UNCHANGED <<pc, init, wgDone, rev, snapshot, cache, others, breaks, history>>

\* newProcessSyncChangeFunc: store.Put or store.Delete.
Processed(e) ==
    IF e.val # None THEN [cache EXCEPT ![e.path] = e.val]
    ELSE [p \in Path |-> IF AtOrAbove(e.path, p) THEN None ELSE cache[p]]

\* The events of one response, and rev = resp.Header.Revision after the last.
ProcessChange(e) ==
    /\ e \in todo
    /\ cache' = Processed(e)
    /\ todo' = todo \ {e}
    /\ rev' = IF todo = {e} THEN next - 1 ELSE rev
    /\ seen' = IF todo = {e} /\ seen < next - 1 THEN next - 1 ELSE seen
    /\ UNCHANGED <<pc, init, wgDone, next, snapshot, others, breaks, gap>>

\* watchChan is closed because its context was cancelled.
WatchCancelled ==
    /\ pc = "serve"
    /\ todo = {}
    /\ cancelled
    /\ pc' = "top"
    /\ next' = 0
    /\ UNCHANGED <<init, wgDone, rev, todo, snapshot, cache, others, breaks, history>>

\* The etcd client gives the stream up and closes watchChan, after a response
\* that holds the error and no revision, or, if that cannot be sent, without.
WatchBreaks ==
    /\ pc = "serve"
    /\ todo = {}
    /\ breaks < MaxBreaks
    /\ breaks' = breaks + 1
    /\ rev' \in {0, rev}
    /\ pc' = "top"
    /\ next' = 0
    /\ UNCHANGED <<init, wgDone, todo, snapshot, cache, others, history>>

\* The helper goroutine: <-stopChan; stop = true ...
StopSignal ==
    /\ helper = "waiting"
    /\ stop' = TRUE
    /\ helper' = "cancel"
    /\ UNCHANGED <<etcdVars, req, cache, loopVars, cancelled, breaks, history>>

\* Mutant: the helper only sets stop.
HelperLogsOnly ==
    /\ helper = "cancel"
    /\ helper' = "gone"
    /\ UNCHANGED <<etcdVars, req, cache, loopVars, stop, cancelled, breaks, history>>

\* ... if cancel != nil { cancel() }: the context of that moment.
HelperCancels ==
    /\ helper = "cancel"
    /\ helper' = "gone"
    /\ cancelled' = TRUE
    /\ UNCHANGED <<etcdVars, req, cache, loopVars, stop, breaks, history>>

internalSync ==
    \/ CheckStop
    \/ OpenWatch
    \/ InitGet
    \/ InitPut
    \/ ReceiveResp
    \/ \E e \in todo : ProcessChange(e)
    \/ WatchCancelled

Next ==
    \/ \E r \in Requester :
          \/ \E k \in Key, v \in Value : PutString(r, k, v)
          \/ \E b \in Bulks, replace \in BOOLEAN : PutMap(r, b, replace)
          \/ \E p \in Path : DeleteData(r, p) \/ LookUp(r, p)
          \/ EtcdDelete(r)
          \/ EtcdPut(r)
          \/ EtcdFails(r)
    \/ EtcdCompacts
    \/ internalSync
    \/ WatchBreaks
    \/ StopSignal
    \/ HelperCancels

Spec == Init /\ [][Next]_vars

\* Goroutines that can go on do, and etcd answers a Get that is retried.
FairSpec == Spec /\ WF_vars(internalSync) /\ WF_vars(HelperCancels)

-----------------------------------------------------------------------------
(* Properties.                                                             *)

CaughtUp == init /\ pc = "serve" /\ todo = {} /\ next > Revision

\* A store that has processed everything the watch has to deliver holds what
\* etcd holds, although the watch starts before the initial Get and repeats
\* changes that the Get saw already, a watch that is opened again repeats the
\* last revision, and calls of a request fail half way.  Only a gap in the
\* watched revisions can leave it behind.
InSyncWithoutGap == CaughtUp /\ ~gap => cache = etcd

\* Sync, which waits for initWG, returns once: Done is called at the first
\* successful init or by the return that comes before it, and a second call
\* would panic.
InitSignalledOnce == (init \/ pc = "done") <=> wgDone = 1

\* The store gets to what etcd holds and stays there when etcd is left alone,
\* although the watch breaks: only revisions that no watch delivered are missing.
CatchesUp == <>[](stop \/ gap \/ cache = etcd)

\* A stop signal ends the loop at whichever point of its first watch it comes.
StopEndsFirstWatch == stop ~> (pc = "done" \/ breaks > 0)

\* After a value on stopChan the loop ends ("expect internalSync not block after
\* stopChan has signal").
StopEnds == stop ~> pc = "done"

=============================================================================
