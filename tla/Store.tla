------------------------------- MODULE Store -------------------------------
(***************************************************************************)
(* The in-memory store of store/store.go, store/node.go, store/watcher.go: *)
(* a versioned node tree, its watchers and the goroutine that collects     *)
(* empty directories.                                                      *)
(*                                                                         *)
(* worldLock makes Put, Delete, Watch and one cleaning atomic with respect *)
(* to each other.  PutBulk holds it over a loop of puts in map order, so   *)
(* `bulk', the entries still to put, stands for the lock as well: nothing  *)
(* that needs the lock happens while it is not empty.  Removing a watcher  *)
(* and reading its channel need no worldLock and may happen at any time.   *)
(***************************************************************************)
EXTENDS Tree

CONSTANTS
    Watcher,        \* identities of watchers
    None,           \* no path
    BufLen,         \* capacity of a watcher's channel
    CleanCap,       \* capacity of cleanChan (100 in the code)
    Bulks,          \* the bulks that clients put: sets of <<path, value>>
    MaxVersion      \* bound on the number of changes

ASSUME StoreAssumption ==
    /\ None \notin Path
    /\ BufLen \in Nat \ {0}
    /\ CleanCap \in Nat
    /\ MaxVersion \in Nat
    /\ Bulks \subseteq SUBSET (Path \X Value)
    /\ \A m \in Bulks : IsFiniteSet(m)

VARIABLES
    tree,           \* the nodes reachable from store.Root
    version,        \* store.version
    watchAt,        \* the node each watcher is registered at, or None
    unread,         \* number of events in each watcher's channel
    cleanChan,      \* paths waiting for the cleaning goroutine
    cleaning,       \* path it has received and not handled yet, or None
    lost,           \* history: empty directories whose cleaning store.Clean dropped
    bulk            \* entries that the running PutBulk has still to put

vars == <<tree, version, watchAt, unread, cleanChan, cleaning, lost, bulk>>

TypeOK ==
    /\ tree \in [Path -> Node]
    /\ version \in 0..MaxVersion
    /\ watchAt \in [Watcher -> Path \cup {None}]
    /\ unread \in [Watcher -> 0..BufLen]
    /\ cleanChan \in Seq(Path)
    /\ Len(cleanChan) <= CleanCap
    /\ cleaning \in Path \cup {None}
    /\ lost \subseteq Path
    /\ bulk \subseteq Path \X Value

Init ==
    /\ tree = NewTree
    /\ version = 0
    /\ watchAt = [w \in Watcher |-> None]
    /\ unread = [w \in Watcher |-> 0]
    /\ cleanChan = <<>>
    /\ cleaning = None
    /\ lost = {}
    /\ bulk = {}

-----------------------------------------------------------------------------
Unlocked == bulk = {}

\* node.HasWatcher
Watched == {p \in Path : \E w \in Watcher : watchAt[w] = p}

\* Mutant: internalNotify sends whether or not there is room.
SentBeyondBuf(n, p, es) == n + Cardinality({e \in es : AtOrAbove(p, e.path)})

\* The channel of a watcher registered at p after the events es: internalNotify
\* sends to every watcher on the way to the root and drops what does not fit.
Sent(n, p, es) ==
    LET k == n + Cardinality({e \in es : AtOrAbove(p, e.path)})
    IN  IF k > BufLen THEN BufLen ELSE k

Notify(es) ==
    unread' = [w \in Watcher |->
                 IF watchAt[w] = None THEN unread[w]
                 ELSE Sent(unread[w], watchAt[w], es)]

\* History only: a lost directory that the step fills or removes is not lost.
TrackLost == lost' = {p \in lost : Cleanable(tree', p)}

\* store.internalPut
internalPut(p, v) ==
    /\ version' = version + 1
    /\ tree' = PutTree(tree, p, v)
    /\ Notify(PutEvents(tree, p, v))
    /\ TrackLost

\* store.Put of a string.
Put(p, v) ==
    /\ Unlocked
    /\ version < MaxVersion
    /\ internalPut(p, v)
    /\ UNCHANGED <<watchAt, cleanChan, cleaning, bulk>>

\* store.Put of a map and store.PutBulk: take the lock ...
PutBulk(m) ==
    /\ Unlocked
    /\ version + Cardinality(m) <= MaxVersion
    /\ bulk' = m
    /\ UNCHANGED <<tree, version, watchAt, unread, cleanChan, cleaning, lost>>

\* ... and put the entries one by one, in any order.
PutBulkEntry(e) ==
    /\ e \in bulk
    /\ version < MaxVersion
    /\ internalPut(e[1], e[2])
    /\ bulk' = bulk \ {e}
    /\ UNCHANGED <<watchAt, cleanChan, cleaning>>

\* store.Delete; deleting what is not there changes nothing.
Delete(p) ==
    /\ Unlocked
    /\ Present(tree, p)
    /\ version < MaxVersion
    /\ version' = version + 1
    /\ tree' = RemoveTree(tree, Watched, p)
    /\ Notify(RemoveEvents(tree, Watched, p))
    /\ TrackLost
    /\ UNCHANGED <<watchAt, cleanChan, cleaning, bulk>>

\* store.Watch: creating the nodes may notify other watchers, not the new one.
Watch(w, p) ==
    /\ Unlocked
    /\ watchAt[w] = None
    /\ tree' = WatchTree(tree, p)
    /\ Notify(WatchEvents(tree, p))
    /\ watchAt' = [watchAt EXCEPT ![w] = p]
    /\ TrackLost
    /\ UNCHANGED <<version, cleanChan, cleaning, bulk>>

\* watcher.Remove: close the channel, unregister, and when the node has no
\* watcher left queue it for cleaning; store.Clean drops it when the queue is full.
RemoveWatcher(w) ==
    LET p    == watchAt[w]
        last == \A x \in Watcher \ {w} : watchAt[x] # p
        full == Len(cleanChan) >= CleanCap
    IN  /\ p # None
        /\ watchAt' = [watchAt EXCEPT ![w] = None]
        /\ unread' = [unread EXCEPT ![w] = 0]
        /\ cleanChan' = IF last /\ ~full THEN Append(cleanChan, p) ELSE cleanChan
        /\ lost' = IF last /\ full /\ Cleanable(tree, p) THEN lost \cup {p} ELSE lost
        /\ UNCHANGED <<tree, version, cleaning, bulk>>

\* The owner of a watcher receives an event.
Receive(w) ==
    /\ unread[w] > 0
    /\ unread' = [unread EXCEPT ![w] = @ - 1]
    /\ UNCHANGED <<tree, version, watchAt, cleanChan, cleaning, lost, bulk>>

\* The cleaning goroutine receives a path, and only then asks for the lock.
TakeClean ==
    /\ cleaning = None
    /\ cleanChan # <<>>
    /\ cleaning' = Head(cleanChan)
    /\ cleanChan' = Tail(cleanChan)
    /\ UNCHANGED <<tree, version, watchAt, unread, lost, bulk>>

DoClean ==
    /\ Unlocked
    /\ cleaning # None
    /\ tree' = CleanTree(tree, Watched, cleaning)
    /\ Notify(CleanEvents(tree, Watched, cleaning))
    /\ cleaning' = None
    /\ TrackLost
    /\ UNCHANGED <<version, watchAt, cleanChan, bulk>>

Next ==
    \/ \E p \in Path, v \in Value : Put(p, v)
    \/ \E m \in Bulks : PutBulk(m)
    \/ \E e \in bulk : PutBulkEntry(e)
    \/ \E p \in Path : Delete(p)
    \/ \E w \in Watcher, p \in Path : Watch(w, p)
    \/ \E w \in Watcher : RemoveWatcher(w) \/ Receive(w)
    \/ TakeClean
    \/ DoClean

Spec == Init /\ [][Next]_vars

\* The goroutine runs, a bulk comes to its end, and the mutex behind worldLock
\* is granted to a goroutine that waits for it again and again (Go's starvation
\* mode hands it over in order).
Fairness ==
    /\ WF_vars(TakeClean)
    /\ SF_vars(DoClean)
    /\ WF_vars(\E e \in bulk : PutBulkEntry(e))

FairSpec == Spec /\ Fairness

-----------------------------------------------------------------------------
(* Properties.                                                             *)

\* The pointers form a tree: the root is a directory without a value, every
\* ancestor of an attached node is a directory, and nothing is left of a node
\* that is not attached.
TreeShape == WellFormed(tree)

\* A leaf holds a value that a client put: the empty string by which Remove
\* clears a node never shows as a value.
LeafHasValue == LeavesHoldValues(tree)

\* A node with a watcher stays attached ("do not remove node has watcher"):
\* otherwise the watcher would never hear of the node put in its place.
WatchedAttached == \A p \in Watched : Present(tree, p)

\* A hidden value is hidden by a child: when the last child goes, Clean makes
\* the node a leaf again.
HiddenByChild == HiddenByChildren(tree)

Orphan(p) == p # Root /\ Cleanable(tree, p) /\ p \notin Watched

\* An empty directory that nobody watches waits for the cleaning goroutine,
\* unless store.Clean dropped it.
NoForgottenDir ==
    \A p \in Path : Orphan(p) =>
        \/ \E i \in 1..Len(cleanChan) : cleanChan[i] = p
        \/ cleaning = p
        \/ p \in lost

\* A watcher is notified exactly when what a reader of its node sees changes:
\* no change goes unreported, even by a node that changes its kind, and no
\* event reports nothing.
NotifiedIffChanged ==
    [][\A w \in Watcher :
         watchAt[w] # None /\ watchAt'[w] = watchAt[w] =>
            LET p == watchAt[w]
                changed == Visible(tree, p) # Visible(tree', p)
            IN  /\ changed => unread'[w] > 0
                /\ unread'[w] > unread[w] => changed]_vars

\* An empty directory does not stay for ever, unless its cleaning was dropped.
GarbageCollected == \A p \in Path : Orphan(p) ~> (~Orphan(p) \/ p \in lost)

\* A value that only the placeholders of watchers hide shows again once they
\* are gone: the node becomes a leaf, unless a cleaning was dropped.
HiddenBy(p) == {q \in Path : Above(p, q) /\ (IsLeaf(tree, q) \/ q \in Watched)}

HiddenValueReturns ==
    \A p \in Path :
        []<>(IsDir(tree, p) /\ tree[p].val # Empty => HiddenBy(p) # {} \/ lost # {})

\* Refinement: the tree implements the flat map, hiding no value from it.
Contents == [p \in Path |-> IF IsLeaf(tree, p) \/ tree[p].val # Empty
                            THEN tree[p].val ELSE None]

Flat == INSTANCE KV WITH kv <- Contents, Missing <- None

FlatSpec == Flat!Spec

=============================================================================
