---------------------------- MODULE StoreProofs ----------------------------
(***************************************************************************)
(* The store keeps its tree in order, its watched nodes attached and its   *)
(* garbage accounted for, implements a flat map and notifies exactly of    *)
(* changes: for any set of paths and values, any number of watchers and    *)
(* any capacity of the channels.                                           *)
(***************************************************************************)
EXTENDS Store, TreeProofs

(* TreeShape, WatchedAttached and NoForgottenDir are inductive only        *)
(* together: a removal keeps the watched nodes because they are attached,  *)
(* and leaves no forgotten directory because no value is hidden in a node  *)
(* without children.                                                       *)
Inv ==
    /\ TypeOK
    /\ TreeShape
    /\ LeafHasValue
    /\ HiddenByChild
    /\ WatchedAttached
    /\ NoForgottenDir

-----------------------------------------------------------------------------
(* Channels.                                                               *)

\* internalNotify never fills a channel beyond its capacity.
LEMMA SentType ==
    ASSUME NEW n \in 0..BufLen, NEW p, NEW es \in SUBSET Event
    PROVE  Sent(n, p, es) \in 0..BufLen
  <1> DEFINE here == {e \in es : AtOrAbove(p, e.path)}
  <1>1. here \in SUBSET Event
    OBVIOUS
  <1>2. Cardinality(here) \in Nat
    BY <1>1, EventsFinite, FS_CardinalityType
  <1>3. BufLen \in Nat
    BY StoreAssumption
  <1> HIDE DEF here
  <1> QED
    BY <1>2, <1>3 DEF Sent, here

\* Notifying the watchers keeps every channel within its capacity.
LEMMA NotifyType ==
    ASSUME TypeOK, NEW es \in SUBSET Event, Notify(es)
    PROVE  unread' \in [Watcher -> 0..BufLen]
  <1>1. \A w \in Watcher : unread[w] \in 0..BufLen
    BY DEF TypeOK
  <1>2. \A w \in Watcher : Sent(unread[w], watchAt[w], es) \in 0..BufLen
    BY <1>1, SentType
  <1> QED
    BY <1>1, <1>2 DEF Notify

-----------------------------------------------------------------------------
(* Steps.                                                                  *)

\* What the lemmas on trees need of the store's tree.
LEMMA TreeInv == ASSUME Inv PROVE TreeOK(tree)
  BY DEF Inv, TypeOK, TreeShape, LeafHasValue, HiddenByChild, TreeOK

\* The nodes for which HasWatcher holds are attached.
LEMMA WatchedFacts ==
    ASSUME Inv
    PROVE  Watched \in SUBSET Path /\ \A w \in Watched : Present(tree, w)
  BY DEF Watched, Inv, WatchedAttached

\* internalPut, from Put or from a bulk.
LEMMA PutStep ==
    ASSUME Inv, NEW p \in Path, NEW v \in Value, internalPut(p, v),
           version < MaxVersion, bulk' \subseteq bulk,
           UNCHANGED <<watchAt, cleanChan, cleaning>>
    PROVE  Inv'
  <1>1. /\ TreeOK(tree')
        /\ \A q \in Path : Present(tree, q) => Present(tree', q)
        /\ \A q \in Path : Cleanable(tree', q) => Cleanable(tree, q)
    BY TreeInv, PutPreserves DEF internalPut
  <1>2. TypeOK'
    <2>1. tree' \in [Path -> Node]
      BY <1>1 DEF TreeOK
    <2>2. unread' \in [Watcher -> 0..BufLen]
      BY EventTypes, NotifyType DEF internalPut, Inv
    <2>3. version' \in 0..MaxVersion
      BY StoreAssumption DEF internalPut, Inv, TypeOK
    <2> QED
      BY <2>1, <2>2, <2>3 DEF Inv, TypeOK, internalPut, TrackLost
  <1>3. TreeShape' /\ LeafHasValue' /\ HiddenByChild'
    BY <1>1 DEF TreeOK, TreeShape, LeafHasValue, HiddenByChild
  <1>4. Watched' = Watched
    BY DEF Watched
  <1>5. WatchedAttached'
    BY <1>1, <1>4, WatchedFacts DEF WatchedAttached
  <1>6. NoForgottenDir'
    BY <1>1, <1>4 DEF Inv, NoForgottenDir, Orphan, internalPut, TrackLost
  <1> QED
    BY <1>2, <1>3, <1>5, <1>6 DEF Inv

\* store.Delete preserves the invariant: node.Remove leaves no empty directory
\* behind that was not empty before.
LEMMA DeleteStep ==
    ASSUME Inv, NEW p \in Path, Delete(p)
    PROVE  Inv'
  <1>1. /\ TreeOK(tree')
        /\ \A w \in Watched : Present(tree', w)
        /\ \A q \in Path : Cleanable(tree', q) /\ q # Root /\ q \notin Watched =>
               Cleanable(tree, q)
    BY TreeInv, WatchedFacts, RemovePreserves DEF Delete
  <1>2. TypeOK'
    <2>1. tree' \in [Path -> Node]
      BY <1>1 DEF TreeOK
    <2>2. unread' \in [Watcher -> 0..BufLen]
      BY EventTypes, NotifyType DEF Delete, Inv
    <2>3. version' \in 0..MaxVersion
      BY StoreAssumption DEF Delete, Inv, TypeOK
    <2> QED
      BY <2>1, <2>2, <2>3 DEF Inv, TypeOK, Delete, TrackLost
  <1>3. TreeShape' /\ LeafHasValue' /\ HiddenByChild'
    BY <1>1 DEF TreeOK, TreeShape, LeafHasValue, HiddenByChild
  <1>4. Watched' = Watched
    BY DEF Watched, Delete
  <1>5. WatchedAttached'
    BY <1>1, <1>4 DEF WatchedAttached
  <1>6. NoForgottenDir'
    BY <1>1, <1>4 DEF Inv, NoForgottenDir, Orphan, Delete, TrackLost
  <1> QED
    BY <1>2, <1>3, <1>5, <1>6 DEF Inv

\* store.Watch preserves the invariant: the one empty directory that it may
\* leave is the watched one.
LEMMA WatchStep ==
    ASSUME Inv, NEW w \in Watcher, NEW p \in Path, Watch(w, p)
    PROVE  Inv'
  <1>1. /\ TreeOK(tree')
        /\ Present(tree', p)
        /\ \A q \in Path : Present(tree, q) => Present(tree', q)
        /\ \A q \in Path : Cleanable(tree', q) => q = p \/ Cleanable(tree, q)
    BY TreeInv, WatchPreserves DEF Watch
  <1>2. TypeOK'
    <2>1. tree' \in [Path -> Node]
      BY <1>1 DEF TreeOK
    <2>2. unread' \in [Watcher -> 0..BufLen]
      BY EventTypes, NotifyType DEF Watch, Inv
    <2> QED
      BY <2>1, <2>2 DEF Inv, TypeOK, Watch, TrackLost
  <1>3. TreeShape' /\ LeafHasValue' /\ HiddenByChild'
    BY <1>1 DEF TreeOK, TreeShape, LeafHasValue, HiddenByChild
  <1>4. Watched' = Watched \cup {p}
    BY StoreAssumption DEF Watched, Watch, Inv, TypeOK
  <1>5. WatchedAttached'
    BY <1>1, <1>4, WatchedFacts DEF WatchedAttached
  <1>6. NoForgottenDir'
    BY <1>1, <1>4 DEF Inv, NoForgottenDir, Orphan, Watch, TrackLost
  <1> QED
    BY <1>2, <1>3, <1>5, <1>6 DEF Inv

\* watcher.Remove preserves the invariant: the node that loses its last watcher
\* is queued for cleaning, or recorded as lost when the queue is full.
LEMMA RemoveWatcherStep ==
    ASSUME Inv, NEW w \in Watcher, RemoveWatcher(w)
    PROVE  Inv'
  <1> DEFINE p    == watchAt[w]
             last == \A x \in Watcher \ {w} : watchAt[x] # p
             full == Len(cleanChan) >= CleanCap
  <1>1. /\ p # None
        /\ watchAt' = [watchAt EXCEPT ![w] = None]
        /\ unread' = [unread EXCEPT ![w] = 0]
        /\ last /\ ~full => cleanChan' = Append(cleanChan, p)
        /\ ~(last /\ ~full) => cleanChan' = cleanChan
        /\ last /\ full /\ Cleanable(tree, p) => lost' = lost \cup {p}
        /\ ~(last /\ full /\ Cleanable(tree, p)) => lost' = lost
        /\ UNCHANGED <<tree, version, cleaning, bulk>>
    BY DEF RemoveWatcher
  <1>2. p \in Path
    BY <1>1 DEF Inv, TypeOK
  <1> HIDE DEF p, last, full
  <1>3. cleanChan \in Seq(Path) /\ Len(cleanChan) \in Nat /\ CleanCap \in Nat
        /\ Len(cleanChan) <= CleanCap
    BY StoreAssumption DEF Inv, TypeOK
  <1>4. cleanChan' \in Seq(Path) /\ Len(cleanChan') <= CleanCap
    BY <1>1, <1>2, <1>3 DEF full
  <1>5. TypeOK'
    <2>1. watchAt' \in [Watcher -> Path \cup {None}]
      BY <1>1 DEF Inv, TypeOK
    <2>2. unread' \in [Watcher -> 0..BufLen]
      BY <1>1, StoreAssumption DEF Inv, TypeOK
    <2>3. lost' \subseteq Path
      BY <1>1, <1>2 DEF Inv, TypeOK
    <2> QED
      BY <1>1, <1>4, <2>1, <2>2, <2>3 DEF Inv, TypeOK
  <1>6. TreeShape' /\ LeafHasValue' /\ HiddenByChild'
    BY <1>1 DEF Inv, TreeShape, LeafHasValue, HiddenByChild
  <1>7. Watched' \subseteq Watched /\ Watched \ Watched' \subseteq {p}
    BY <1>1, <1>2, StoreAssumption DEF Watched, Inv, TypeOK, p
  <1>8. WatchedAttached'
    BY <1>1, <1>7 DEF Inv, WatchedAttached
  <1>9. NoForgottenDir'
    <2> SUFFICES ASSUME NEW q \in Path, Orphan(q)'
                 PROVE  \/ \E i \in 1..Len(cleanChan') : cleanChan'[i] = q
                        \/ cleaning' = q
                        \/ q \in lost'
      BY DEF NoForgottenDir
    <2>1. Cleanable(tree, q) /\ q # Root
      BY <1>1 DEF Orphan
    <2>2. \A i \in 1..Len(cleanChan) : i \in 1..Len(cleanChan') /\ cleanChan'[i] = cleanChan[i]
      BY <1>1, <1>2, <1>3
    <2>3. CASE q \notin Watched
      <3>1. \/ \E i \in 1..Len(cleanChan) : cleanChan[i] = q
            \/ cleaning = q
            \/ q \in lost
        BY <2>1, <2>3 DEF Inv, NoForgottenDir, Orphan
      <3> QED
        BY <1>1, <2>2, <3>1
    <2>4. CASE q \in Watched
      <3>1. q = p
        BY <1>7, <2>4 DEF Orphan
      <3>2. last
        BY <1>1, <3>1 DEF Orphan, Watched, last, Inv, TypeOK
      <3>3. CASE full
        BY <1>1, <2>1, <3>1, <3>2, <3>3
      <3>4. CASE ~full
        <4>1. cleanChan' = Append(cleanChan, p)
          BY <1>1, <3>2, <3>4
        <4>2. Len(cleanChan') = Len(cleanChan) + 1 /\ cleanChan'[Len(cleanChan) + 1] = p
          BY <1>2, <1>3, <4>1
        <4> QED
          BY <1>3, <3>1, <4>2
      <3> QED
        BY <3>3, <3>4
    <2> QED
      BY <2>3, <2>4
  <1> QED
    BY <1>5, <1>6, <1>8, <1>9 DEF Inv

\* Receiving from cleanChan preserves the invariant: the path moves from the
\* queue to the goroutine.
LEMMA TakeCleanStep ==
    ASSUME Inv, TakeClean
    PROVE  Inv'
  <1>1. /\ cleanChan \in Seq(Path) /\ cleanChan # <<>> /\ Len(cleanChan) <= CleanCap
        /\ Head(cleanChan) \in Path /\ Tail(cleanChan) \in Seq(Path)
        /\ Len(Tail(cleanChan)) = Len(cleanChan) - 1
        /\ \A i \in 1..Len(cleanChan) :
              cleanChan[i] = Head(cleanChan) \/ \E j \in 1..Len(Tail(cleanChan)) :
                                                  Tail(cleanChan)[j] = cleanChan[i]
    <2>1. cleanChan \in Seq(Path) /\ cleanChan # <<>> /\ Len(cleanChan) <= CleanCap
      BY DEF Inv, TypeOK, TakeClean
    <2>2. /\ Head(cleanChan) \in Path /\ Tail(cleanChan) \in Seq(Path)
          /\ Len(Tail(cleanChan)) = Len(cleanChan) - 1
          /\ \A j \in 1..Len(Tail(cleanChan)) : Tail(cleanChan)[j] = cleanChan[j + 1]
      BY <2>1, HeadTailProperties
    <2>3. ASSUME NEW i \in 1..Len(cleanChan), i # 1
          PROVE  i - 1 \in 1..Len(Tail(cleanChan)) /\ Tail(cleanChan)[i - 1] = cleanChan[i]
      BY <2>1, <2>2, <2>3
    <2>4. cleanChan[1] = Head(cleanChan)
      BY <2>1
    <2> QED
      BY <2>1, <2>2, <2>3, <2>4
  <1>2. TypeOK'
    BY <1>1, StoreAssumption DEF Inv, TypeOK, TakeClean
  <1>3. Watched' = Watched
    BY DEF Watched, TakeClean
  <1>4. NoForgottenDir'
    <2> SUFFICES ASSUME NEW q \in Path, Orphan(q)'
                 PROVE  \/ \E i \in 1..Len(cleanChan') : cleanChan'[i] = q
                        \/ cleaning' = q
                        \/ q \in lost'
      BY DEF NoForgottenDir
    <2>1. Orphan(q)
      BY <1>3 DEF Orphan, TakeClean
    <2>2. (\E i \in 1..Len(cleanChan) : cleanChan[i] = q) \/ q \in lost
      BY <2>1, StoreAssumption DEF Inv, NoForgottenDir, TakeClean
    <2> QED
      BY <1>1, <2>2 DEF TakeClean
  <1> QED
    BY <1>2, <1>3, <1>4
       DEF Inv, TakeClean, TreeShape, LeafHasValue, HiddenByChild, WatchedAttached

\* node.Clean in the goroutine preserves the invariant: the cleaned node goes,
\* becomes a leaf, or is in use.
LEMMA DoCleanStep ==
    ASSUME Inv, DoClean
    PROVE  Inv'
  <1>0. cleaning \in Path
    BY DEF Inv, TypeOK, DoClean
  <1>1. /\ TreeOK(tree')
        /\ \A w \in Watched : Present(tree', w)
        /\ \A q \in Path : Cleanable(tree', q) /\ q # Root /\ q \notin Watched =>
               Cleanable(tree, q) /\ q # cleaning
    BY <1>0, TreeInv, WatchedFacts, CleanPreserves DEF DoClean
  <1>2. TypeOK'
    <2>1. tree' \in [Path -> Node]
      BY <1>1 DEF TreeOK
    <2>2. unread' \in [Watcher -> 0..BufLen]
      BY <1>0, EventTypes, NotifyType DEF DoClean, Inv
    <2> QED
      BY <2>1, <2>2 DEF Inv, TypeOK, DoClean, TrackLost
  <1>3. TreeShape' /\ LeafHasValue' /\ HiddenByChild'
    BY <1>1 DEF TreeOK, TreeShape, LeafHasValue, HiddenByChild
  <1>4. Watched' = Watched
    BY DEF Watched, DoClean
  <1>5. WatchedAttached'
    BY <1>1, <1>4 DEF WatchedAttached
  <1>6. NoForgottenDir'
    BY <1>1, <1>4 DEF Inv, NoForgottenDir, Orphan, DoClean, TrackLost
  <1> QED
    BY <1>2, <1>3, <1>5, <1>6 DEF Inv

\* newStore establishes the invariant.
LEMMA InvInit == Init => Inv
  <1> SUFFICES ASSUME Init PROVE Inv
    OBVIOUS
  <1>1. \A p \in Path : Present(tree, p) => p = Root
    BY DEF Init, NewTree, Present, Absent
  <1>2. Root \in Path /\ tree[Root] = EmptyDir /\ \A p \in Path : p # Root => tree[p] = Absent
    BY PathAssumption DEF Init, NewTree, Root
  <1>3. TypeOK
    BY StoreAssumption DEF Init, TypeOK, NewTree, Node, Kind, Data, EmptyDir, Absent
  <1>4. TreeShape
    <2>1. ASSUME NEW q \in Path, Above(q, Root) PROVE FALSE
      BY <1>2, <2>1, RootAbove, AboveAntisym DEF Above
    <2> QED
      BY <1>1, <1>2, <2>1 DEF TreeShape, WellFormed, Present, EmptyDir
  <1>5. LeafHasValue /\ HiddenByChild
    BY <1>2 DEF LeafHasValue, LeavesHoldValues, HiddenByChild, HiddenByChildren,
                IsLeaf, EmptyDir, Absent
  <1>6. WatchedAttached
    BY StoreAssumption DEF Init, WatchedAttached, Watched
  <1>7. NoForgottenDir
    BY <1>2 DEF NoForgottenDir, Orphan, Cleanable, IsDir, Absent
  <1> QED
    BY <1>3, <1>4, <1>5, <1>6, <1>7 DEF Inv

\* Every operation of the store preserves the invariant.
LEMMA InvNext == Inv /\ [Next]_vars => Inv'
  <1> SUFFICES ASSUME Inv, [Next]_vars PROVE Inv'
    OBVIOUS
  <1>1. ASSUME NEW p \in Path, NEW v \in Value, Put(p, v) PROVE Inv'
    BY <1>1, PutStep DEF Put
  <1>2. ASSUME NEW m \in Bulks, PutBulk(m) PROVE Inv'
    <2>1. Watched' = Watched
      BY <1>2 DEF PutBulk, Watched
    <2> QED
      BY <1>2, <2>1, StoreAssumption
         DEF PutBulk, Inv, TypeOK, TreeShape, LeafHasValue, HiddenByChild,
             WatchedAttached, NoForgottenDir, Orphan
  <1>3. ASSUME NEW e \in bulk, PutBulkEntry(e) PROVE Inv'
    <2>1. e[1] \in Path /\ e[2] \in Value
      BY DEF Inv, TypeOK
    <2> QED
      BY <1>3, <2>1, PutStep DEF PutBulkEntry
  <1>4. ASSUME NEW p \in Path, Delete(p) PROVE Inv'
    BY <1>4, DeleteStep
  <1>5. ASSUME NEW w \in Watcher, NEW p \in Path, Watch(w, p) PROVE Inv'
    BY <1>5, WatchStep
  <1>6. ASSUME NEW w \in Watcher, RemoveWatcher(w) PROVE Inv'
    BY <1>6, RemoveWatcherStep
  <1>7. ASSUME NEW w \in Watcher, Receive(w) PROVE Inv'
    <2>1. Watched' = Watched
      BY <1>7 DEF Receive, Watched
    <2>2. unread' \in [Watcher -> 0..BufLen]
      BY <1>7, StoreAssumption DEF Receive, Inv, TypeOK
    <2> QED
      BY <1>7, <2>1, <2>2
         DEF Receive, Inv, TypeOK, TreeShape, LeafHasValue, HiddenByChild,
             WatchedAttached, NoForgottenDir, Orphan
  <1>8. ASSUME TakeClean PROVE Inv'
    BY <1>8, TakeCleanStep
  <1>9. ASSUME DoClean PROVE Inv'
    BY <1>9, DoCleanStep
  <1>10. ASSUME UNCHANGED vars PROVE Inv'
    <2>1. Watched' = Watched
      BY <1>10 DEF vars, Watched
    <2> QED
      BY <1>10, <2>1
         DEF vars, Inv, TypeOK, TreeShape, LeafHasValue, HiddenByChild,
             WatchedAttached, NoForgottenDir, Orphan
  <1> QED
    BY <1>1, <1>2, <1>3, <1>4, <1>5, <1>6, <1>7, <1>8, <1>9, <1>10 DEF Next

\* The inductive invariant holds in every reachable state.
THEOREM Invariance == Spec => []Inv
  BY InvInit, InvNext, PTL DEF Spec

\* Type correctness of the store.
THEOREM TypeCorrect == Spec => []TypeOK
  <1>1. Inv => TypeOK
    BY DEF Inv
  <1> QED
    BY <1>1, Invariance, PTL

\* The node tree keeps its shape under puts, deletes, watches, removals of
\* watchers and cleanings in any order.
THEOREM ShapeKept == Spec => []TreeShape
  <1>1. Inv => TreeShape
    BY DEF Inv
  <1> QED
    BY <1>1, Invariance, PTL

\* Every leaf holds a value that a client put: node.Remove, which clears a node's
\* value, never leaves a cleared leaf to be read.
THEOREM LeavesHaveValues == Spec => []LeafHasValue
  <1>1. Inv => LeafHasValue
    BY DEF Inv
  <1> QED
    BY <1>1, Invariance, PTL

\* node.Remove and node.Clean never detach a node that has a watcher, however
\* they cascade.
THEOREM WatchedStayAttached == Spec => []WatchedAttached
  <1>1. Inv => WatchedAttached
    BY DEF Inv
  <1> QED
    BY <1>1, Invariance, PTL

\* A node without children hides no value: node.Clean brings it back.
THEOREM HiddenValuesHaveChildren == Spec => []HiddenByChild
  <1>1. Inv => HiddenByChild
    BY DEF Inv
  <1> QED
    BY <1>1, Invariance, PTL

\* An empty directory that nobody watches is queued, being cleaned, or known
\* to have been dropped by store.Clean.
THEOREM GarbageAccounted == Spec => []NoForgottenDir
  <1>1. Inv => NoForgottenDir
    BY DEF Inv
  <1> QED
    BY <1>1, Invariance, PTL

-----------------------------------------------------------------------------
(* The refinement.  Between Value and "no value" the code distinguishes by *)
(* the empty string, so the mapping needs that no client puts it.          *)

\* What the tree t contributes to the flat map at the path q.
ContentsOf(t, q) == IF IsLeaf(t, q) \/ t[q].val # Empty THEN t[q].val ELSE None

\* The value at a path decides; its kind does not.
LEMMA ContentsByValue ==
    ASSUME NEW t, TreeOK(t), Empty \notin Value, NEW q \in Path
    PROVE  ContentsOf(t, q) = IF t[q].val = Empty THEN None ELSE t[q].val
  BY DEF TreeOK, LeavesHoldValues, ContentsOf

\* internalPut changes the value at its path and no other.
LEMMA PutContents ==
    ASSUME Inv, Empty \notin Value, NEW p \in Path, NEW v \in Value, internalPut(p, v),
           TreeOK(tree')
    PROVE  Contents' = IF p = Root THEN Contents ELSE [Contents EXCEPT ![p] = v]
  <1>1. TreeOK(tree)
    BY TreeInv
  <1>2. CASE p = Root
    BY <1>2 DEF internalPut, PutTree, Contents, IsLeaf
  <1>3. CASE p # Root
    <2>1. /\ tree'[p].val = v
          /\ \A q \in Path : q # p => tree'[q].val = tree[q].val
      BY <1>1, <1>3, PutNodes DEF TreeOK, internalPut
    <2>2. ContentsOf(tree', p) = v
      BY <2>1, ContentsByValue
    <2>3. \A q \in Path : q # p => ContentsOf(tree', q) = ContentsOf(tree, q)
      BY <1>1, <2>1, ContentsByValue
    <2>4. Contents = [q \in Path |-> ContentsOf(tree, q)]
      BY DEF Contents, ContentsOf
    <2>5. Contents' = [q \in Path |-> ContentsOf(tree', q)]
      BY DEF Contents, ContentsOf, IsLeaf
    <2> QED
      BY <1>3, <2>2, <2>3, <2>4, <2>5
  <1> QED
    BY <1>2, <1>3

\* Removing the node at p removes the values at and below p and no other.
LEMMA RemoveContents ==
    ASSUME NEW t, TreeOK(t), Empty \notin Value, NEW W \in SUBSET Path, NEW p \in Path,
           Present(t, p), TreeOK(RemoveTree(t, W, p)), NEW q \in Path
    PROVE  ContentsOf(RemoveTree(t, W, p), q) =
              IF AtOrAbove(p, q) THEN None ELSE ContentsOf(t, q)
  <1> DEFINE u == RemoveTree(t, W, p)
             G == Removed(t, W, p)
  <1>1. /\ q \in G => u[q] = Absent
        /\ q \notin G /\ AtOrAbove(p, q) => u[q] = EmptyDir
        /\ q \notin G /\ ~AtOrAbove(p, q) => u[q].val = t[q].val
    BY RemoveNodes DEF TreeOK
  <1>2. CASE AtOrAbove(p, q)
    BY <1>1, <1>2 DEF ContentsOf, IsLeaf, Absent, EmptyDir
  <1>3. CASE ~AtOrAbove(p, q)
    <2>1. u[q].val = t[q].val
      <3>1. CASE q \in G
        <4>1. q \in RemovedAbove(t, W, p)
          BY <1>3, <3>1 DEF Removed, RemovedBelow
        <4>2. IsDir(t, q)
          BY <4>1 DEF RemovedAbove, TreeOK, WellFormed
        <4>3. t[q].val = Empty
          BY <1>3, <4>1, <4>2, AboveRefl DEF RemovedAbove, Present, IsDir
        <4> QED
          BY <1>1, <3>1, <4>3 DEF Absent
      <3>2. CASE q \notin G
        BY <1>1, <1>3, <3>2
      <3> QED
        BY <3>1, <3>2
    <2> QED
      BY <1>3, <2>1, ContentsByValue
  <1> QED
    BY <1>2, <1>3

\* Every step of the store is a step of the flat map, or changes neither the
\* map nor the version.
LEMMA StepRefines ==
    ASSUME Empty \notin Value, Inv, Inv', [Next]_vars
    PROVE  [Flat!Next]_(Flat!vars)
  <1>1. TreeOK(tree)
    BY TreeInv
  <1>2. TreeOK(tree')
    BY DEF Inv, TypeOK, TreeShape, LeafHasValue, HiddenByChild, TreeOK
  <1>3. /\ Contents = [q \in Path |-> ContentsOf(tree, q)]
        /\ Contents' = [q \in Path |-> ContentsOf(tree', q)]
    BY DEF Contents, ContentsOf, IsLeaf
  <1>4. ASSUME NEW p \in Path, NEW v \in Value, internalPut(p, v), version < MaxVersion
        PROVE  Flat!Next
    <2>1. Flat!Put(p, v)
      BY <1>2, <1>4, PutContents DEF Flat!Put, internalPut, Flat!Root, Root
    <2> QED
      BY <2>1 DEF Flat!Next
  <1>5. ASSUME NEW p \in Path, Delete(p) PROVE Flat!Next
    <2>1. ASSUME NEW q \in Path
          PROVE  ContentsOf(tree', q) = IF AtOrAbove(p, q) THEN None ELSE ContentsOf(tree, q)
      BY <1>1, <1>2, <1>5, WatchedFacts, RemoveContents DEF Delete
    <2>2. Flat!Delete(p)
      BY <1>3, <1>5, <2>1 DEF Flat!Delete, Delete, Flat!AtOrAbove, AtOrAbove
    <2> QED
      BY <2>2 DEF Flat!Next
  <1>6. ASSUME NEW w \in Watcher, NEW p \in Path, Watch(w, p)
        PROVE  UNCHANGED Flat!vars
    <2>1. \A q \in Path : tree'[q].val = tree[q].val
      <3>1. /\ Present(tree, p) => tree'[p] = tree[p]
            /\ ~Present(tree, p) => tree'[p] = EmptyDir
            /\ \A q \in Path : q # p => tree'[q].val = tree[q].val
        BY <1>1, <1>6, WatchNodes DEF Watch, TreeOK
      <3>2. ~Present(tree, p) => tree[p] = Absent
        BY <1>1 DEF TreeOK, WellFormed
      <3> QED
        BY <3>1, <3>2 DEF EmptyDir, Absent
    <2>2. \A q \in Path : ContentsOf(tree', q) = ContentsOf(tree, q)
      BY <1>1, <1>2, <2>1, ContentsByValue
    <2> QED
      BY <1>3, <1>6, <2>2 DEF Flat!vars, Watch
  <1>7. ASSUME DoClean PROVE UNCHANGED Flat!vars
    <2> DEFINE p == cleaning
    <2>0. p \in Path
      BY <1>7 DEF Inv, TypeOK, DoClean
    <2>1. CASE tree' = tree
      BY <1>7, <2>1 DEF Flat!vars, DoClean, Contents
    <2>2. CASE tree' # tree
      <3>1. Cleanable(tree, p) /\ tree[p].val = Empty /\ tree' = RemoveTree(tree, Watched, p)
        BY <1>1, <1>7, <2>0, <2>2
           DEF DoClean, CleanTree, TreeOK, HiddenByChildren, Cleanable
      <3>2. Present(tree, p)
        BY <3>1 DEF Cleanable, IsDir, Present
      <3>3. ASSUME NEW q \in Path, AtOrAbove(p, q) PROVE ContentsOf(tree, q) = None
        <4>1. CASE q = p
          BY <1>1, <2>0, <3>1, <4>1, ContentsByValue
        <4>2. CASE q # p
          <5>1. ~Present(tree, q)
            BY <1>1, <2>0, <3>1, <3>3, <4>2, ChildOnTheWay DEF Above, Cleanable, TreeOK
          <5>2. tree[q] = Absent
            BY <1>1, <5>1 DEF TreeOK, WellFormed
          <5> QED
            BY <5>2 DEF ContentsOf, Absent, IsLeaf
        <4> QED
          BY <4>1, <4>2
      <3>4. ASSUME NEW q \in Path PROVE ContentsOf(tree', q) = ContentsOf(tree, q)
        BY <1>1, <1>2, <2>0, <3>1, <3>2, <3>3, WatchedFacts, RemoveContents
      <3> QED
        BY <1>3, <1>7, <3>4 DEF Flat!vars, DoClean
    <2> QED
      BY <2>1, <2>2
  <1>8. ASSUME UNCHANGED <<tree, version>> PROVE UNCHANGED Flat!vars
    BY <1>8 DEF Flat!vars, Contents
  <1>9. CASE \E p \in Path, v \in Value : Put(p, v)
    BY <1>4, <1>9 DEF Put
  <1>10. CASE \E e \in bulk : PutBulkEntry(e)
    <2>1. \A e \in bulk : e[1] \in Path /\ e[2] \in Value
      BY DEF Inv, TypeOK
    <2> QED
      BY <1>4, <1>10, <2>1 DEF PutBulkEntry
  <1> QED
    BY <1>5, <1>6, <1>7, <1>8, <1>9, <1>10
       DEF Next, vars, PutBulk, RemoveWatcher, Receive, TakeClean

\* The tree of nodes implements the flat map of module KV: no conversion
\* between leaf and directory, no placeholder of a watcher and no cleaning
\* loses or invents a value.
THEOREM ImplementsKV ==
    ASSUME Empty \notin Value
    PROVE  Spec => FlatSpec
  <1>1. Init => Flat!Init
    <2> SUFFICES ASSUME Init PROVE Flat!Init
      OBVIOUS
    <2>1. \A p \in Path : ~IsLeaf(tree, p) /\ tree[p].val = Empty
      BY DEF Init, NewTree, IsLeaf, EmptyDir, Absent
    <2> QED
      BY <2>1 DEF Init, Flat!Init, Contents
  <1>2. Inv /\ Inv' /\ [Next]_vars => [Flat!Next]_(Flat!vars)
    BY StepRefines
  <1> QED
    BY <1>1, <1>2, Invariance, PTL DEF Spec, FlatSpec, Flat!Spec

-----------------------------------------------------------------------------
(* The store notifies a watcher exactly when what a reader of its node     *)
(* sees changes: the events of an operation name exactly the paths at      *)
(* which a leaf appears, goes or gets another value, and those are what    *)
(* the flattened value of a node is made of.                               *)

\* What NotifiedIffChanged asks of one step and one watcher.
Notified(w) ==
    watchAt[w] # None /\ watchAt'[w] = watchAt[w] =>
        LET p == watchAt[w]
            changed == Visible(tree, p) # Visible(tree', p)
        IN  /\ changed => unread'[w] > 0
            /\ unread'[w] > unread[w] => changed

\* internalNotify adds an event exactly when one is for p or below, unless the
\* channel is full, which is not empty either.
LEMMA SentFacts ==
    ASSUME NEW n \in 0..BufLen, NEW p, NEW es \in SUBSET Event
    PROVE  /\ (\E e \in es : AtOrAbove(p, e.path)) => Sent(n, p, es) > 0
           /\ Sent(n, p, es) > n => \E e \in es : AtOrAbove(p, e.path)
  <1> DEFINE here == {e \in es : AtOrAbove(p, e.path)}
  <1>1. IsFiniteSet(here)
    <2>1. here \in SUBSET Event
      OBVIOUS
    <2> QED
      BY <2>1, EventsFinite
  <1>2. Cardinality(here) \in Nat /\ (Cardinality(here) = 0 <=> here = {})
    BY <1>1, FS_CardinalityType, FS_EmptySet
  <1>3. BufLen \in Nat /\ BufLen # 0
    BY StoreAssumption
  <1>4. Sent(n, p, es) = IF n + Cardinality(here) > BufLen THEN BufLen
                         ELSE n + Cardinality(here)
    BY DEF Sent
  <1>5. (\E e \in es : AtOrAbove(p, e.path)) <=> here # {}
    OBVIOUS
  <1> HIDE DEF here
  <1>6. here # {} => Sent(n, p, es) > 0
    BY <1>2, <1>3, <1>4
  <1>7. here = {} => Sent(n, p, es) = n
    BY <1>2, <1>3, <1>4
  <1> QED
    BY <1>5, <1>6, <1>7

\* An operation that reports what it changes notifies the right watchers.
LEMMA ReportsNotify ==
    ASSUME Inv, NEW es \in SUBSET Event, Notify(es), Reports(tree, tree', es),
           NEW w \in Watcher
    PROVE  Notified(w)
  <1> SUFFICES ASSUME watchAt[w] # None, watchAt'[w] = watchAt[w]
               PROVE  /\ Visible(tree, watchAt[w]) # Visible(tree', watchAt[w]) =>
                            unread'[w] > 0
                      /\ unread'[w] > unread[w] =>
                            Visible(tree, watchAt[w]) # Visible(tree', watchAt[w])
    BY DEF Notified
  <1> DEFINE p == watchAt[w]
  <1>1. p \in Path /\ unread[w] \in 0..BufLen
    BY DEF Inv, TypeOK
  <1>2. unread'[w] = Sent(unread[w], p, es)
    BY DEF Notify
  <1>3. Visible(tree, p) # Visible(tree', p) <=> \E e \in es : AtOrAbove(p, e.path)
    <2>1. Visible(tree, p) # Visible(tree', p) <=>
             \E q \in Path : AtOrAbove(p, q) /\ Differs(tree, tree', q)
      BY <1>1, VisibleDiffers
    <2>2. \A e \in es : e.path \in Path
      BY DEF Event
    <2> QED
      BY <2>1, <2>2 DEF Reports
  <1> HIDE DEF p
  <1>4. /\ (\E e \in es : AtOrAbove(p, e.path)) => unread'[w] > 0
        /\ unread'[w] > unread[w] => \E e \in es : AtOrAbove(p, e.path)
    BY <1>1, <1>2, SentFacts
  <1> QED
    BY <1>3, <1>4 DEF p

\* Steps that leave the tree alone send nothing to a watcher that stays.
LEMMA QuietSteps ==
    ASSUME Inv, Inv', tree' = tree, NEW w \in Watcher,
           unread'[w] <= unread[w] \/ watchAt'[w] # watchAt[w]
    PROVE  Notified(w)
  <1>1. unread[w] \in Int /\ unread'[w] \in Int
    BY StoreAssumption DEF Inv, TypeOK
  <1>2. unread'[w] > unread[w] => ~(unread'[w] <= unread[w])
    BY <1>1
  <1>3. Visible(tree', watchAt[w]) = Visible(tree, watchAt[w])
    OBVIOUS
  <1> QED
    BY <1>2, <1>3 DEF Notified

\* Every step of the store notifies the right watchers.
LEMMA StepNotifies ==
    ASSUME Inv, Inv', [Next]_vars, NEW w \in Watcher
    PROVE  Notified(w)
  <1>1. TreeOK(tree)
    BY TreeInv
  <1>2. ASSUME NEW p \in Path, NEW v \in Value, internalPut(p, v) PROVE Notified(w)
    <2>1. PutEvents(tree, p, v) \in SUBSET Event
      BY EventTypes
    <2>2. Reports(tree, tree', PutEvents(tree, p, v))
      BY <1>1, <1>2, PutReports DEF internalPut
    <2> QED
      BY <1>2, <2>1, <2>2, ReportsNotify DEF internalPut
  <1>3. ASSUME NEW p \in Path, Delete(p) PROVE Notified(w)
    <2>1. RemoveEvents(tree, Watched, p) \in SUBSET Event
      BY EventTypes
    <2>2. Reports(tree, tree', RemoveEvents(tree, Watched, p))
      BY <1>1, <1>3, WatchedFacts, RemoveReports DEF Delete
    <2> QED
      BY <1>3, <2>1, <2>2, ReportsNotify DEF Delete
  <1>4. ASSUME NEW x \in Watcher, NEW p \in Path, Watch(x, p) PROVE Notified(w)
    <2>1. WatchEvents(tree, p) \in SUBSET Event
      BY EventTypes
    <2>2. Reports(tree, tree', WatchEvents(tree, p))
      BY <1>1, <1>4, WatchReports DEF Watch
    <2> QED
      BY <1>4, <2>1, <2>2, ReportsNotify DEF Watch
  <1>5. ASSUME DoClean PROVE Notified(w)
    <2>1. cleaning \in Path
      BY <1>5 DEF Inv, TypeOK, DoClean
    <2>2. CleanEvents(tree, Watched, cleaning) \in SUBSET Event
      BY <2>1, EventTypes
    <2>3. Reports(tree, tree', CleanEvents(tree, Watched, cleaning))
      BY <1>1, <1>5, <2>1, WatchedFacts, CleanReports DEF DoClean
    <2> QED
      BY <1>5, <2>2, <2>3, ReportsNotify DEF DoClean
  <1>6. unread[w] \in Int
    BY StoreAssumption DEF Inv, TypeOK
  <1>7. ASSUME NEW x \in Watcher, RemoveWatcher(x) PROVE Notified(w)
    <2>1. CASE w = x
      <3>1. watchAt'[w] # watchAt[w]
        BY <1>7, <2>1 DEF RemoveWatcher, Inv, TypeOK
      <3> QED
        BY <1>7, <3>1, QuietSteps DEF RemoveWatcher
    <2>2. CASE w # x
      <3>1. unread'[w] = unread[w]
        BY <1>7, <2>2 DEF RemoveWatcher, Inv, TypeOK
      <3> QED
        BY <1>6, <1>7, <3>1, QuietSteps DEF RemoveWatcher
    <2> QED
      BY <2>1, <2>2
  <1>8. ASSUME NEW x \in Watcher, Receive(x) PROVE Notified(w)
    <2>1. unread'[w] = unread[w] \/ unread'[w] = unread[w] - 1
      BY <1>8 DEF Receive, Inv, TypeOK
    <2> QED
      BY <1>6, <1>8, <2>1, QuietSteps DEF Receive
  <1>9. ASSUME UNCHANGED <<tree, unread>> PROVE Notified(w)
    BY <1>6, <1>9, QuietSteps
  <1>10. CASE \E p \in Path, v \in Value : Put(p, v)
    BY <1>2, <1>10 DEF Put
  <1>11. CASE \E e \in bulk : PutBulkEntry(e)
    <2>1. \A e \in bulk : e[1] \in Path /\ e[2] \in Value
      BY DEF Inv, TypeOK
    <2> QED
      BY <1>2, <1>11, <2>1 DEF PutBulkEntry
  <1> QED
    BY <1>3, <1>4, <1>5, <1>7, <1>8, <1>9, <1>10, <1>11
       DEF Next, vars, PutBulk, TakeClean

\* A watcher is notified exactly when what a reader of its node sees changes:
\* by puts, deletes and cleanings, by leaves that turn into directories and
\* back, and however full its channel is.
THEOREM NotifiedExactly == Spec => NotifiedIffChanged
  <1>1. Inv /\ Inv' /\ [Next]_vars =>
           [\A w \in Watcher : Notified(w)]_vars
    BY StepNotifies
  <1>2. (\A w \in Watcher : Notified(w)) <=>
        (\A w \in Watcher :
           watchAt[w] # None /\ watchAt'[w] = watchAt[w] =>
              LET p == watchAt[w]
                  changed == Visible(tree, p) # Visible(tree', p)
              IN  /\ changed => unread'[w] > 0
                  /\ unread'[w] > unread[w] => changed)
    BY DEF Notified
  <1> QED
    BY <1>1, <1>2, Invariance, PTL DEF Spec, NotifiedIffChanged

=============================================================================
