--------------------------- MODULE EtcdSyncProofs ---------------------------
(***************************************************************************)
(* internalSync of the etcd backend, for any data, any number of requests, *)
(* any history and any number of breaks of the watch.                      *)
(***************************************************************************)
EXTENDS EtcdSync, SequenceTheorems, TLAPS

\* No key is the directory of another, as flatmap makes the keys of JSON data.
FlatKeys == \A k, l \in Key : ~Above(k, l)

\* Revision n or a later one of the history h changes p.
Changed(h, p, n) == \E i \in n..Len(h) : \E e \in h[i] : e.path = p

\* A change names its key once.
OnePerPath(es) == \A e, f \in es : e.path = f.path => e = f

-----------------------------------------------------------------------------
(* etcd.                                                                   *)

\* The last change of a key says what etcd holds there.
HistoryInv ==
    /\ \A p \in Path : etcd[p] # None => p \in Key
    /\ \A i \in 1..Revision :
          /\ hist[i] # {}
          /\ OnePerPath(hist[i])
          /\ \A e \in hist[i] : e.path \in Key
          /\ \A e \in hist[i] : ~Changed(hist, e.path, i + 1) => etcd[e.path] = e.val

\* Requests put every key once.
RequestInv ==
    \A r \in Requester : \A e, f \in req[r].left : e[1] = f[1] => e = f

-----------------------------------------------------------------------------
(* internalSync.                                                           *)

\* Where the loop is and what it has read of the history.
LoopInv ==
    /\ InitSignalledOnce
    /\ init => pc \notin {"init", "initPut"}
    /\ ~init => rev = 0 /\ cache = Nothing /\ pc # "serve"
    /\ pc \in {"init", "initPut"} => next = seen + 1
    /\ todo # {} => pc = "serve"
    /\ pc = "serve" => 1 <= next /\ next <= Revision + 1
    /\ todo # {} => 2 <= next
    /\ seen <= Revision
    /\ rev <= Revision

\* What the loop has taken from etcd and not processed is what keeps the store
\* behind.  While no gap has opened the loop repeats at most the last revision
\* that it has processed; in the midst of a response the store may be behind at
\* the keys of the response's other changes, and of a repeated one in particular.
SyncInv ==
    /\ pc = "initPut" => \A p \in Path : Changed(hist, p, next) \/ snapshot[p] = etcd[p]
    /\ init /\ ~gap =>
          /\ rev = 0 \/ rev >= seen
          /\ todo = {} => \A p \in Path : Changed(hist, p, seen + 1) \/ cache[p] = etcd[p]
          /\ todo = {} /\ pc = "serve" => next \in {seen, seen + 1}
          /\ todo # {} =>
                /\ next \in {seen + 1, seen + 2}
                /\ todo \subseteq hist[next - 1]
                /\ \A p \in Path : \/ \E e \in todo : e.path = p
                                   \/ Changed(hist, p, next)
                                   \/ cache[p] = etcd[p]

Inv ==
    /\ TypeOK
    /\ HistoryInv
    /\ RequestInv
    /\ LoopInv

-----------------------------------------------------------------------------
(* Requests.                                                               *)

\* What a transaction does to the history and to the data.
Grows ==
    /\ etcd' \in Contents
    /\ hist' \in Seq(SUBSET Change)
    /\ Len(hist') <= MaxRev
    /\ Len(hist) <= Len(hist')
    /\ \A i \in 1..Len(hist) : hist'[i] = hist[i]
    /\ \A n \in 1..Len(hist) + 1 : \A p \in Path :
          Changed(hist', p, n) \/ (~Changed(hist, p, n) /\ etcd'[p] = etcd[p])

\* One transaction.
LEMMA CommitStep ==
    ASSUME Inv, NEW es \in SUBSET Change, OnePerPath(es), \A e \in es : e.path \in Key,
           Commit(es)
    PROVE  Grows /\ HistoryInv' /\ compact' = compact
  <1>1. /\ etcd \in Contents /\ hist \in Seq(SUBSET Change) /\ Len(hist) <= MaxRev
        /\ Len(hist) \in Nat /\ MaxRev \in Nat
    BY EtcdAssumption DEF Inv, TypeOK
  <1>2. CASE es = {}
    <2>1. UNCHANGED <<etcd, hist, compact>>
      BY <1>2 DEF Commit, etcdVars
    <2> QED
      BY <1>1, <2>1 DEF Inv, HistoryInv, Grows, Revision
  <1>3. CASE es # {}
    <2> DEFINE n == Len(hist)
    <2>1. /\ n < MaxRev
          /\ hist' = Append(hist, es)
          /\ etcd' = [p \in Path |-> IF \E e \in es : e.path = p
                                     THEN (CHOOSE e \in es : e.path = p).val
                                     ELSE etcd[p]]
          /\ compact' = compact
      BY <1>3 DEF Commit, Revision
    <2>2. /\ hist' \in Seq(SUBSET Change)
          /\ Len(hist') = n + 1
          /\ \A i \in 1..n : hist'[i] = hist[i]
          /\ hist'[n + 1] = es
      BY <1>1, <2>1, AppendProperties
    <2>3. \A e \in es : /\ e.path \in Path /\ e.val \in Value \cup {None}
                        /\ etcd'[e.path] = e.val
      <3> SUFFICES ASSUME NEW e \in es
                   PROVE  /\ e.path \in Path /\ e.val \in Value \cup {None}
                          /\ etcd'[e.path] = e.val
        OBVIOUS
      <3>1. e.path \in Path /\ e.val \in Value \cup {None}
        BY DEF Change
      <3>2. (CHOOSE f \in es : f.path = e.path) = e
        BY DEF OnePerPath
      <3> QED
        BY <2>1, <3>1, <3>2
    <2>4. \A p \in Path : (\A e \in es : e.path # p) => etcd'[p] = etcd[p]
      BY <2>1
    <2>5. etcd' \in Contents
      <3>1. \A p \in Path : etcd'[p] \in Value \cup {None}
        BY <1>1, <2>3, <2>4 DEF Contents
      <3> QED
        BY <2>1, <3>1 DEF Contents
    <2> HIDE DEF n
    <2>6. ASSUME NEW m \in 1..n + 1, NEW p \in Path, ~Changed(hist', p, m)
          PROVE  ~Changed(hist, p, m) /\ etcd'[p] = etcd[p]
      <3>1. n + 1 \in m..Len(hist')
        BY <1>1, <2>2 DEF n
      <3>2. \A e \in es : e.path # p
        BY <2>2, <2>6, <3>1 DEF Changed
      <3>3. \A i \in m..n : i \in m..Len(hist') /\ hist'[i] = hist[i]
        BY <1>1, <2>2 DEF n
      <3>4. ~Changed(hist, p, m)
        BY <2>6, <3>3 DEF Changed, n
      <3> QED
        BY <2>4, <3>2, <3>4
    <2>7. Grows
      BY <1>1, <2>1, <2>2, <2>5, <2>6 DEF Grows, n
    <2>8. HistoryInv'
      <3>1. ASSUME NEW p \in Path, etcd'[p] # None PROVE p \in Key
        BY <2>3, <2>4, <3>1 DEF Inv, HistoryInv
      <3>2. ASSUME NEW i \in 1..n
            PROVE  /\ hist'[i] # {}
                   /\ OnePerPath(hist'[i])
                   /\ \A e \in hist'[i] : e.path \in Key
                   /\ \A e \in hist'[i] :
                         ~Changed(hist', e.path, i + 1) => etcd'[e.path] = e.val
        <4>1. /\ hist[i] # {} /\ OnePerPath(hist[i]) /\ hist'[i] = hist[i]
              /\ \A e \in hist[i] : e.path \in Key
              /\ \A e \in hist[i] : ~Changed(hist, e.path, i + 1) => etcd[e.path] = e.val
          BY <2>2 DEF Inv, HistoryInv, Revision, n
        <4>2. i + 1 \in 1..n + 1
          BY <1>1 DEF n
        <4>3. ASSUME NEW e \in hist[i], ~Changed(hist', e.path, i + 1)
              PROVE  etcd'[e.path] = e.val
          <5>1. e.path \in Path
            BY <4>1, EtcdAssumption
          <5> QED
            BY <2>6, <4>1, <4>2, <4>3, <5>1
        <4> QED
          BY <4>1, <4>3
      <3>3. \A i \in 1..Len(hist') : i \in 1..n \/ i = n + 1
        BY <1>1, <2>2 DEF n
      <3> QED
        BY <1>3, <2>2, <2>3, <3>1, <3>2, <3>3 DEF HistoryInv, Revision
    <2> QED
      BY <2>1, <2>7, <2>8
  <1> QED
    BY <1>2, <1>3

\* internalDelete deletes keys, each of them once.
LEMMA DeleteStep ==
    ASSUME Inv, NEW del, NEW at, Delete(del, at)
    PROVE  Grows /\ HistoryInv' /\ compact' = compact
  <1> DEFINE es == {[path |-> k, val |-> None] : k \in Deleted(del, at)}
  <1>1. \A k \in Deleted(del, at) : k \in Path /\ k \in Key
    BY DEF Deleted, Inv, HistoryInv
  <1>2. es \in SUBSET Change
    BY <1>1 DEF Change
  <1>3. OnePerPath(es) /\ \A e \in es : e.path \in Key
    BY <1>1 DEF OnePerPath
  <1>4. Commit(es)
    BY DEF Delete
  <1> QED
    BY <1>2, <1>3, <1>4, CommitStep

\* The loop is as far behind the longer history as it was, or further.
LEMMA GrowsKeepsLoop ==
    ASSUME Inv, Grows, UNCHANGED metad
    PROVE  LoopInv' /\ (SyncInv => SyncInv')
  <1>1. UNCHANGED <<cache, pc, init, wgDone, rev, next, todo, snapshot, stop, helper,
                    cancelled, breaks, seen, gap>>
    BY DEF metad, loopVars, stopVars, history
  <1>2. /\ Len(hist) \in Nat /\ Len(hist') \in Nat /\ next \in Nat /\ seen \in Nat
        /\ rev \in Nat
    BY EtcdAssumption DEF Inv, TypeOK, Grows
  <1>3. LoopInv'
    BY <1>1, <1>2 DEF Inv, LoopInv, InitSignalledOnce, Grows, Revision
  <1>4. ASSUME SyncInv PROVE SyncInv'
    <2>1. seen + 1 \in 1..Len(hist) + 1
      BY <1>2 DEF Inv, LoopInv, Revision
    <2>2. pc = "initPut" => next = seen + 1
      BY DEF Inv, LoopInv
    <2>3. todo # {} => next \in 1..Len(hist) + 1 /\ next - 1 \in 1..Len(hist)
      BY <1>2 DEF Inv, LoopInv, Revision
    <2>4. \A n \in 1..Len(hist) + 1 : \A p \in Path :
             Changed(hist', p, n) \/ (~Changed(hist, p, n) /\ etcd'[p] = etcd[p])
      BY DEF Grows
    <2>5. pc = "initPut" => \A p \in Path : Changed(hist', p, next) \/ snapshot[p] = etcd'[p]
      BY <1>4, <2>1, <2>2, <2>4 DEF SyncInv
    <2>6. init /\ ~gap /\ todo = {} =>
             \A p \in Path : Changed(hist', p, seen + 1) \/ cache[p] = etcd'[p]
      BY <1>4, <2>1, <2>4 DEF SyncInv
    <2>7. init /\ ~gap /\ todo # {} =>
             /\ todo \subseteq hist'[next - 1]
             /\ \A p \in Path : \/ \E e \in todo : e.path = p
                                \/ Changed(hist', p, next)
                                \/ cache[p] = etcd'[p]
      BY <1>4, <2>3, <2>4 DEF SyncInv, Grows
    <2> QED
      BY <1>1, <1>4, <2>5, <2>6, <2>7 DEF SyncInv
  <1> QED
    BY <1>3, <1>4

\* Requests leave the loop alone.
LEMMA RequestStep ==
    ASSUME Inv, Grows, HistoryInv', compact' \in 0..MaxRev, UNCHANGED metad, RequestInv',
           req' \in [Requester -> [subs : SUBSET Path, del : {"none", "key", "dir"},
                                   at : Path, left : SUBSET (Key \X Value)]]
    PROVE  Inv' /\ (SyncInv => SyncInv')
  <1>1. UNCHANGED <<cache, pc, init, wgDone, rev, next, todo, snapshot, stop, helper,
                    cancelled, breaks, seen, gap>>
    BY DEF metad, loopVars, stopVars, history
  <1>2. TypeOK'
    BY <1>1 DEF Inv, TypeOK, Grows
  <1> QED
    BY <1>2, GrowsKeepsLoop DEF Inv

\* What a step that leaves etcd alone keeps.
LEMMA EtcdIdle ==
    ASSUME Inv, UNCHANGED <<etcd, hist>>
    PROVE  Grows /\ HistoryInv'
  <1>1. Len(hist) \in Nat
    BY DEF Inv, TypeOK
  <1> QED
    BY <1>1 DEF Inv, TypeOK, HistoryInv, Grows, Revision

\* What is still to do of a request, as a type.
Pending == [subs : SUBSET Path, del : {"none", "key", "dir"}, at : Path,
            left : SUBSET (Key \X Value)]

\* Every step of a request, and etcd's compaction, preserve the invariants.
LEMMA RequestsStep ==
    ASSUME Inv,
           \/ \E r \in Requester :
                 \/ \E k \in Key, v \in Value : PutString(r, k, v)
                 \/ \E b \in Bulks, replace \in BOOLEAN : PutMap(r, b, replace)
                 \/ \E p \in Path : DeleteData(r, p) \/ LookUp(r, p)
                 \/ EtcdDelete(r)
                 \/ EtcdPut(r)
                 \/ EtcdFails(r)
           \/ EtcdCompacts
    PROVE  Inv' /\ (SyncInv => SyncInv')
  <1>1. req \in [Requester -> Pending] /\ compact \in 0..MaxRev /\ RequestInv
    BY DEF Inv, TypeOK, Pending
  <1>2. Idle \in Pending /\ Idle.left = {}
    BY PathAssumption DEF Idle, Pending, Root
  <1>3. ASSUME NEW r \in Requester, NEW d \in Pending, req' = [req EXCEPT ![r] = d],
               \A e, f \in d.left : e[1] = f[1] => e = f
        PROVE  req' \in [Requester -> Pending] /\ RequestInv'
    BY <1>1, <1>3 DEF RequestInv
  <1>4. ASSUME Grows, HistoryInv', compact' \in 0..MaxRev, UNCHANGED metad, RequestInv',
               req' \in [Requester -> Pending]
        PROVE  Inv' /\ (SyncInv => SyncInv')
    BY <1>4, RequestStep DEF Pending
  <1>5. ASSUME NEW r \in Requester, NEW k \in Key, NEW v \in Value, PutString(r, k, v)
        PROVE  Inv' /\ (SyncInv => SyncInv')
    <2> DEFINE es == {[path |-> k, val |-> v]}
    <2>1. es \in SUBSET Change /\ OnePerPath(es) /\ \A e \in es : e.path \in Key
      BY EtcdAssumption DEF Change, OnePerPath
    <2>2. Grows /\ HistoryInv' /\ compact' = compact
      BY <1>5, <2>1, CommitStep DEF PutString
    <2>3. UNCHANGED req /\ UNCHANGED metad
      BY <1>5 DEF PutString
    <2> QED
      BY <1>1, <1>4, <2>2, <2>3 DEF RequestInv
  <1>6. ASSUME NEW r \in Requester, NEW b \in Bulks, NEW replace \in BOOLEAN,
               PutMap(r, b, replace)
        PROVE  Inv' /\ (SyncInv => SyncInv')
    <2>1. Grows /\ HistoryInv' /\ compact' = compact
      <3>1. CASE replace /\ Delete("dir", b[1])
        BY <3>1, DeleteStep
      <3>2. CASE UNCHANGED etcdVars
        BY <3>2, EtcdIdle DEF etcdVars
      <3> QED
        BY <1>6, <3>1, <3>2 DEF PutMap
    <2> DEFINE d == [req[r] EXCEPT !.left = b[2]]
    <2>2. d \in Pending /\ d.left = b[2] /\ req' = [req EXCEPT ![r] = d]
      <3>1. req[r] \in Pending /\ b[2] \in SUBSET (Key \X Value)
        BY <1>1, EtcdAssumption
      <3> QED
        BY <1>6, <3>1 DEF PutMap, Pending
    <2>3. req' \in [Requester -> Pending] /\ RequestInv'
      BY <1>3, <2>2, EtcdAssumption
    <2> QED
      BY <1>1, <1>4, <1>6, <2>1, <2>3 DEF PutMap
  <1>7. ASSUME NEW p \in Path, NEW rest \in SUBSET Path
        PROVE  LookedUp(p, rest) \in Pending /\ LookedUp(p, rest).left = {}
    <2>1. <<>> \in Path
      BY PathAssumption
    <2> QED
      BY <2>1 DEF LookedUp, Pending, Idle, Root
  <1>8. ASSUME NEW r \in Requester, NEW p \in Path, DeleteData(r, p)
        PROVE  Inv' /\ (SyncInv => SyncInv')
    <2>1. Grows /\ HistoryInv' /\ compact' = compact
      BY <1>8, EtcdIdle DEF DeleteData, etcdVars
    <2>2. PICK S \in {{p}} \cup (SUBSET Subs(p) \ {{}}) : \E first \in S :
             req' = [req EXCEPT ![r] = LookedUp(first, S \ {first})]
      BY <1>8 DEF DeleteData
    <2>3. PICK first \in S : req' = [req EXCEPT ![r] = LookedUp(first, S \ {first})]
      BY <2>2
    <2>4. S \in SUBSET Path
      BY <2>2 DEF Subs
    <2>5. LookedUp(first, S \ {first}) \in Pending /\ LookedUp(first, S \ {first}).left = {}
      BY <1>7, <2>4
    <2>6. req' \in [Requester -> Pending] /\ RequestInv'
      BY <1>3, <2>3, <2>5
    <2> QED
      BY <1>1, <1>4, <1>8, <2>1, <2>6 DEF DeleteData
  <1>9. ASSUME NEW r \in Requester, NEW p \in Path, LookUp(r, p)
        PROVE  Inv' /\ (SyncInv => SyncInv')
    <2>1. Grows /\ HistoryInv' /\ compact' = compact
      BY <1>9, EtcdIdle DEF LookUp, etcdVars
    <2>2. req[r].subs \ {p} \in SUBSET Path
      BY <1>1 DEF Pending
    <2>3. LookedUp(p, req[r].subs \ {p}) \in Pending /\ LookedUp(p, req[r].subs \ {p}).left = {}
      BY <1>7, <2>2
    <2>4. req' \in [Requester -> Pending] /\ RequestInv'
      BY <1>3, <1>9, <2>3 DEF LookUp
    <2> QED
      BY <1>1, <1>4, <1>9, <2>1, <2>4 DEF LookUp
  <1>10. ASSUME NEW r \in Requester, EtcdDelete(r)
         PROVE  Inv' /\ (SyncInv => SyncInv')
    <2>1. Grows /\ HistoryInv' /\ compact' = compact
      BY <1>10, DeleteStep DEF EtcdDelete
    <2> DEFINE d == [req[r] EXCEPT !.del = "none", !.at = Root]
    <2>2. d \in Pending /\ d.left = req[r].left
      BY <1>1, PathAssumption DEF Pending, Root
    <2>3. req' = [req EXCEPT ![r] = d]
      BY <1>1, <1>10 DEF EtcdDelete, Pending
    <2>4. req' \in [Requester -> Pending] /\ RequestInv'
      BY <1>1, <1>3, <2>2, <2>3 DEF RequestInv
    <2> QED
      BY <1>1, <1>4, <1>10, <2>1, <2>4 DEF EtcdDelete
  <1>11. ASSUME NEW r \in Requester, EtcdPut(r)
         PROVE  Inv' /\ (SyncInv => SyncInv')
    <2>1. PICK chunk \in SUBSET req[r].left :
             /\ Commit({[path |-> e[1], val |-> e[2]] : e \in chunk})
             /\ req' = [req EXCEPT ![r].left = @ \ chunk]
      BY <1>11 DEF EtcdPut
    <2> DEFINE es == {[path |-> e[1], val |-> e[2]] : e \in chunk}
    <2>2. \A e \in chunk : e[1] \in Key /\ e[1] \in Path /\ e[2] \in Value
      BY <1>1, EtcdAssumption DEF Pending
    <2>3. es \in SUBSET Change
      BY <2>2 DEF Change
    <2>4. OnePerPath(es)
      <3>1. \A e, f \in chunk : e[1] = f[1] => e = f
        BY <1>1 DEF RequestInv
      <3> QED
        BY <3>1 DEF OnePerPath
    <2>5. \A e \in es : e.path \in Key
      BY <2>2
    <2>6. Grows /\ HistoryInv' /\ compact' = compact
      BY <2>1, <2>3, <2>4, <2>5, CommitStep
    <2> DEFINE d == [req[r] EXCEPT !.left = @ \ chunk]
    <2>7. d \in Pending /\ d.left \subseteq req[r].left /\ req' = [req EXCEPT ![r] = d]
      BY <1>1, <2>1 DEF Pending
    <2>8. req' \in [Requester -> Pending] /\ RequestInv'
      BY <1>1, <1>3, <2>7 DEF RequestInv
    <2> QED
      BY <1>1, <1>4, <1>11, <2>6, <2>8 DEF EtcdPut
  <1>12. ASSUME NEW r \in Requester, EtcdFails(r)
         PROVE  Inv' /\ (SyncInv => SyncInv')
    <2>1. Grows /\ HistoryInv' /\ compact' = compact
      BY <1>12, EtcdIdle DEF EtcdFails, etcdVars
    <2>2. req' \in [Requester -> Pending] /\ RequestInv'
      BY <1>2, <1>3, <1>12 DEF EtcdFails
    <2> QED
      BY <1>1, <1>4, <1>12, <2>1, <2>2 DEF EtcdFails
  <1>13. ASSUME EtcdCompacts PROVE Inv' /\ (SyncInv => SyncInv')
    <2>1. Grows /\ HistoryInv'
      BY <1>13, EtcdIdle DEF EtcdCompacts
    <2>2. compact' \in 0..MaxRev
      BY <1>13, EtcdAssumption DEF EtcdCompacts, Revision, Inv, TypeOK
    <2>3. UNCHANGED req /\ UNCHANGED metad
      BY <1>13 DEF EtcdCompacts, metad
    <2> QED
      BY <1>1, <1>4, <2>1, <2>2, <2>3 DEF RequestInv
  <1> QED
    BY <1>5, <1>6, <1>8, <1>9, <1>10, <1>11, <1>12, <1>13

-----------------------------------------------------------------------------
(* The loop.                                                               *)

\* A step of the loop need only be looked at for the loop's own variables.
LEMMA LoopStep ==
    ASSUME Inv, UNCHANGED <<etcdVars, req>>, LoopInv',
           /\ cache' \in Contents /\ snapshot' \in Contents
           /\ pc' \in {"top", "create", "init", "initPut", "serve", "done"}
           /\ init' \in BOOLEAN /\ wgDone' \in 0..1 /\ gap' \in BOOLEAN
           /\ rev' \in 0..MaxRev /\ next' \in 0..MaxRev + 1 /\ seen' \in 0..MaxRev
           /\ todo' \subseteq Change
           /\ breaks' \in 0..MaxBreaks
           /\ stop' \in BOOLEAN /\ cancelled' \in BOOLEAN
           /\ helper' \in {"waiting", "cancel", "gone"}
    PROVE  Inv'
  <1>1. UNCHANGED <<etcd, hist, compact, req>>
    BY DEF etcdVars
  <1>2. HistoryInv'
    BY <1>1, EtcdIdle
  <1>3. TypeOK' /\ RequestInv'
    BY <1>1 DEF Inv, TypeOK, RequestInv
  <1> QED
    BY <1>2, <1>3 DEF Inv

\* The types that the loop's steps start from.
LEMMA LoopTypes ==
    ASSUME Inv
    PROVE  /\ cache \in Contents /\ snapshot \in Contents /\ etcd \in Contents
           /\ Nothing \in Contents
           /\ pc \in {"top", "create", "init", "initPut", "serve", "done"}
           /\ init \in BOOLEAN /\ wgDone \in 0..1 /\ gap \in BOOLEAN
           /\ rev \in 0..MaxRev /\ next \in 0..MaxRev + 1 /\ seen \in 0..MaxRev
           /\ todo \subseteq Change
           /\ breaks \in 0..MaxBreaks
           /\ stop \in BOOLEAN /\ cancelled \in BOOLEAN
           /\ helper \in {"waiting", "cancel", "gone"}
           /\ MaxRev \in Nat /\ MaxBreaks \in Nat
           /\ hist \in Seq(SUBSET Change) /\ Len(hist) \in 0..MaxRev
           /\ Revision = Len(hist)
           /\ LoopInv
  BY EtcdAssumption DEF Inv, TypeOK, Contents, Nothing, Revision

\* The loop returns: initWG.Done is called unless the first init did it.
LEMMA ReturnStep ==
    ASSUME Inv, pc \in {"top", "init"}, Return, UNCHANGED <<others, breaks, history>>
    PROVE  Inv' /\ (SyncInv => SyncInv')
  <1>1. /\ UNCHANGED <<etcdVars, req>>
        /\ UNCHANGED <<cache, snapshot, init, rev, next, todo, breaks, seen, gap, stop,
                       helper, cancelled, hist, etcd>>
        /\ pc' = "done" /\ wgDone' = IF init THEN wgDone ELSE wgDone + 1
    BY DEF Return, others, etcdVars, stopVars, history
  <1>2. wgDone' = 1 /\ wgDone' \in 0..1
    BY <1>1, LoopTypes DEF LoopInv, InitSignalledOnce
  <1>3. LoopInv'
    BY <1>1, <1>2, LoopTypes DEF LoopInv, InitSignalledOnce, Revision
  <1>4. Inv'
    BY <1>1, <1>2, <1>3, LoopTypes, LoopStep
  <1>5. SyncInv => SyncInv'
    BY <1>1, LoopTypes DEF SyncInv, LoopInv
  <1> QED
    BY <1>4, <1>5

\* The test of stop at the top of the loop.
LEMMA CheckStopStep ==
    ASSUME Inv, CheckStop
    PROVE  Inv' /\ (SyncInv => SyncInv')
  <1>1. CASE stop
    BY <1>1, ReturnStep DEF CheckStop
  <1>2. CASE ~stop
    <2>1. /\ UNCHANGED <<etcdVars, req>>
          /\ UNCHANGED <<cache, snapshot, init, wgDone, rev, next, todo, breaks, seen, gap,
                         stop, helper, cancelled, hist, etcd>>
          /\ pc = "top" /\ pc' = "create"
      BY <1>2 DEF CheckStop, others, etcdVars, stopVars, history
    <2>2. LoopInv'
      BY <2>1, LoopTypes DEF LoopInv, InitSignalledOnce, Revision
    <2>3. Inv'
      BY <2>1, <2>2, LoopTypes, LoopStep
    <2>4. SyncInv => SyncInv'
      BY <2>1, LoopTypes DEF SyncInv, LoopInv
    <2> QED
      BY <2>3, <2>4
  <1> QED
    BY <1>1, <1>2

\* A watch is opened: unless it leaves a gap it starts with the last revision
\* that the store has processed, or with the one after it.
LEMMA OpenWatchStep ==
    ASSUME Inv, OpenWatch
    PROVE  Inv' /\ (SyncInv => SyncInv')
  <1>1. /\ UNCHANGED <<etcdVars, req>>
        /\ UNCHANGED <<cache, snapshot, init, wgDone, todo, breaks, stop, helper, hist, etcd>>
        /\ pc = "create" /\ cancelled' = FALSE
        /\ seen' = IF init THEN seen ELSE Revision
        /\ gap' = (gap \/ (init /\ pc' = "serve" /\ next' > seen + 1))
    BY DEF OpenWatch, etcdVars
  <1>2. todo = {} /\ Revision' = Revision
    BY <1>1, LoopTypes DEF LoopInv, Revision
  <1>3. CASE 0 < rev /\ rev < compact
    <2>1. pc' = "top" /\ rev' = Revision /\ next' = next
      BY <1>3 DEF OpenWatch
    <2>2. init
      BY <1>3, LoopTypes DEF LoopInv
    <2>3. LoopInv'
      BY <1>1, <1>2, <2>1, <2>2, LoopTypes DEF LoopInv, InitSignalledOnce
    <2>4. seen' \in 0..MaxRev /\ gap' = gap
      BY <1>1, <2>1, <2>2, LoopTypes
    <2>5. Inv'
      BY <1>1, <2>1, <2>3, <2>4, LoopTypes, LoopStep
    <2>6. SyncInv => SyncInv'
      BY <1>1, <1>2, <2>1, <2>2, <2>4, LoopTypes DEF SyncInv, LoopInv
    <2> QED
      BY <2>5, <2>6
  <1>4. CASE ~(0 < rev /\ rev < compact)
    <2>1. /\ pc' = IF init THEN "serve" ELSE "init"
          /\ next' = IF rev = 0 THEN Revision + 1 ELSE rev
          /\ rev' = rev
      BY <1>4 DEF OpenWatch
    <2>2. seen' \in 0..MaxRev /\ next' \in 0..MaxRev + 1 /\ gap' \in BOOLEAN
      BY <1>1, <2>1, LoopTypes
    <2>3. CASE init
      <3>1. /\ pc' = "serve" /\ seen' = seen
            /\ ~gap' => ~gap /\ ~(next' > seen + 1)
        BY <1>1, <2>1, <2>3, LoopTypes
      <3>2. LoopInv'
        BY <1>1, <1>2, <2>1, <2>3, LoopTypes DEF LoopInv, InitSignalledOnce
      <3>3. Inv'
        BY <1>1, <2>1, <2>2, <2>3, <3>2, LoopTypes, LoopStep
      <3>4. SyncInv => SyncInv'
        <4> SUFFICES ASSUME SyncInv PROVE SyncInv'
          OBVIOUS
        <4>1. ASSUME ~gap' PROVE next' \in {seen, seen + 1}
          <5>1. ~gap /\ next' <= seen + 1 /\ (rev = 0 \/ rev >= seen) /\ seen <= Revision
            BY <2>2, <2>3, <3>1, <4>1, <1>1, <2>1, LoopTypes DEF SyncInv, LoopInv
          <5> QED
            BY <2>1, <5>1, LoopTypes
        <4>2. ~gap' => ~gap
          BY <1>1
        <4> QED
          BY <1>1, <1>2, <2>1, <2>3, <4>1, <4>2 DEF SyncInv
      <3> QED
        BY <3>3, <3>4
    <2>4. CASE ~init
      <3>1. rev = 0 /\ seen' = Revision /\ next' = Revision + 1 /\ pc' = "init"
        BY <1>1, <2>1, <2>4, LoopTypes DEF LoopInv
      <3>2. LoopInv'
        BY <1>1, <1>2, <2>1, <2>4, <3>1, LoopTypes DEF LoopInv, InitSignalledOnce
      <3>3. Inv'
        BY <1>1, <2>1, <2>2, <2>4, <3>2, LoopTypes, LoopStep
      <3>4. SyncInv => SyncInv'
        BY <1>1, <2>4, <3>1 DEF SyncInv
      <3> QED
        BY <3>3, <3>4
    <2> QED
      BY <2>3, <2>4
  <1> QED
    BY <1>3, <1>4

\* The Get of initStoreFunc sees etcd as it is.
LEMMA InitGetStep ==
    ASSUME Inv, InitGet
    PROVE  Inv' /\ (SyncInv => SyncInv')
  <1>1. CASE stop
    BY <1>1, ReturnStep DEF InitGet
  <1>2. CASE ~stop
    <2>1. /\ UNCHANGED <<etcdVars, req>>
          /\ UNCHANGED <<cache, init, wgDone, rev, next, todo, breaks, seen, gap,
                         stop, helper, cancelled, hist, etcd>>
          /\ pc = "init" /\ pc' = "initPut" /\ snapshot' = etcd
      BY <1>2 DEF InitGet, others, etcdVars, stopVars, history
    <2>2. LoopInv'
      BY <2>1, LoopTypes DEF LoopInv, InitSignalledOnce, Revision
    <2>3. Inv'
      BY <2>1, <2>2, LoopTypes, LoopStep
    <2>4. SyncInv => SyncInv'
      BY <2>1, LoopTypes DEF SyncInv, LoopInv
    <2> QED
      BY <2>3, <2>4
  <1> QED
    BY <1>1, <1>2

\* The store is filled with what the Get saw: what came later is still to be
\* delivered, as the watch was opened before.
LEMMA InitPutStep ==
    ASSUME Inv, InitPut
    PROVE  Inv' /\ (SyncInv => SyncInv')
  <1>1. /\ UNCHANGED <<etcdVars, req>>
        /\ UNCHANGED <<rev, next, todo, breaks, seen, gap, stop, helper, cancelled, hist, etcd>>
        /\ pc = "initPut" /\ pc' = "serve" /\ init' = TRUE /\ wgDone' = wgDone + 1
        /\ cache' = [p \in Path |-> IF snapshot[p] # None THEN snapshot[p] ELSE cache[p]]
        /\ snapshot' = Nothing
    BY DEF InitPut, others, etcdVars, stopVars, history
  <1>2. ~init /\ rev = 0 /\ cache = Nothing /\ next = seen + 1 /\ wgDone' = 1 /\ todo = {}
    BY <1>1, LoopTypes DEF LoopInv, InitSignalledOnce
  <1>3. cache' \in Contents /\ \A p \in Path : cache'[p] = snapshot[p]
    <2>1. \A p \in Path : cache[p] = None /\ snapshot[p] \in Value \cup {None}
      BY <1>2, LoopTypes DEF Nothing, Contents
    <2> QED
      BY <1>1, <2>1 DEF Contents
  <1>4. LoopInv'
    BY <1>1, <1>2, LoopTypes DEF LoopInv, InitSignalledOnce, Revision
  <1>5. Inv'
    BY <1>1, <1>2, <1>3, <1>4, LoopTypes, LoopStep
  <1>6. SyncInv => SyncInv'
    BY <1>1, <1>2, <1>3 DEF SyncInv
  <1> QED
    BY <1>5, <1>6

\* A response: the changes of the next revision are to be processed.
LEMMA ReceiveRespStep ==
    ASSUME Inv, ReceiveResp
    PROVE  Inv' /\ (SyncInv => SyncInv')
  <1>1. /\ UNCHANGED <<etcdVars, req>>
        /\ UNCHANGED <<cache, snapshot, pc, init, wgDone, rev, breaks, seen, gap, stop,
                       helper, cancelled, hist, etcd>>
        /\ pc = "serve" /\ todo = {} /\ next <= Revision
        /\ todo' = hist[next] /\ next' = next + 1
    BY DEF ReceiveResp, others, etcdVars, stopVars, history
  <1>2. next \in 1..Len(hist) /\ init
    BY <1>1, LoopTypes DEF LoopInv
  <1>3. hist[next] # {} /\ hist[next] \subseteq Change
    BY <1>2, LoopTypes DEF Inv, HistoryInv
  <1>4. LoopInv'
    BY <1>1, <1>2, LoopTypes DEF LoopInv, InitSignalledOnce, Revision
  <1>5. next' \in 0..MaxRev + 1
    BY <1>1, <1>2, LoopTypes
  <1>6. Inv'
    BY <1>1, <1>3, <1>4, <1>5, LoopTypes, LoopStep
  <1>7. ASSUME SyncInv PROVE SyncInv'
    <2> SUFFICES ASSUME ~gap
                 PROVE  /\ rev = 0 \/ rev >= seen
                        /\ next' \in {seen + 1, seen + 2}
                        /\ todo' \subseteq hist[next' - 1]
                        /\ \A p \in Path : \/ \E e \in todo' : e.path = p
                                           \/ Changed(hist, p, next')
                                           \/ cache[p] = etcd[p]
      BY <1>1, <1>2, <1>3 DEF SyncInv
    <2>1. /\ next \in {seen, seen + 1} /\ (rev = 0 \/ rev >= seen)
          /\ \A p \in Path : Changed(hist, p, seen + 1) \/ cache[p] = etcd[p]
      BY <1>1, <1>2, <1>7 DEF SyncInv
    <2>2. next' - 1 = next /\ next' \in {seen + 1, seen + 2}
      BY <1>1, <1>2, <2>1, LoopTypes
    <2>3. ASSUME NEW p \in Path, Changed(hist, p, seen + 1), ~Changed(hist, p, next')
          PROVE  \E e \in todo' : e.path = p
      <3>1. PICK i \in seen + 1..Len(hist) : \E e \in hist[i] : e.path = p
        BY <2>3 DEF Changed
      <3>2. i \notin next'..Len(hist)
        BY <2>3, <3>1 DEF Changed
      <3>3. i = next
        BY <1>1, <1>2, <2>1, <3>1, <3>2, LoopTypes
      <3> QED
        BY <1>1, <3>1, <3>3
    <2> QED
      BY <1>1, <2>1, <2>2, <2>3
  <1> QED
    BY <1>6, <1>7

\* A change is processed.  Where the store is not behind any more it then holds
\* what etcd holds, because no later revision changes that key; a delete takes
\* along what is below the key, and there no key is.
LEMMA ProcessChangeStep ==
    ASSUME Inv, NEW e \in todo, ProcessChange(e)
    PROVE  Inv' /\ (FlatKeys /\ SyncInv => SyncInv')
  <1>1. /\ UNCHANGED <<etcdVars, req>>
        /\ UNCHANGED <<snapshot, pc, init, wgDone, next, breaks, gap, stop,
                       helper, cancelled, hist, etcd>>
        /\ cache' = Processed(e) /\ todo' = todo \ {e}
        /\ rev' = IF todo = {e} THEN next - 1 ELSE rev
        /\ seen' = IF todo = {e} /\ seen < next - 1 THEN next - 1 ELSE seen
    BY DEF ProcessChange, others, etcdVars, stopVars, history
  <1>2. /\ pc = "serve" /\ init /\ next \in 2..Len(hist) + 1
        /\ e \in Change /\ e.path \in Path /\ e.val \in Value \cup {None}
    BY LoopTypes DEF LoopInv, Change
  <1>3. /\ cache' \in Contents
        /\ e.val # None => cache'[e.path] = e.val /\ \A p \in Path \ {e.path} : cache'[p] = cache[p]
        /\ e.val = None => \A p \in Path : cache'[p] = IF AtOrAbove(e.path, p) THEN None ELSE cache[p]
    BY <1>1, <1>2, LoopTypes DEF Processed, Contents
  <1>4. rev' \in 0..MaxRev /\ seen' \in 0..MaxRev /\ rev' <= Revision /\ seen' <= Revision
    BY <1>1, <1>2, LoopTypes DEF LoopInv
  <1>5. LoopInv'
    BY <1>1, <1>2, <1>4, LoopTypes DEF LoopInv, InitSignalledOnce, Revision
  <1>6. Inv'
    BY <1>1, <1>3, <1>4, <1>5, LoopTypes, LoopStep
  <1>7. ASSUME FlatKeys, SyncInv, ~gap
        PROVE  /\ rev' = 0 \/ rev' >= seen'
               /\ todo = {e} => seen' = next - 1 /\ next = seen' + 1
               /\ todo # {e} => next \in {seen' + 1, seen' + 2}
               /\ todo' \subseteq hist[next - 1]
               /\ \A p \in Path : \/ \E f \in todo' : f.path = p
                                  \/ Changed(hist, p, next)
                                  \/ cache'[p] = etcd[p]
    <2>1. /\ next \in {seen + 1, seen + 2} /\ (rev = 0 \/ rev >= seen)
          /\ todo \subseteq hist[next - 1]
          /\ \A p \in Path : \/ \E f \in todo : f.path = p
                             \/ Changed(hist, p, next)
                             \/ cache[p] = etcd[p]
      BY <1>2, <1>7 DEF SyncInv
    <2>2. next - 1 \in 1..Revision /\ next - 1 + 1 = next
      BY <1>2, LoopTypes
    <2>3. /\ \A f \in hist[next - 1] : f.path \in Key
          /\ \A f \in hist[next - 1] : ~Changed(hist, f.path, next) => etcd[f.path] = f.val
      BY <2>2 DEF Inv, HistoryInv
    <2>4. ASSUME NEW p \in Path, \A f \in todo' : f.path # p, ~Changed(hist, p, next)
          PROVE  cache'[p] = etcd[p]
      <3>1. CASE p = e.path
        <4>1. etcd[p] = e.val
          BY <2>1, <2>3, <2>4, <3>1
        <4>2. cache'[p] = e.val
          <5>1. AtOrAbove(p, p)
            BY <3>1, PathAssumption DEF AtOrAbove
          <5> QED
            BY <1>2, <1>3, <3>1, <5>1
        <4> QED
          BY <4>1, <4>2
      <3>2. CASE p # e.path
        <4>1. cache[p] = etcd[p]
          BY <1>1, <2>1, <2>4, <3>2
        <4>2. CASE cache'[p] = cache[p]
          BY <4>1, <4>2
        <4>3. CASE cache'[p] # cache[p]
          <5>1. AtOrAbove(e.path, p) /\ cache'[p] = None
            BY <1>2, <1>3, <3>2, <4>3
          <5>2. p \notin Key
            BY <1>7, <2>1, <2>3, <3>2, <5>1 DEF FlatKeys, Above
          <5>3. etcd[p] = None
            BY <5>2 DEF Inv, HistoryInv
          <5> QED
            BY <5>1, <5>3
        <4> QED
          BY <4>2, <4>3
      <3> QED
        BY <3>1, <3>2
    <2>5. /\ rev' = 0 \/ rev' >= seen'
          /\ todo = {e} => seen' = next - 1 /\ next = seen' + 1
          /\ todo # {e} => next \in {seen' + 1, seen' + 2}
      <3>0. next \in Int /\ seen \in Int /\ rev \in Int
        BY <1>2, LoopTypes
      <3>1. CASE todo = {e}
        <4>1. rev' = next - 1 /\ seen' = IF seen < next - 1 THEN next - 1 ELSE seen
          BY <1>1, <3>1
        <4>2. next = seen + 1 \/ next = seen + 2
          BY <2>1
        <4>3. seen' = next - 1
          BY <3>0, <4>1, <4>2
        <4> QED
          BY <3>0, <3>1, <4>1, <4>3
      <3>2. CASE todo # {e}
        BY <1>1, <2>1, <3>2
      <3> QED
        BY <3>1, <3>2
    <2> QED
      BY <1>1, <2>1, <2>4, <2>5
  <1>8. ASSUME FlatKeys, SyncInv PROVE SyncInv'
    <2>1. CASE gap
      BY <1>1, <1>2, <2>1 DEF SyncInv
    <2>2. CASE ~gap /\ todo = {e}
      <3>1. todo' = {} /\ next' = seen' + 1
        BY <1>1, <1>7, <1>8, <2>2
      <3> QED
        BY <1>1, <1>2, <1>7, <1>8, <2>2, <3>1 DEF SyncInv
    <2>3. CASE ~gap /\ todo # {e}
      <3>1. todo' # {}
        BY <1>1, <2>3
      <3> QED
        BY <1>1, <1>2, <1>7, <1>8, <2>3, <3>1 DEF SyncInv
    <2> QED
      BY <2>1, <2>2, <2>3
  <1> QED
    BY <1>6, <1>8

\* The watch ends between two responses: nothing is taken and not processed.
LEMMA WatchEndsStep ==
    ASSUME Inv, pc = "serve", todo = {}, pc' = "top", next' = 0, rev' \in {0, rev},
           breaks' \in 0..MaxBreaks,
           UNCHANGED <<init, wgDone, todo, snapshot, cache, others, history>>
    PROVE  Inv' /\ (SyncInv => SyncInv')
  <1>1. /\ UNCHANGED <<etcdVars, req>>
        /\ UNCHANGED <<init, wgDone, todo, snapshot, cache, seen, gap, stop, helper,
                       cancelled, hist, etcd>>
    BY DEF others, etcdVars, stopVars, history
  <1>2. LoopInv'
    BY <1>1, LoopTypes DEF LoopInv, InitSignalledOnce, Revision
  <1>3. Inv'
    BY <1>1, <1>2, LoopTypes, LoopStep
  <1>4. SyncInv => SyncInv'
    BY <1>1, LoopTypes DEF SyncInv
  <1> QED
    BY <1>3, <1>4

\* The helper goroutine touches only stop and the context.
LEMMA HelperStep ==
    ASSUME Inv, StopSignal \/ HelperCancels
    PROVE  Inv' /\ (SyncInv => SyncInv')
  <1>1. /\ UNCHANGED <<etcdVars, req>>
        /\ UNCHANGED <<cache, snapshot, pc, init, wgDone, rev, next, todo, breaks, seen, gap,
                       hist, etcd>>
        /\ stop' \in BOOLEAN /\ cancelled' \in BOOLEAN
        /\ helper' \in {"waiting", "cancel", "gone"}
    BY LoopTypes DEF StopSignal, HelperCancels, loopVars, etcdVars, history
  <1>2. LoopInv'
    BY <1>1, LoopTypes DEF LoopInv, InitSignalledOnce, Revision
  <1>3. Inv'
    BY <1>1, <1>2, LoopTypes, LoopStep
  <1>4. SyncInv => SyncInv'
    BY <1>1 DEF SyncInv
  <1> QED
    BY <1>3, <1>4

-----------------------------------------------------------------------------
(* The theorems.                                                           *)

\* New establishes the invariants.
LEMMA InvInit == Init => Inv /\ SyncInv
  <1> SUFFICES ASSUME Init PROVE Inv /\ SyncInv
    OBVIOUS
  <1>1. PICK K \in SUBSET Key : \E f \in [K -> Value] :
           etcd = [p \in Path |-> IF p \in K THEN f[p] ELSE None]
    BY DEF Init
  <1>2. PICK f \in [K -> Value] : etcd = [p \in Path |-> IF p \in K THEN f[p] ELSE None]
    BY <1>1
  <1>3. etcd \in Contents /\ \A p \in Path : etcd[p] # None => p \in Key
    BY <1>2 DEF Contents
  <1>4. hist = <<>> /\ Len(hist) = 0 /\ Revision = 0
    BY DEF Init, Revision
  <1>5. \A r \in Requester : req[r] = Idle
    BY DEF Init
  <1>6. TypeOK
    <2>1. Idle \in [subs : SUBSET Path, del : {"none", "key", "dir"}, at : Path,
                    left : SUBSET (Key \X Value)]
      BY PathAssumption DEF Idle, Root
    <2>2. hist \in Seq(SUBSET Change) /\ Len(hist) <= MaxRev
      BY <1>4, EtcdAssumption
    <2>3. Nothing \in Contents
      BY DEF Nothing, Contents
    <2>4. 0 \in 0..MaxRev /\ 0 \in 0..MaxRev + 1 /\ 0 \in 0..MaxBreaks
      BY EtcdAssumption
    <2>5. init \in BOOLEAN /\ stop \in BOOLEAN /\ cancelled \in BOOLEAN /\ gap \in BOOLEAN
      BY DEF Init
    <2>6. /\ compact \in 0..MaxRev /\ rev \in 0..MaxRev /\ seen \in 0..MaxRev
          /\ next \in 0..MaxRev + 1 /\ breaks \in 0..MaxBreaks /\ wgDone \in 0..1
      BY <2>4 DEF Init
    <2>7. /\ cache \in Contents /\ snapshot \in Contents /\ todo \subseteq Change
          /\ pc \in {"top", "create", "init", "initPut", "serve", "done"}
          /\ helper \in {"waiting", "cancel", "gone"}
      BY <2>3 DEF Init
    <2>8. req \in [Requester -> [subs : SUBSET Path, del : {"none", "key", "dir"}, at : Path,
                                 left : SUBSET (Key \X Value)]]
      BY <2>1 DEF Init
    <2> QED
      BY <1>3, <2>2, <2>5, <2>6, <2>7, <2>8 DEF TypeOK
  <1>7. HistoryInv /\ RequestInv
    BY <1>3, <1>4, <1>5 DEF HistoryInv, RequestInv, Idle
  <1>8. LoopInv /\ SyncInv
    BY <1>4 DEF Init, LoopInv, SyncInv, InitSignalledOnce
  <1> QED
    BY <1>6, <1>7, <1>8 DEF Inv

\* Every step preserves the invariants, the second one for flat keys.
LEMMA InvNext ==
    ASSUME Inv, [Next]_vars
    PROVE  Inv' /\ (FlatKeys /\ SyncInv => SyncInv')
  <1>1. CASE \/ \E r \in Requester :
                   \/ \E k \in Key, v \in Value : PutString(r, k, v)
                   \/ \E b \in Bulks, replace \in BOOLEAN : PutMap(r, b, replace)
                   \/ \E p \in Path : DeleteData(r, p) \/ LookUp(r, p)
                   \/ EtcdDelete(r)
                   \/ EtcdPut(r)
                   \/ EtcdFails(r)
             \/ EtcdCompacts
    BY <1>1, RequestsStep
  <1>2. CASE CheckStop \/ OpenWatch \/ InitGet \/ InitPut
    BY <1>2, CheckStopStep, OpenWatchStep, InitGetStep, InitPutStep
  <1>3. CASE ReceiveResp
    BY <1>3, ReceiveRespStep
  <1>4. ASSUME NEW e \in todo, ProcessChange(e) PROVE Inv' /\ (FlatKeys /\ SyncInv => SyncInv')
    BY <1>4, ProcessChangeStep
  <1>5. CASE WatchCancelled
    <2>1. breaks' \in 0..MaxBreaks
      BY <1>5, LoopTypes DEF WatchCancelled
    <2> QED
      BY <1>5, <2>1, WatchEndsStep DEF WatchCancelled
  <1>6. CASE WatchBreaks
    <2>1. breaks' \in 0..MaxBreaks
      BY <1>6, LoopTypes DEF WatchBreaks
    <2> QED
      BY <1>6, <2>1, WatchEndsStep DEF WatchBreaks
  <1>7. CASE StopSignal \/ HelperCancels
    BY <1>7, HelperStep
  <1>8. CASE UNCHANGED vars
    <2>1. Grows /\ HistoryInv'
      BY <1>8, EtcdIdle DEF vars, etcdVars
    <2>2. UNCHANGED metad /\ UNCHANGED <<compact, req>>
      BY <1>8 DEF vars, metad, etcdVars
    <2>3. RequestInv' /\ compact' \in 0..MaxRev
          /\ req' \in [Requester -> [subs : SUBSET Path, del : {"none", "key", "dir"},
                                     at : Path, left : SUBSET (Key \X Value)]]
      BY <2>2 DEF Inv, TypeOK, RequestInv
    <2> QED
      BY <2>1, <2>2, <2>3, RequestStep
  <1> QED
    BY <1>1, <1>2, <1>3, <1>4, <1>5, <1>6, <1>7, <1>8 DEF Next, internalSync

\* The inductive invariant holds in every reachable state.
THEOREM Invariance == Spec => []Inv
  <1>1. Init => Inv
    BY InvInit
  <1>2. Inv /\ [Next]_vars => Inv'
    BY InvNext
  <1> QED
    BY <1>1, <1>2, PTL DEF Spec

\* Type correctness: no revision is read that etcd does not have.
THEOREM TypeCorrect == Spec => []TypeOK
  <1>1. Inv => TypeOK
    BY DEF Inv
  <1> QED
    BY <1>1, Invariance, PTL

\* initWG.Done is called once, wherever a stop signal finds the loop.
THEOREM SignalledOnce == Spec => []InitSignalledOnce
  <1>1. Inv => InitSignalledOnce
    BY DEF Inv, LoopInv
  <1> QED
    BY <1>1, Invariance, PTL

\* A store that has caught up with a watch without gaps holds what etcd holds,
\* for any requests, breaks and compactions, when no key is the directory of
\* another.
THEOREM InSync ==
    ASSUME FlatKeys
    PROVE  Spec => []InSyncWithoutGap
  <1>1. Init => Inv /\ SyncInv
    BY InvInit
  <1>2. Inv /\ SyncInv /\ [Next]_vars => Inv' /\ SyncInv'
    BY InvNext
  <1>3. Inv /\ SyncInv => InSyncWithoutGap
    <2> SUFFICES ASSUME Inv, SyncInv, CaughtUp, ~gap PROVE cache = etcd
      BY DEF InSyncWithoutGap
    <2>1. next = seen + 1 /\ next > Len(hist)
      BY LoopTypes DEF CaughtUp, SyncInv, LoopInv
    <2>2. \A p \in Path : ~Changed(hist, p, seen + 1)
      BY <2>1, LoopTypes DEF Changed
    <2>3. \A p \in Path : cache[p] = etcd[p]
      BY <2>2 DEF CaughtUp, SyncInv
    <2> QED
      BY <2>3, LoopTypes DEF Contents
  <1> QED
    BY <1>1, <1>2, <1>3, PTL DEF Spec

=============================================================================
