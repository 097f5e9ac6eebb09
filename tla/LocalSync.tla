----------------------------- MODULE LocalSync -----------------------------
(***************************************************************************)
(* The local backend, backends/local/client.go: requests write to a store  *)
(* of the backend's own, and internalSync copies it to a store of          *)
(* metadata/metarepo.go by the events of a watcher at "/".                 *)
(*                                                                         *)
(* Both stores are trees with hidden values (module Tree), but events tell *)
(* only of what shows, and the watch begins before the first copy is made, *)
(* so that events from before the copy are applied to it once more.        *)
(***************************************************************************)
EXTENDS Tree, SequencesExt

CONSTANTS
    BufLen,         \* capacity of the watcher's channel (5000)
    MaxWrites       \* bound on the number of requests

ASSUME LocalSyncAssumption ==
    /\ Empty \notin Value
    /\ BufLen \in Nat \ {0}
    /\ MaxWrites \in Nat

VARIABLES
    from,           \* the backend's store
    chan,           \* events in the channel of the watcher at its root
    open,           \* that watcher is registered
    to,             \* the store of the repository
    pc,             \* where internalSync is
    writes,         \* number of requests so far
    dropped,        \* history: the channel was full when an event came
    atStop          \* history: what the backend showed when the sync was stopped

vars == <<from, chan, open, to, pc, writes, dropped, atStop>>

\* NewLocalClient, NewMetadataRepo
Init ==
    /\ from = NewTree
    /\ chan = <<>>
    /\ open = FALSE
    /\ to = NewTree
    /\ pc = "watch"
    /\ writes = 0
    /\ dropped = FALSE
    /\ atStop = {}

-----------------------------------------------------------------------------
(* Requests, in the backend's store.                                       *)

\* The orders in which one operation may send its events: a leaf that becomes a
\* directory, and the leaves of a removed subtree, go before a node that shows
\* its value then.
Orders(es) ==
    {d \o u : d \in SetToSeqs({e \in es : e.action = "DELETE"}),
              u \in SetToSeqs({e \in es : e.action = "UPDATE"})}

\* What the channel takes of the events s.
Send(s) ==
    IF ~open THEN UNCHANGED <<chan, dropped>>
    ELSE LET room == BufLen - Len(chan)
         IN  /\ chan' = chan \o SubSeq(s, 1, IF Len(s) <= room THEN Len(s) ELSE room)
             /\ dropped' = (dropped \/ Len(s) > room)

\* The backend's tree becomes t, with the events es.
Change(t, es) ==
    /\ writes < MaxWrites
    /\ writes' = writes + 1
    /\ from' = t
    /\ \E s \in Orders(es) :
          Send([i \in DOMAIN s |-> [action |-> s[i].action,
                                    path |-> s[i].path,
                                    val |-> t[s[i].path].val]])
    /\ UNCHANGED <<open, to, pc, atStop>>

Watched == IF open THEN {Root} ELSE {}

\* Put of a text, or of one entry of a map.
Put(p, v) == Change(PutTree(from, p, v), PutEvents(from, p, v))

\* Delete, and the first half of a Put that replaces.
Delete(p) ==
    /\ Present(from, p)
    /\ Change(RemoveTree(from, Watched, p), RemoveEvents(from, Watched, p))

-----------------------------------------------------------------------------
(* internalSync.                                                           *)

Watch ==
    /\ pc = "watch"
    /\ open' = TRUE
    /\ pc' = "copy"
    /\ UNCHANGED <<from, chan, to, writes, dropped, atStop>>

\* The tree that to.Put makes of the leaves that from.Get returned.
CopyOf(leaves) ==
    [p \in Path |->
        IF \E l \in leaves : l[1] = p
        THEN [kind |-> "leaf", val |-> (CHOOSE l \in leaves : l[1] = p)[2]]
        ELSE IF p = Root \/ \E l \in leaves : Above(p, l[1]) THEN EmptyDir
        ELSE Absent]

Copy ==
    /\ pc = "copy"
    /\ to' = CopyOf(Visible(from, Root))
    /\ pc' = "loop"
    /\ UNCHANGED <<from, chan, open, writes, dropped, atStop>>

\* Mutant: a delete takes only the leaf along.
AppliedToLeaf(e) ==
    IF e.action = "UPDATE" THEN PutTree(to, e.path, e.val)
    ELSE IF IsLeaf(to, e.path) THEN RemoveTree(to, {}, e.path)
    ELSE to

\* to.Delete or to.Put
Applied(e) ==
    IF e.action = "UPDATE" THEN PutTree(to, e.path, e.val)
    ELSE IF Present(to, e.path) THEN RemoveTree(to, {}, e.path)
    ELSE to

ProcessEvent ==
    /\ pc = "loop"
    /\ chan # <<>>
    /\ to' = Applied(Head(chan))
    /\ chan' = Tail(chan)
    /\ UNCHANGED <<from, open, pc, writes, dropped, atStop>>

\* Mutant: the loop ends at the stop signal.
StopAtOnce ==
    /\ pc = "loop"
    /\ open
    /\ open' = FALSE
    /\ pc' = "returned"
    /\ atStop' = Visible(from, Root)
    /\ UNCHANGED <<from, chan, to, writes, dropped>>

\* case <-stopChan: w.Remove() closes the channel, and the loop goes on.
Stop ==
    /\ pc = "loop"
    /\ open
    /\ open' = FALSE
    /\ atStop' = Visible(from, Root)
    /\ UNCHANGED <<from, chan, to, pc, writes, dropped>>

\* !ok: the channel is closed and empty.
Return ==
    /\ pc = "loop"
    /\ ~open
    /\ chan = <<>>
    /\ pc' = "returned"
    /\ UNCHANGED <<from, chan, open, to, writes, dropped, atStop>>

internalSync == Watch \/ Copy \/ ProcessEvent \/ Return

Next ==
    \/ \E p \in Path \ {Root}, v \in Value : Put(p, v)
    \/ \E p \in Path : Delete(p)
    \/ internalSync
    \/ Stop

Spec == Init /\ [][Next]_vars

\* The sync goroutine runs.
FairSpec == Spec /\ WF_vars(internalSync)

-----------------------------------------------------------------------------
(* Properties.                                                             *)

\* A sync that has processed every event shows what the backend shows, although
\* the events from before the copy are applied to it again, and although values
\* hidden in the backend are not hidden in the copy.
InStep ==
    pc = "loop" /\ open /\ chan = <<>> /\ ~dropped =>
        Visible(to, Root) = Visible(from, Root)

\* A stopped sync comes to its end, where it leaves the store for Destroy, with
\* everything processed that was sent before the stop, and no more.
StopsInStep ==
    (pc # "watch" /\ ~open)
      ~> (pc = "returned" /\ (dropped \/ Visible(to, Root) = atStop))

=============================================================================
