-------------------------- MODULE AggregateWatcher --------------------------
(***************************************************************************)
(* aggregateWatcher of store/watcher.go, as WatchSelf uses it: one store   *)
(* watcher per mapped data path, a goroutine per watcher that forwards its *)
(* events to the aggregate channel, and changeToResult, which reads that   *)
(* channel until no event has come for 100ms and then removes the          *)
(* aggregate watcher.  Its timer comes from the pool (module TimerPool),   *)
(* which it shares with the requests of other goroutines.                  *)
(*                                                                         *)
(* The store sends to a sub watcher's channel without blocking             *)
(* (node.internalNotify), the goroutines send with blocking, and Remove    *)
(* runs in the goroutine that was the channel's only reader.               *)
(***************************************************************************)
EXTENDS TimerPool, Integers, Sequences, FiniteSets, Functions

CONSTANTS
    Sub,            \* the sub watchers, by their path prefix
    SubBuf,         \* capacity of their channels (100)
    AggPerSub,      \* capacity of the aggregate channel per sub watcher (50)
    MaxEvents,      \* bound on the events sent to one sub watcher
    Reader          \* the goroutine that reads, one of User

ASSUME AggregateAssumption ==
    /\ IsFiniteSet(Sub)
    /\ SubBuf \in Nat \ {0}
    /\ AggPerSub \in Nat \ {0}
    /\ MaxEvents \in Nat
    /\ Reader \in User

VARIABLES
    sent,           \* number of events that each sub watcher's channel took
    subChan,        \* the events in it; the n-th event it took is n
    subOpen,        \* the sub watchers not removed yet
    held,           \* event that the goroutine has received and not sent, or 0
    running,        \* the goroutines that have not called waitGroup.Done
    aggChan,        \* the aggregate channel: pairs of sub watcher and event
    aggOpen,        \* it is not closed
    got,            \* number of events that the reader got, per sub watcher
    pc              \* the reader: in changeToResult or in aggregateWatcher.Remove

aggVars == <<sent, subChan, subOpen, held, running, aggChan, aggOpen, got, pc>>

vars == <<aggVars, timerVars>>

AggCap == AggPerSub * Cardinality(Sub)

TypeOK ==
    /\ sent \in [Sub -> 0..MaxEvents]
    /\ subChan \in [Sub -> Seq(1..MaxEvents)]
    /\ \A s \in Sub : Len(subChan[s]) <= SubBuf
    /\ subOpen \subseteq Sub
    /\ held \in [Sub -> 0..MaxEvents]
    /\ running \subseteq Sub
    /\ aggChan \in Seq(Sub \X (1..MaxEvents))
    /\ Len(aggChan) <= AggCap
    /\ aggOpen \in BOOLEAN
    /\ got \in [Sub -> 0..MaxEvents]
    /\ pc \in {"read", "acquire", "remove", "wait", "returned"}
    /\ TimersTypeOK

\* NewAggregateWatcher
Init ==
    /\ sent = [s \in Sub |-> 0]
    /\ subChan = [s \in Sub |-> <<>>]
    /\ subOpen = Sub
    /\ held = [s \in Sub |-> 0]
    /\ running = Sub
    /\ aggChan = <<>>
    /\ aggOpen = TRUE
    /\ got = [s \in Sub |-> 0]
    /\ pc = "read"
    /\ InitTimers

-----------------------------------------------------------------------------
\* node.internalNotify: an event that does not fit is dropped there.
StoreNotifies(s) ==
    /\ s \in subOpen
    /\ sent[s] < MaxEvents
    /\ Len(subChan[s]) < SubBuf
    /\ sent' = [sent EXCEPT ![s] = @ + 1]
    /\ subChan' = [subChan EXCEPT ![s] = Append(@, sent[s] + 1)]
    /\ UNCHANGED <<subOpen, held, running, aggChan, aggOpen, got, pc, timerVars>>

\* case event, ok := <-watcher.EventChan(), with ok; a closed channel still
\* yields what is in it.
TakeEvent(s) ==
    /\ s \in running
    /\ held[s] = 0
    /\ subChan[s] # <<>>
    /\ held' = [held EXCEPT ![s] = Head(subChan[s])]
    /\ subChan' = [subChan EXCEPT ![s] = Tail(@)]
    /\ UNCHANGED <<sent, subOpen, running, aggChan, aggOpen, got, pc, timerVars>>

\* Mutant: the aggregate channel has no bound.
ForwardUnbounded(s) ==
    /\ held[s] # 0
    /\ aggChan' = Append(aggChan, <<s, held[s]>>)
    /\ held' = [held EXCEPT ![s] = 0]
    /\ UNCHANGED <<sent, subChan, subOpen, running, aggOpen, got, pc, timerVars>>

\* Mutant: the goroutine drops what does not fit.
ForwardOrDrop(s) ==
    /\ held[s] # 0
    /\ aggChan' = IF Len(aggChan) < AggCap THEN Append(aggChan, <<s, held[s]>>) ELSE aggChan
    /\ held' = [held EXCEPT ![s] = 0]
    /\ UNCHANGED <<sent, subChan, subOpen, running, aggOpen, got, pc, timerVars>>

\* eventChan <- newEvent(...), which waits until there is room.
ForwardEvent(s) ==
    /\ held[s] # 0
    /\ Len(aggChan) < AggCap
    /\ aggChan' = Append(aggChan, <<s, held[s]>>)
    /\ held' = [held EXCEPT ![s] = 0]
    /\ UNCHANGED <<sent, subChan, subOpen, running, aggOpen, got, pc, timerVars>>

\* Mutant: the goroutine does not call waitGroup.Done.
GoroutineLeaks(s) == s \in running \ subOpen /\ UNCHANGED vars

\* !ok: the sub watcher's channel is closed and empty.
GoroutineExits(s) ==
    /\ s \in running \ subOpen
    /\ held[s] = 0
    /\ subChan[s] = <<>>
    /\ running' = running \ {s}
    /\ UNCHANGED <<sent, subChan, subOpen, held, aggChan, aggOpen, got, pc, timerVars>>

\* changeToResult receives an event, whose path is never "/" but starts with the
\* mapping's key, and gives its timer back ...
ReadEvent ==
    /\ pc = "read"
    /\ aggChan # <<>>
    /\ aggChan' = Tail(aggChan)
    /\ got' = [got EXCEPT ![Head(aggChan)[1]] = Head(aggChan)[2]]
    /\ ReleaseIfAny(Reader)
    /\ pc' = "acquire"
    /\ UNCHANGED <<sent, subChan, subOpen, held, running, aggOpen>>

\* ... to take another one.
RestartTimer ==
    /\ pc = "acquire"
    /\ AcquireTimer(Reader)
    /\ pc' = "read"
    /\ UNCHANGED <<sent, subChan, subOpen, held, running, aggChan, aggOpen, got>>

\* Its timer or stopChan ends the batch.  It never reads the channel again.
BatchTimer ==
    /\ pc = "read"
    /\ TimerFires(Reader)
    /\ pc' = "remove"
    /\ UNCHANGED <<sent, subChan, subOpen, held, running, aggChan, aggOpen, got>>

StopReading ==
    /\ pc = "read"
    /\ ReleaseIfAny(Reader)
    /\ pc' = "remove"
    /\ UNCHANGED <<sent, subChan, subOpen, held, running, aggChan, aggOpen, got>>

\* aggregateWatcher.Remove: remove the sub watchers one by one, which closes
\* their channels, ...
RemoveSub(s) ==
    /\ pc = "remove"
    /\ s \in subOpen
    /\ subOpen' = subOpen \ {s}
    /\ UNCHANGED <<sent, subChan, held, running, aggChan, aggOpen, got, pc, timerVars>>

AllRemoved ==
    /\ pc = "remove"
    /\ subOpen = {}
    /\ pc' = "wait"
    /\ UNCHANGED <<sent, subChan, subOpen, held, running, aggChan, aggOpen, got, timerVars>>

\* Mutant: Remove does not wait.
CloseAtOnce ==
    /\ pc = "wait"
    /\ aggOpen' = FALSE
    /\ pc' = "returned"
    /\ UNCHANGED <<sent, subChan, subOpen, held, running, aggChan, got, timerVars>>

\* ... wait for the goroutines, and close the aggregate channel.
CloseAggregate ==
    /\ pc = "wait"
    /\ running = {}
    /\ aggOpen' = FALSE
    /\ pc' = "returned"
    /\ UNCHANGED <<sent, subChan, subOpen, held, running, aggChan, got, timerVars>>

Goroutine(s) == TakeEvent(s) \/ ForwardEvent(s) \/ GoroutineExits(s)

Remove == (\E s \in Sub : RemoveSub(s)) \/ AllRemoved \/ CloseAggregate

\* Another request's changeToResult: an event, its timer, its end.
OtherRequest(u) ==
    /\ u # Reader
    /\ \/ AcquireTimer(u)
       \/ timer[u] # NoTimer /\ ReleaseIfAny(u)
       \/ TimerFires(u)
       \/ ForgetTimer(u)
    /\ UNCHANGED aggVars

Clock(t) == (Expire(t) \/ Tick(t)) /\ UNCHANGED aggVars

Next ==
    \/ \E s \in Sub : StoreNotifies(s) \/ Goroutine(s)
    \/ ReadEvent
    \/ RestartTimer
    \/ BatchTimer
    \/ StopReading
    \/ Remove
    \/ \E u \in User : OtherRequest(u)
    \/ \E t \in Timer : Clock(t)

Spec == Init /\ [][Next]_vars

\* Goroutines that can go on do, and timers run.
FairSpec ==
    /\ Spec
    /\ WF_vars(Remove)
    /\ WF_vars(ReadEvent \/ RestartTimer \/ BatchTimer)
    /\ \A s \in Sub : WF_vars(Goroutine(s))
    /\ \A t \in Timer : WF_vars(Clock(t))

-----------------------------------------------------------------------------
(* Properties.                                                             *)

\* The number of s's events that its goroutine has sent to the aggregate channel.
Forwarded(s) == sent[s] - Len(subChan[s]) - (IF held[s] = 0 THEN 0 ELSE 1)

\* Where the events of s are in the aggregate channel.
Places(s) == {i \in 1..Len(aggChan) : aggChan[i][1] = s}

\* Aggregating loses no event that a sub watcher's channel took, repeats none
\* and keeps the order of one sub watcher's events: after what the reader got
\* come the events in the aggregate channel, the goroutine's and the channel's.
InOrder ==
    \A s \in Sub :
        /\ got[s] <= Forwarded(s)
        /\ \A n \in got[s] + 1..Forwarded(s) : \E i \in Places(s) : aggChan[i][2] = n
        /\ \A i \in Places(s) : aggChan[i][2] \in got[s] + 1..Forwarded(s)
        /\ \A i, j \in Places(s) : i < j => aggChan[i][2] < aggChan[j][2]
        /\ held[s] # 0 => held[s] = Forwarded(s) + 1
        /\ \A i \in 1..Len(subChan[s]) :
              subChan[s][i] = sent[s] - Len(subChan[s]) + i

\* No goroutine sends to the closed aggregate channel, which would panic:
\* when Remove closes it all of them have ended.
NoSendAfterClose == ~aggOpen => /\ running = {}
                                /\ \A s \in Sub : held[s] = 0 /\ subChan[s] = <<>>

Unread == Len(aggChan)
            + Cardinality({s \in Sub : held[s] # 0})
            + FoldFunction(LAMBDA x, y : Len(x) + y, 0, subChan)

\* Remove returns when the aggregate channel has room for what is still on its
\* way: then no goroutine is stuck at its send.
RemoveReturnsIfRoom == (pc = "wait" /\ Unread <= AggCap) ~> (pc = "returned")

\* A batch ends: once an event has come the reader returns, whichever timers it
\* took from the pool, as long as events do not come for ever.
BatchEnds == (pc = "acquire") ~> (pc = "remove")

\* Remove returns: "wait all sub watcher's go routine exit".
RemoveReturns == (pc = "remove") ~> (pc = "returned")

=============================================================================
