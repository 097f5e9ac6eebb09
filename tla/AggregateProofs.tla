-------------------------- MODULE AggregateProofs --------------------------
(***************************************************************************)
(* The timer pool and the aggregate watcher, for any number of users,      *)
(* timers and sub watchers and any capacity of the channels.               *)
(***************************************************************************)
EXTENDS AggregateWatcher, SequenceTheorems, FiniteSetTheorems, TLAPS

-----------------------------------------------------------------------------
(* The timer pool.                                                         *)

InUse == {timer[u] : u \in User}

\* A tick is "due" only for the user who waits for it: the timer has expired,
\* and has not been given back since.  Then a Stop that finds the timer running
\* leaves no due tick in the channel for the next user.
DueOnlyInUse ==
    /\ active \subseteq InUse
    /\ \A t \in Timer : t \in active \/ t \notin InUse =>
          "due" \notin sending[t] /\ "due" \notin tick[t]
    /\ \A t \in Timer : "left" \notin sending[t]

PoolInv ==
    /\ TimersTypeOK
    /\ OneUser
    /\ DueOnlyInUse
    /\ EarlyOnlyAfterSlip

\* NewTimerPool establishes the pool's invariant.
LEMMA PoolInit == InitTimers => PoolInv
  <1> SUFFICES ASSUME InitTimers PROVE PoolInv
    OBVIOUS
  <1>1. TimersTypeOK
    BY DEF InitTimers, TimersTypeOK
  <1>2. OneUser
    BY DEF InitTimers, OneUser
  <1>3. DueOnlyInUse /\ EarlyOnlyAfterSlip
    BY DEF InitTimers, DueOnlyInUse, EarlyOnlyAfterSlip
  <1> QED
    BY <1>1, <1>2, <1>3 DEF PoolInv

\* AcquireTimer gives a user a timer that nobody has, with no due tick.
LEMMA AcquireStep ==
    ASSUME PoolInv, NEW u \in User, AcquireTimer(u)
    PROVE  PoolInv'
  <1>1. PICK t \in Timer : AcquirePooled(u, t) \/ AcquireNew(u, t)
    BY DEF AcquireTimer
  <1>2. /\ timer[u] = NoTimer
        /\ timer' = [timer EXCEPT ![u] = t]
        /\ active' = active \cup {t}
        /\ UNCHANGED <<sending, tick>>
        /\ pool' = pool \ {t}
    BY <1>1 DEF AcquirePooled, AcquireNew, Taken
  <1>3. t \notin InUse
    BY <1>1 DEF AcquirePooled, AcquireNew, Taken, InUse, PoolInv, OneUser
  <1>4. TimersTypeOK /\ t # NoTimer
    BY TimerPoolAssumption DEF PoolInv
  <1>5. timer'[u] = t /\ \A w \in User \ {u} : timer'[w] = timer[w]
    BY <1>2, <1>4 DEF TimersTypeOK
  <1>6. TimersTypeOK'
    BY <1>2, <1>4 DEF TimersTypeOK
  <1>7. OneUser'
    BY <1>2, <1>3, <1>5 DEF PoolInv, OneUser, InUse
  <1>8. InUse' \ {NoTimer} = (InUse \ {NoTimer}) \cup {t}
    BY <1>2, <1>4, <1>5 DEF InUse
  <1>9. DueOnlyInUse' /\ EarlyOnlyAfterSlip'
    BY <1>2, <1>3, <1>4, <1>8, TimerPoolAssumption
       DEF PoolInv, DueOnlyInUse, EarlyOnlyAfterSlip, TimersTypeOK
  <1> QED
    BY <1>6, <1>7, <1>9 DEF PoolInv

\* ReleaseTimer leaves no tick behind that was due to its user.
LEMMA ReleaseStep ==
    ASSUME PoolInv, NEW u \in User, timer[u] # NoTimer,
           NEW left, left = {} \/ left = tick[timer[u]], ReleaseTimer(u, left)
    PROVE  PoolInv'
  <1> DEFINE t == timer[u]
  <1>1. t \in Timer /\ TimersTypeOK
    BY DEF PoolInv, TimersTypeOK
  <1>2. /\ timer' = [timer EXCEPT ![u] = NoTimer]
        /\ active' = active \ {t}
        /\ pool' = pool \cup {t}
        /\ tick' = [tick EXCEPT ![t] = IF t \in active THEN Left(left) ELSE {}]
        /\ sending' = [sending EXCEPT ![t] = IF @ = {} THEN {} ELSE {"slipped"}]
    BY DEF ReleaseTimer
  <1>3. timer'[u] = NoTimer /\ \A w \in User \ {u} : timer'[w] = timer[w] /\ timer[w] # t
    BY <1>1, <1>2 DEF TimersTypeOK, PoolInv, OneUser
  <1>4. /\ tick'[t] \in {{}, left} /\ \A x \in Timer \ {t} : tick'[x] = tick[x]
        /\ "due" \notin tick'[t] /\ "left" \notin tick'[t]
    <2>1. CASE t \in active
      <3>1. "due" \notin left /\ "left" \notin left
        BY <1>1, <2>1 DEF PoolInv, DueOnlyInUse, EarlyOnlyAfterSlip
      <3> QED
        BY <1>1, <1>2, <2>1, <3>1 DEF Left, TimersTypeOK
    <2>2. CASE t \notin active
      BY <1>1, <1>2, <2>2 DEF TimersTypeOK
    <2> QED
      BY <2>1, <2>2
  <1>5. /\ sending'[t] \in {{}, {"slipped"}}
        /\ \A x \in Timer \ {t} : sending'[x] = sending[x]
    BY <1>1, <1>2 DEF TimersTypeOK
  <1>6. TimersTypeOK'
    <2>1. tick' \in [Timer -> {{}} \cup {{k} : k \in Kinds}]
      <3>1. tick'[t] \in {{}} \cup {{k} : k \in Kinds}
        BY <1>1, <1>4 DEF TimersTypeOK
      <3> QED
        BY <1>1, <1>2, <1>4, <3>1 DEF TimersTypeOK
    <2>2. sending' \in [Timer -> SUBSET Kinds]
      BY <1>1, <1>2, <1>5 DEF TimersTypeOK, Kinds
    <2> QED
      BY <1>1, <1>2, <2>1, <2>2 DEF TimersTypeOK
  <1>7. OneUser'
    BY <1>1, <1>2, <1>3, TimerPoolAssumption DEF PoolInv, OneUser, TimersTypeOK
  <1>8. InUse' \ {NoTimer} = (InUse \ {NoTimer}) \ {t}
    BY <1>3 DEF InUse
  <1> HIDE DEF t
  <1>9. active' \subseteq InUse'
    BY <1>1, <1>2, <1>8, TimerPoolAssumption DEF PoolInv, DueOnlyInUse, TimersTypeOK
  <1>10. ASSUME NEW x \in Timer
         PROVE  /\ x \in active' \/ x \notin InUse' =>
                      "due" \notin sending'[x] /\ "due" \notin tick'[x]
                /\ "left" \notin sending'[x] /\ "left" \notin tick'[x]
    <2>1. CASE x = t
      BY <1>4, <1>5, <2>1
    <2>2. CASE x # t
      BY <1>2, <1>4, <1>5, <1>8, <2>2, TimerPoolAssumption
         DEF PoolInv, DueOnlyInUse, EarlyOnlyAfterSlip
    <2> QED
      BY <2>1, <2>2
  <1> QED
    BY <1>6, <1>7, <1>9, <1>10 DEF PoolInv, DueOnlyInUse, EarlyOnlyAfterSlip

\* A timer that its user forgets is as a new one.
LEMMA ForgetStep ==
    ASSUME PoolInv, NEW u \in User, ForgetTimer(u)
    PROVE  PoolInv'
  <1> DEFINE t == timer[u]
  <1>1. t \in Timer /\ TimersTypeOK
    BY DEF PoolInv, TimersTypeOK, ForgetTimer
  <1>2. /\ timer' = [timer EXCEPT ![u] = NoTimer]
        /\ active' = active \ {t}
        /\ pool' = pool
        /\ tick' = [tick EXCEPT ![t] = {}]
        /\ sending' = [sending EXCEPT ![t] = {}]
    BY DEF ForgetTimer
  <1>3. timer'[u] = NoTimer /\ \A w \in User \ {u} : timer'[w] = timer[w] /\ timer[w] # t
    BY <1>1, <1>2, TimerPoolAssumption DEF TimersTypeOK, PoolInv, OneUser
  <1>4. /\ tick'[t] = {} /\ \A x \in Timer \ {t} : tick'[x] = tick[x]
        /\ sending'[t] = {} /\ \A x \in Timer \ {t} : sending'[x] = sending[x]
    BY <1>1, <1>2 DEF TimersTypeOK
  <1>5. TimersTypeOK'
    BY <1>1, <1>2 DEF TimersTypeOK
  <1>6. OneUser'
    BY <1>1, <1>2, <1>3, TimerPoolAssumption DEF PoolInv, OneUser, TimersTypeOK
  <1>7. InUse' \ {NoTimer} = (InUse \ {NoTimer}) \ {t}
    BY <1>3 DEF InUse
  <1> HIDE DEF t
  <1>8. DueOnlyInUse' /\ EarlyOnlyAfterSlip'
    BY <1>1, <1>2, <1>4, <1>7, TimerPoolAssumption
       DEF PoolInv, DueOnlyInUse, EarlyOnlyAfterSlip, TimersTypeOK
  <1> QED
    BY <1>5, <1>6, <1>8 DEF PoolInv

\* The runtime's steps preserve the pool's invariant: a timer expires at its user.
LEMMA ClockStep ==
    ASSUME PoolInv, NEW t \in Timer, Expire(t) \/ Tick(t)
    PROVE  PoolInv'
  <1>1. TimersTypeOK /\ UNCHANGED <<pool, timer>> /\ InUse' = InUse
    BY DEF PoolInv, Expire, Tick, InUse
  <1>2. OneUser'
    BY <1>1 DEF PoolInv, OneUser
  <1>3. CASE Expire(t)
    <2>1. /\ t \in active /\ active' = active \ {t} /\ tick' = tick
          /\ sending'[t] = sending[t] \cup {"due"}
          /\ \A x \in Timer \ {t} : sending'[x] = sending[x]
      BY <1>1, <1>3 DEF Expire, TimersTypeOK
    <2>2. TimersTypeOK'
      BY <1>1, <1>3 DEF Expire, TimersTypeOK, Kinds
    <2>3. DueOnlyInUse' /\ EarlyOnlyAfterSlip'
      BY <1>1, <2>1 DEF PoolInv, DueOnlyInUse, EarlyOnlyAfterSlip
    <2> QED
      BY <1>2, <2>2, <2>3 DEF PoolInv
  <1>4. CASE Tick(t)
    <2>1. PICK k \in sending[t] :
             /\ sending' = [sending EXCEPT ![t] = @ \ {k}]
             /\ tick' = [tick EXCEPT ![t] = IF k = "due" \/ @ = {} THEN {k} ELSE @]
             /\ UNCHANGED <<pool, timer, active>>
      BY <1>4 DEF Tick
    <2>2. /\ sending'[t] = sending[t] \ {k} /\ tick'[t] \in {{k}, tick[t]}
          /\ \A x \in Timer \ {t} : sending'[x] = sending[x] /\ tick'[x] = tick[x]
      BY <1>1, <2>1 DEF TimersTypeOK
    <2>3. TimersTypeOK'
      <3>1. k \in Kinds /\ sending'[t] \in SUBSET Kinds
        BY <1>1, <2>1, <2>2 DEF TimersTypeOK
      <3>2. tick'[t] \in {{}} \cup {{x} : x \in Kinds}
        BY <1>1, <2>2, <3>1 DEF TimersTypeOK
      <3> QED
        BY <1>1, <2>1, <3>1, <3>2 DEF TimersTypeOK
    <2>4. DueOnlyInUse' /\ EarlyOnlyAfterSlip'
      BY <1>1, <2>1, <2>2 DEF PoolInv, DueOnlyInUse, EarlyOnlyAfterSlip
    <2> QED
      BY <1>2, <2>3, <2>4 DEF PoolInv
  <1> QED
    BY <1>3, <1>4

\* Steps that leave the timers alone.
LEMMA TimersIdle ==
    ASSUME PoolInv, UNCHANGED timerVars
    PROVE  PoolInv'
  BY DEF timerVars, PoolInv, TimersTypeOK, OneUser, DueOnlyInUse, InUse, EarlyOnlyAfterSlip

\* A user that gives its timer back, if it has one, because of an event ...
LEMMA ReleaseIfAnyStep ==
    ASSUME PoolInv, NEW u \in User, ReleaseIfAny(u)
    PROVE  PoolInv'
  BY TimersIdle, ReleaseStep DEF ReleaseIfAny

\* ... or because it has received the tick.
LEMMA FiresStep ==
    ASSUME PoolInv, NEW u \in User, TimerFires(u)
    PROVE  PoolInv'
  BY ReleaseStep DEF TimerFires

-----------------------------------------------------------------------------
(* The aggregate watcher.                                                  *)

\* A goroutine ends when its sub watcher is removed and nothing is left to send,
\* and the aggregate channel is closed when all have.
GoroutinesEndEmpty ==
    /\ subOpen \subseteq running
    /\ \A s \in Sub \ running : held[s] = 0 /\ subChan[s] = <<>>
    /\ ~aggOpen => running = {}

Inv ==
    /\ TypeOK
    /\ PoolInv
    /\ InOrder
    /\ GoroutinesEndEmpty

\* The capacity of the aggregate channel is a number.
LEMMA AggCapType == AggCap \in Nat
  <1>1. Cardinality(Sub) \in Nat
    BY AggregateAssumption, FS_CardinalityType
  <1> QED
    BY <1>1, AggregateAssumption DEF AggCap

\* The invariant in the form in which the steps use it.
LEMMA AggFacts ==
    ASSUME Inv, NEW s \in Sub
    PROVE  /\ sent[s] \in 0..MaxEvents /\ got[s] \in 0..MaxEvents /\ held[s] \in 0..MaxEvents
           /\ subChan[s] \in Seq(1..MaxEvents) /\ Len(subChan[s]) \in Nat
           /\ aggChan \in Seq(Sub \X (1..MaxEvents)) /\ Len(aggChan) \in Nat
           /\ MaxEvents \in Nat /\ Forwarded(s) \in Int
  <1>1. /\ sent[s] \in 0..MaxEvents /\ got[s] \in 0..MaxEvents /\ held[s] \in 0..MaxEvents
        /\ subChan[s] \in Seq(1..MaxEvents)
        /\ aggChan \in Seq(Sub \X (1..MaxEvents))
        /\ MaxEvents \in Nat
    BY AggregateAssumption DEF Inv, TypeOK
  <1>2. Len(subChan[s]) \in Nat /\ Len(aggChan) \in Nat
    BY <1>1
  <1>3. Forwarded(s) \in Int
    BY <1>1, <1>2 DEF Forwarded
  <1> QED
    BY <1>1, <1>2, <1>3

\* The parts of InOrder, in terms of their data: g, f, P and a are what the
\* reader got, what was forwarded, and a sub watcher's places in the aggregate
\* channel a; c and k are a sub watcher's channel and the count of its events.
AggOrdered(g, f, P, a) ==
    /\ g <= f
    /\ \A m \in g + 1..f : \E i \in P : a[i][2] = m
    /\ \A i \in P : a[i][2] \in g + 1..f
    /\ \A i, j \in P : i < j => a[i][2] < a[j][2]

SubOrdered(c, k) == \A i \in 1..Len(c) : c[i] = k - Len(c) + i

\* The invariant says this of every sub watcher.
LEMMA OrderFacts ==
    ASSUME Inv, NEW x \in Sub
    PROVE  /\ AggOrdered(got[x], Forwarded(x), Places(x), aggChan)
           /\ held[x] # 0 => held[x] = Forwarded(x) + 1
           /\ SubOrdered(subChan[x], sent[x])
  BY DEF Inv, InOrder, AggOrdered, SubOrdered

\* node.internalNotify appends the next event.
LEMMA StoreNotifiesStep ==
    ASSUME Inv, NEW s \in Sub, StoreNotifies(s)
    PROVE  Inv'
  <1> DEFINE c == subChan[s]
  <1>1. /\ s \in subOpen /\ sent[s] < MaxEvents /\ Len(c) < SubBuf
        /\ sent'[s] = sent[s] + 1
        /\ subChan'[s] = Append(c, sent[s] + 1)
        /\ \A x \in Sub \ {s} : sent'[x] = sent[x] /\ subChan'[x] = subChan[x]
        /\ UNCHANGED <<subOpen, held, running, aggChan, aggOpen, got, pc, timerVars>>
    BY DEF StoreNotifies, Inv, TypeOK
  <1>2. sent[s] + 1 \in 1..MaxEvents /\ c \in Seq(1..MaxEvents) /\ Len(c) \in Nat
    BY <1>1, AggFacts
  <1>3. /\ subChan'[s] \in Seq(1..MaxEvents)
        /\ Len(subChan'[s]) = Len(c) + 1
        /\ \A i \in 1..Len(c) : subChan'[s][i] = c[i]
        /\ subChan'[s][Len(c) + 1] = sent[s] + 1
    BY <1>1, <1>2, AppendProperties
  <1>4. PoolInv'
    BY <1>1, TimersIdle DEF Inv
  <1>5. TypeOK'
    <2>1. sent' \in [Sub -> 0..MaxEvents]
      BY <1>2, AggregateAssumption DEF StoreNotifies, Inv, TypeOK
    <2>2. subChan' \in [Sub -> Seq(1..MaxEvents)]
      BY <1>1, <1>3 DEF StoreNotifies, Inv, TypeOK
    <2>3. Len(subChan'[s]) <= SubBuf
      BY <1>1, <1>2, <1>3, AggregateAssumption
    <2>4. \A x \in Sub : Len(subChan'[x]) <= SubBuf
      BY <1>1, <2>3 DEF Inv, TypeOK
    <2> QED
      BY <1>1, <1>4, <2>1, <2>2, <2>4 DEF Inv, TypeOK, PoolInv
  <1>6. InOrder'
    <2> SUFFICES ASSUME NEW x \in Sub
                 PROVE  /\ Forwarded(x)' = Forwarded(x)
                        /\ SubOrdered(subChan'[x], sent'[x])
      <3> SUFFICES ASSUME NEW y \in Sub
                   PROVE  /\ AggOrdered(got'[y], Forwarded(y)', Places(y)', aggChan')
                          /\ held'[y] # 0 => held'[y] = Forwarded(y)' + 1
                          /\ SubOrdered(subChan'[y], sent'[y])
        BY DEF InOrder, AggOrdered, SubOrdered
      <3>1. got' = got /\ aggChan' = aggChan /\ held' = held /\ Places(y)' = Places(y)
        BY <1>1 DEF Places
      <3>2. Forwarded(y)' = Forwarded(y) /\ SubOrdered(subChan'[y], sent'[y])
        OBVIOUS
      <3> QED
        BY <3>1, <3>2, OrderFacts
    <2>1. CASE x # s
      BY <1>1, <2>1, OrderFacts DEF Forwarded
    <2>2. CASE x = s
      <3>0. sent[s] \in Int /\ held' = held
        BY <1>1, AggFacts
      <3>1. Forwarded(s)' = Forwarded(s)
        <4>1. Len(subChan'[s]) = Len(subChan[s]) + 1 /\ Len(subChan[s]) \in Int
          BY <1>2, <1>3
        <4>2. sent'[s] - Len(subChan'[s]) = sent[s] - Len(subChan[s])
          <5>1. \A a, b \in Int : (a + 1) - (b + 1) = a - b
            OBVIOUS
          <5> QED
            BY <1>1, <3>0, <4>1, <5>1
        <4> QED
          BY <3>0, <4>2 DEF Forwarded
      <3>2. \A i \in 1..Len(c) : c[i] = sent[s] - Len(c) + i
        BY OrderFacts DEF SubOrdered
      <3> HIDE DEF c
      <3>3. ASSUME NEW i \in 1..Len(c) + 1
            PROVE  subChan'[s][i] = sent'[s] - Len(subChan'[s]) + i
        <4>1. CASE i = Len(c) + 1
          BY <1>1, <1>2, <1>3, <3>0, <4>1
        <4>2. CASE i # Len(c) + 1
          <5>1. i \in 1..Len(c)
            BY <1>2, <4>2
          <5> QED
            BY <1>1, <1>2, <1>3, <3>0, <3>2, <5>1
        <4> QED
          BY <4>1, <4>2
      <3>4. SubOrdered(subChan'[s], sent'[s])
        BY <1>3, <3>3 DEF SubOrdered
      <3> QED
        BY <2>2, <3>1, <3>4
    <2> QED
      BY <2>1, <2>2
  <1>7. GoroutinesEndEmpty'
    BY <1>1 DEF Inv, GoroutinesEndEmpty
  <1> QED
    BY <1>4, <1>5, <1>6, <1>7 DEF Inv

\* A goroutine receives the first event of its channel, the next to forward.
LEMMA TakeEventStep ==
    ASSUME Inv, NEW s \in Sub, TakeEvent(s)
    PROVE  Inv'
  <1> DEFINE c == subChan[s]
  <1>1. /\ s \in running /\ held[s] = 0 /\ c # <<>>
        /\ held'[s] = Head(c) /\ subChan'[s] = Tail(c)
        /\ \A x \in Sub \ {s} : held'[x] = held[x] /\ subChan'[x] = subChan[x]
        /\ UNCHANGED <<sent, subOpen, running, aggChan, aggOpen, got, pc, timerVars>>
    BY DEF TakeEvent, Inv, TypeOK
  <1>2. c \in Seq(1..MaxEvents) /\ Len(c) \in Nat /\ Len(c) <= SubBuf
    BY AggFacts DEF Inv, TypeOK
  <1>3. /\ Head(c) \in 1..MaxEvents /\ Head(c) = c[1] /\ Len(c) > 0
        /\ Tail(c) \in Seq(1..MaxEvents) /\ Len(Tail(c)) = Len(c) - 1
        /\ \A i \in 1..Len(Tail(c)) : Tail(c)[i] = c[i + 1]
    <2> HIDE DEF c
    <2>1. Len(c) > 0 /\ Head(c) = c[1]
      BY <1>1, <1>2
    <2> QED
      BY <1>1, <1>2, <2>1, HeadTailProperties
  <1>4. PoolInv'
    BY <1>1, TimersIdle DEF Inv
  <1>5. TypeOK'
    <2>1. held' \in [Sub -> 0..MaxEvents]
      BY <1>3, AggFacts DEF TakeEvent, Inv, TypeOK
    <2>2. subChan' \in [Sub -> Seq(1..MaxEvents)]
      BY <1>3 DEF TakeEvent, Inv, TypeOK
    <2>3. Len(subChan'[s]) <= SubBuf
      BY <1>1, <1>2, <1>3, AggregateAssumption
    <2>4. \A x \in Sub : Len(subChan'[x]) <= SubBuf
      BY <1>1, <2>3 DEF Inv, TypeOK
    <2> QED
      BY <1>1, <1>4, <2>1, <2>2, <2>4 DEF Inv, TypeOK, PoolInv
  <1>6. InOrder'
    <2> SUFFICES ASSUME NEW x \in Sub
                 PROVE  /\ Forwarded(x)' = Forwarded(x)
                        /\ held'[x] # 0 => held'[x] = Forwarded(x) + 1
                        /\ SubOrdered(subChan'[x], sent'[x])
      <3> SUFFICES ASSUME NEW y \in Sub
                   PROVE  /\ AggOrdered(got'[y], Forwarded(y)', Places(y)', aggChan')
                          /\ held'[y] # 0 => held'[y] = Forwarded(y)' + 1
                          /\ SubOrdered(subChan'[y], sent'[y])
        BY DEF InOrder, AggOrdered, SubOrdered
      <3>1. got' = got /\ aggChan' = aggChan /\ Places(y)' = Places(y)
        BY <1>1 DEF Places
      <3>2. /\ Forwarded(y)' = Forwarded(y) /\ SubOrdered(subChan'[y], sent'[y])
            /\ held'[y] # 0 => held'[y] = Forwarded(y) + 1
        OBVIOUS
      <3> QED
        BY <3>1, <3>2, OrderFacts
    <2>1. CASE x # s
      BY <1>1, <2>1, OrderFacts DEF Forwarded
    <2>2. CASE x = s
      <3>0. sent[s] \in Int /\ sent' = sent
        BY <1>1, AggFacts
      <3>1. /\ held'[s] # 0 /\ Forwarded(s) = sent[s] - Len(c)
            /\ Forwarded(s)' = Forwarded(s)
        <4>1. held'[s] # 0
          BY <1>1, <1>3, AggregateAssumption
        <4>2. Forwarded(s) = sent[s] - Len(c)
          BY <1>1, <1>2, <3>0 DEF Forwarded
        <4>3. Forwarded(s)' = sent[s] - (Len(c) - 1) - 1
          BY <1>1, <1>3, <3>0, <4>1 DEF Forwarded
        <4>4. \A a, b \in Int : a - (b - 1) - 1 = a - b
          OBVIOUS
        <4>5. Forwarded(s)' = Forwarded(s)
          BY <1>2, <3>0, <4>2, <4>3, <4>4
        <4> QED
          BY <4>1, <4>2, <4>5
      <3>2. \A i \in 1..Len(c) : c[i] = sent[s] - Len(c) + i
        BY OrderFacts DEF SubOrdered
      <3> HIDE DEF c
      <3>3. held'[s] = Forwarded(s) + 1
        BY <1>1, <1>2, <1>3, <3>0, <3>1, <3>2
      <3>4. ASSUME NEW i \in 1..Len(c) - 1
            PROVE  subChan'[s][i] = sent'[s] - Len(subChan'[s]) + i
        <4>1. i + 1 \in 1..Len(c) /\ i \in Int /\ Len(c) \in Int
          BY <1>2
        <4>2. Len(subChan'[s]) = Len(c) - 1 /\ subChan'[s][i] = c[i + 1]
          BY <1>1, <1>3
        <4>3. c[i + 1] = sent[s] - Len(c) + (i + 1)
          BY <3>2, <4>1
        <4>4. \A a, b \in Int : a - b + (i + 1) = a - (b - 1) + i
          BY <4>1
        <4>5. sent[s] - Len(c) + (i + 1) = sent[s] - (Len(c) - 1) + i
          BY <3>0, <4>1, <4>4
        <4> QED
          BY <3>0, <4>2, <4>3, <4>5
      <3>5. SubOrdered(subChan'[s], sent'[s])
        BY <1>1, <1>3, <3>4 DEF SubOrdered
      <3> QED
        BY <2>2, <3>1, <3>3, <3>5
    <2> QED
      BY <2>1, <2>2
  <1>7. GoroutinesEndEmpty'
    BY <1>1 DEF Inv, GoroutinesEndEmpty
  <1> QED
    BY <1>4, <1>5, <1>6, <1>7 DEF Inv

\* A goroutine sends to the aggregate channel: its event is the next of its sub
\* watcher's there.
LEMMA ForwardEventStep ==
    ASSUME Inv, NEW s \in Sub, ForwardEvent(s)
    PROVE  Inv'
  <1> DEFINE e == <<s, held[s]>>
             n == Len(aggChan)
  <1>1. /\ held[s] # 0 /\ n < AggCap /\ aggChan' = Append(aggChan, e)
        /\ held'[s] = 0 /\ \A x \in Sub \ {s} : held'[x] = held[x]
        /\ UNCHANGED <<sent, subChan, subOpen, running, aggOpen, got, pc, timerVars>>
    BY DEF ForwardEvent, Inv, TypeOK
  <1>2. e \in Sub \X (1..MaxEvents) /\ n \in Nat /\ aggChan \in Seq(Sub \X (1..MaxEvents))
    BY <1>1, AggFacts
  <1>3. /\ aggChan' \in Seq(Sub \X (1..MaxEvents))
        /\ Len(aggChan') = n + 1
        /\ \A i \in 1..n : aggChan'[i] = aggChan[i]
        /\ aggChan'[n + 1] = e
    BY <1>1, <1>2, AppendProperties
  <1>4. PoolInv'
    BY <1>1, TimersIdle DEF Inv
  <1>5. TypeOK'
    <2>1. held' \in [Sub -> 0..MaxEvents]
      BY AggFacts DEF ForwardEvent, Inv, TypeOK
    <2>2. Len(aggChan') <= AggCap
      BY <1>1, <1>2, <1>3, AggCapType
    <2> QED
      BY <1>1, <1>3, <1>4, <2>1, <2>2 DEF Inv, TypeOK, PoolInv
  <1>6. InOrder'
    <2> SUFFICES ASSUME NEW x \in Sub
                 PROVE  /\ got'[x] <= Forwarded(x)'
                        /\ \A m \in got'[x] + 1..Forwarded(x)' :
                              \E i \in Places(x)' : aggChan'[i][2] = m
                        /\ \A i \in Places(x)' : aggChan'[i][2] \in got'[x] + 1..Forwarded(x)'
                        /\ \A i, j \in Places(x)' : i < j => aggChan'[i][2] < aggChan'[j][2]
                        /\ held'[x] # 0 => held'[x] = Forwarded(x)' + 1
                        /\ \A i \in 1..Len(subChan'[x]) :
                              subChan'[x][i] = sent'[x] - Len(subChan'[x]) + i
      BY DEF InOrder
    <2>1. \A i \in 1..n + 1 : i \in 1..n \/ i = n + 1
      BY <1>2
    <2>2. n + 1 \in 1..n + 1 /\ \A i \in 1..n : i \in 1..n + 1
      BY <1>2
    <2>3. CASE x # s
      <3>1. Places(x)' = Places(x)
        BY <1>3, <2>1, <2>2, <2>3 DEF Places
      <3>2. \A i \in Places(x) : aggChan'[i] = aggChan[i]
        BY <1>3 DEF Places
      <3>3. Forwarded(x)' = Forwarded(x)
        BY <1>1, <2>3 DEF Forwarded
      <3>4. /\ got[x] <= Forwarded(x)
            /\ \A m \in got[x] + 1..Forwarded(x) : \E i \in Places(x) : aggChan[i][2] = m
            /\ \A i \in Places(x) : aggChan[i][2] \in got[x] + 1..Forwarded(x)
            /\ \A i, j \in Places(x) : i < j => aggChan[i][2] < aggChan[j][2]
            /\ held[x] # 0 => held[x] = Forwarded(x) + 1
            /\ \A i \in 1..Len(subChan[x]) :
                  subChan[x][i] = sent[x] - Len(subChan[x]) + i
        BY DEF Inv, InOrder
      <3>5. \A m \in got[x] + 1..Forwarded(x) : \E i \in Places(x) : aggChan'[i][2] = m
        BY <3>2, <3>4
      <3>6. /\ \A i \in Places(x) : aggChan'[i][2] \in got[x] + 1..Forwarded(x)
            /\ \A i, j \in Places(x) : i < j => aggChan'[i][2] < aggChan'[j][2]
        BY <3>2, <3>4
      <3>7. held'[x] = held[x] /\ UNCHANGED <<sent, subChan, got>>
        BY <1>1, <2>3
      <3> QED
        BY <3>1, <3>3, <3>4, <3>5, <3>6, <3>7
    <2>4. CASE x = s
      <3>1. Places(s)' = Places(s) \cup {n + 1}
        BY <1>3, <2>1, <2>2 DEF Places
      <3>2. \A i \in Places(s) : aggChan'[i] = aggChan[i] /\ i \in Int /\ i < n + 1
        BY <1>2, <1>3 DEF Places
      <3>3. Forwarded(s)' = Forwarded(s) + 1 /\ held[s] = Forwarded(s) + 1
        <4>1. held[s] # 0 /\ held[s] = Forwarded(s) + 1
          BY <1>1, OrderFacts
        <4>2. held'[s] = 0 /\ UNCHANGED <<sent, subChan>>
          BY <1>1
        <4>3. sent[s] \in Int /\ Len(subChan[s]) \in Int
          BY AggFacts
        <4> DEFINE k == Len(subChan[s])
        <4>4. Forwarded(s) = sent[s] - k - 1 /\ Forwarded(s)' = sent[s] - k - 0
          BY <4>1, <4>2 DEF Forwarded
        <4> HIDE DEF k
        <4> QED
          BY <4>1, <4>3, <4>4 DEF k
      <3>4. aggChan'[n + 1][2] = Forwarded(s) + 1
        BY <1>3, <3>3
      <3>5. got[s] \in Int /\ Forwarded(s) \in Int
        BY AggFacts
      <3>6. ASSUME NEW m \in got[s] + 1..Forwarded(s) + 1
            PROVE  \E i \in Places(s)' : aggChan'[i][2] = m
        <4>1. CASE m = Forwarded(s) + 1
          BY <3>1, <3>4, <4>1
        <4>2. CASE m # Forwarded(s) + 1
          <5>1. m \in got[s] + 1..Forwarded(s)
            BY <3>5, <4>2
          <5> QED
            BY <3>1, <3>2, <5>1 DEF Inv, InOrder
        <4> QED
          BY <4>1, <4>2
      <3>7. ASSUME NEW i \in Places(s)'
            PROVE  aggChan'[i][2] \in got[s] + 1..Forwarded(s) + 1
        <4>1. CASE i = n + 1
          BY <3>4, <3>5, <4>1 DEF Inv, InOrder
        <4>2. CASE i # n + 1
          <5>1. aggChan'[i][2] \in got[s] + 1..Forwarded(s)
            BY <3>1, <3>2, <4>2 DEF Inv, InOrder
          <5> QED
            BY <3>5, <5>1
        <4> QED
          BY <4>1, <4>2
      <3>8. ASSUME NEW i \in Places(s)', NEW j \in Places(s)', i < j
            PROVE  aggChan'[i][2] < aggChan'[j][2]
        <4>1. i \in Places(s)
          BY <1>2, <3>1, <3>2, <3>8
        <4>2. CASE j = n + 1
          <5>1. aggChan'[i][2] \in got[s] + 1..Forwarded(s)
            BY <3>2, <4>1 DEF Inv, InOrder
          <5> QED
            BY <3>4, <3>5, <4>2, <5>1
        <4>3. CASE j # n + 1
          BY <3>1, <3>2, <3>8, <4>1, <4>3 DEF Inv, InOrder
        <4> QED
          BY <4>2, <4>3
      <3>9. got[s] <= Forwarded(s) + 1
        BY <3>5 DEF Inv, InOrder
      <3> QED
        BY <1>1, <2>4, <3>3, <3>6, <3>7, <3>8, <3>9 DEF Inv, InOrder
    <2> QED
      BY <2>3, <2>4
  <1>7. GoroutinesEndEmpty'
    BY <1>1 DEF Inv, GoroutinesEndEmpty
  <1> QED
    BY <1>4, <1>5, <1>6, <1>7 DEF Inv

\* The reader gets the next event of the sub watcher that it comes from.
LEMMA ReadEventStep ==
    ASSUME Inv, ReadEvent
    PROVE  Inv'
  <1> DEFINE s == Head(aggChan)[1]
             n == Len(aggChan)
  <1>1. /\ aggChan # <<>> /\ aggChan' = Tail(aggChan)
        /\ got' = [got EXCEPT ![s] = Head(aggChan)[2]]
        /\ UNCHANGED <<sent, subChan, subOpen, held, running, aggOpen>>
        /\ pc' = "acquire"
    BY DEF ReadEvent
  <1>2. aggChan \in Seq(Sub \X (1..MaxEvents)) /\ n \in Nat /\ n <= AggCap
    BY DEF Inv, TypeOK
  <1>3. /\ Head(aggChan) \in Sub \X (1..MaxEvents) /\ Head(aggChan) = aggChan[1] /\ n > 0
        /\ Tail(aggChan) \in Seq(Sub \X (1..MaxEvents)) /\ Len(Tail(aggChan)) = n - 1
        /\ \A i \in 1..Len(Tail(aggChan)) : Tail(aggChan)[i] = aggChan[i + 1]
    BY <1>1, <1>2, HeadTailProperties
  <1>4. PoolInv'
    BY ReleaseIfAnyStep, AggregateAssumption DEF ReadEvent, Inv
  <1>5. s \in Sub /\ Head(aggChan)[2] \in 1..MaxEvents
    BY <1>3
  <1>6. TypeOK'
    <2>1. got' \in [Sub -> 0..MaxEvents]
      <3>1. Head(aggChan)[2] \in 0..MaxEvents /\ got \in [Sub -> 0..MaxEvents]
        BY <1>5, AggregateAssumption DEF Inv, TypeOK
      <3> QED
        BY <1>1, <1>5, <3>1
    <2>2. Len(aggChan') <= AggCap
      BY <1>1, <1>2, <1>3, AggCapType
    <2> QED
      BY <1>1, <1>3, <1>4, <2>1, <2>2 DEF Inv, TypeOK, PoolInv
  <1>7. got'[s] = Head(aggChan)[2] /\ \A x \in Sub \ {s} : got'[x] = got[x]
    BY <1>1, <1>5 DEF Inv, TypeOK
  <1>8. \A x \in Sub : Forwarded(x)' = Forwarded(x)
    BY <1>1 DEF Forwarded
  <1>9. ASSUME NEW x \in Sub
        PROVE  /\ \A i \in Places(x)' : /\ i \in Int /\ i + 1 \in Places(x)
                                        /\ aggChan'[i] = aggChan[i + 1]
               /\ \A j \in Places(x) : j # 1 => j - 1 \in Places(x)'
               /\ \A i \in Places(x) : i \in Int /\ i >= 1
    <2>1. ASSUME NEW i \in Places(x)'
          PROVE  /\ i \in Int /\ i + 1 \in Places(x)
                 /\ aggChan'[i] = aggChan[i + 1]
      <3>1. i \in 1..n - 1 /\ aggChan'[i][1] = x
        BY <1>1, <1>3 DEF Places
      <3>2. aggChan'[i] = aggChan[i + 1] /\ i + 1 \in 1..n /\ i \in Int
        BY <1>1, <1>2, <1>3, <3>1
      <3> QED
        BY <3>1, <3>2 DEF Places
    <2>2. ASSUME NEW j \in Places(x), j # 1 PROVE j - 1 \in Places(x)'
      <3>1. j \in 1..n /\ aggChan[j][1] = x
        BY DEF Places
      <3>2. j - 1 \in 1..n - 1 /\ (j - 1) + 1 = j
        BY <1>2, <2>2, <3>1
      <3>3. aggChan'[j - 1] = aggChan[j]
        BY <1>1, <1>3, <3>2
      <3> QED
        BY <1>1, <1>3, <3>1, <3>2, <3>3 DEF Places
    <2>3. \A i \in Places(x) : i \in Int /\ i >= 1
      BY <1>2 DEF Places
    <2> QED
      BY <2>1, <2>2, <2>3
  <1>10. InOrder'
    <2> SUFFICES ASSUME NEW x \in Sub
                 PROVE  AggOrdered(got'[x], Forwarded(x), Places(x)', aggChan')
      <3> SUFFICES ASSUME NEW y \in Sub
                   PROVE  /\ AggOrdered(got'[y], Forwarded(y)', Places(y)', aggChan')
                          /\ held'[y] # 0 => held'[y] = Forwarded(y)' + 1
                          /\ SubOrdered(subChan'[y], sent'[y])
        BY DEF InOrder, AggOrdered, SubOrdered
      <3>1. held' = held /\ subChan' = subChan /\ sent' = sent
        BY <1>1
      <3>2. Forwarded(y)' = Forwarded(y)
        BY <1>8
      <3> QED
        BY <3>1, <3>2, OrderFacts
    <2> SUFFICES /\ got'[x] <= Forwarded(x)
                 /\ \A m \in got'[x] + 1..Forwarded(x) :
                       \E i \in Places(x)' : aggChan'[i][2] = m
                 /\ \A i \in Places(x)' : aggChan'[i][2] \in got'[x] + 1..Forwarded(x)
                 /\ \A i, j \in Places(x)' : i < j => aggChan'[i][2] < aggChan'[j][2]
      BY DEF AggOrdered
    <2>1. got[x] \in Int /\ Forwarded(x) \in Int
      BY AggFacts
    <2>2. /\ got[x] <= Forwarded(x)
          /\ \A m \in got[x] + 1..Forwarded(x) : \E i \in Places(x) : aggChan[i][2] = m
          /\ \A i \in Places(x) : aggChan[i][2] \in got[x] + 1..Forwarded(x)
          /\ \A i, j \in Places(x) : i < j => aggChan[i][2] < aggChan[j][2]
      BY DEF Inv, InOrder
    <2>3. ASSUME NEW i \in Places(x)', NEW j \in Places(x)', i < j
          PROVE  aggChan'[i][2] < aggChan'[j][2]
      <3>1. i + 1 < j + 1 /\ i + 1 \in Places(x) /\ j + 1 \in Places(x)
        BY <1>9, <2>3
      <3> QED
        BY <1>9, <2>2, <3>1
    <2>4. CASE x # s
      <3>1. 1 \notin Places(x)
        BY <1>3, <2>4 DEF Places
      <3>2. \A j \in Places(x) : j - 1 \in Places(x)' /\ aggChan'[j - 1] = aggChan[j]
        <4> SUFFICES ASSUME NEW j \in Places(x)
                     PROVE  j - 1 \in Places(x)' /\ aggChan'[j - 1] = aggChan[j]
          OBVIOUS
        <4>1. j - 1 \in Places(x)' /\ (j - 1) + 1 = j
          BY <1>9, <3>1
        <4> QED
          BY <1>9, <4>1
      <3> QED
        BY <1>7, <1>9, <2>2, <2>3, <2>4, <3>2
    <2>5. CASE x = s
      <3>1. 1 \in Places(x) /\ aggChan[1][2] = got'[x]
        BY <1>2, <1>3, <1>7, <2>5 DEF Places
      <3>2. got'[x] = got[x] + 1
        <4>1. got'[x] \in got[x] + 1..Forwarded(x)
          BY <2>2, <3>1
        <4>2. PICK i \in Places(x) : aggChan[i][2] = got[x] + 1
          <5>1. got[x] + 1 \in got[x] + 1..Forwarded(x)
            BY <2>1, <4>1
          <5> QED
            BY <2>2, <5>1
        <4>3. i = 1
          <5> SUFFICES ASSUME 1 < i PROVE FALSE
            BY <1>9
          <5>1. aggChan[1][2] < aggChan[i][2]
            BY <2>2, <3>1
          <5> QED
            BY <2>1, <3>1, <4>1, <4>2, <5>1
        <4> QED
          BY <3>1, <4>2, <4>3
      <3>3. got'[x] <= Forwarded(x)
        BY <2>1, <2>2, <3>1
      <3>4. ASSUME NEW m \in got'[x] + 1..Forwarded(x)
            PROVE  \E i \in Places(x)' : aggChan'[i][2] = m
        <4>1. m \in got[x] + 1..Forwarded(x) /\ m # got'[x]
          BY <2>1, <3>2
        <4>2. PICK j \in Places(x) : aggChan[j][2] = m
          BY <2>2, <4>1
        <4>3. j # 1
          BY <3>1, <4>1, <4>2
        <4>4. j - 1 \in Places(x)' /\ (j - 1) + 1 = j
          BY <1>9, <4>3
        <4>5. aggChan'[j - 1] = aggChan[j]
          BY <1>9, <4>4
        <4> QED
          BY <4>2, <4>4, <4>5
      <3>5. ASSUME NEW i \in Places(x)'
            PROVE  aggChan'[i][2] \in got'[x] + 1..Forwarded(x)
        <4>1. i + 1 \in Places(x) /\ 1 < i + 1 /\ aggChan'[i] = aggChan[i + 1]
          <5>1. i \in 1..n - 1
            BY <1>1, <1>3 DEF Places
          <5> QED
            BY <1>2, <1>9, <5>1
        <4>2. aggChan[1][2] < aggChan[i + 1][2]
          BY <2>2, <3>1, <4>1
        <4>3. aggChan[i + 1][2] \in got[x] + 1..Forwarded(x)
          BY <2>2, <4>1
        <4> QED
          BY <2>1, <3>1, <3>2, <4>1, <4>2, <4>3
      <3> QED
        BY <2>3, <3>3, <3>4, <3>5
    <2> QED
      BY <2>4, <2>5
  <1>11. GoroutinesEndEmpty'
    BY <1>1 DEF Inv, GoroutinesEndEmpty
  <1> QED
    BY <1>4, <1>6, <1>10, <1>11 DEF Inv

\* Steps that leave the events where they are.
LEMMA EventsStay ==
    ASSUME Inv, PoolInv', UNCHANGED <<sent, subChan, held, aggChan, got>>,
           pc' \in {"read", "acquire", "remove", "wait", "returned"},
           subOpen' \subseteq subOpen, subOpen' \subseteq running',
           running' \subseteq running, aggOpen' \in BOOLEAN,
           \A s \in running \ running' : held[s] = 0 /\ subChan[s] = <<>>,
           ~aggOpen' => running' = {}
    PROVE  Inv'
  <1>1. TypeOK'
    BY DEF Inv, TypeOK, PoolInv
  <1>2. InOrder'
    BY DEF Inv, InOrder, Forwarded, Places
  <1>3. GoroutinesEndEmpty'
    BY DEF Inv, GoroutinesEndEmpty
  <1> QED
    BY <1>1, <1>2, <1>3 DEF Inv

\* NewAggregateWatcher establishes the invariant.
LEMMA InvInit == Init => Inv
  <1> SUFFICES ASSUME Init PROVE Inv
    OBVIOUS
  <1>1. PoolInv
    BY PoolInit DEF Init
  <1>2. TypeOK
    BY <1>1, AggCapType, AggregateAssumption DEF Init, TypeOK, PoolInv
  <1>3. InOrder
    BY DEF Init, InOrder, Forwarded, Places
  <1>4. GoroutinesEndEmpty
    BY DEF Init, GoroutinesEndEmpty
  <1> QED
    BY <1>1, <1>2, <1>3, <1>4 DEF Inv

\* Every step preserves the invariant.
LEMMA InvNext == Inv /\ [Next]_vars => Inv'
  <1> SUFFICES ASSUME Inv, [Next]_vars PROVE Inv'
    OBVIOUS
  <1> USE DEF Goroutine, Remove
  <1>1. /\ pc \in {"read", "acquire", "remove", "wait", "returned"} /\ aggOpen \in BOOLEAN
        /\ subOpen \subseteq running /\ (~aggOpen => running = {}) /\ PoolInv
        /\ Reader \in User
    BY AggregateAssumption DEF Inv, TypeOK, GoroutinesEndEmpty
  <1>2. ASSUME NEW s \in Sub, StoreNotifies(s) PROVE Inv'
    BY <1>2, StoreNotifiesStep
  <1>3. ASSUME NEW s \in Sub, TakeEvent(s) PROVE Inv'
    BY <1>3, TakeEventStep
  <1>4. ASSUME NEW s \in Sub, ForwardEvent(s) PROVE Inv'
    BY <1>4, ForwardEventStep
  <1>5. ASSUME NEW s \in Sub, GoroutineExits(s) PROVE Inv'
    <2>1. PoolInv'
      BY <1>1, <1>5, TimersIdle DEF GoroutineExits
    <2> QED
      BY <1>1, <1>5, <2>1, EventsStay DEF GoroutineExits
  <1>6. ASSUME ReadEvent PROVE Inv'
    BY <1>6, ReadEventStep
  <1>7. ASSUME RestartTimer PROVE Inv'
    <2>1. PoolInv'
      BY <1>1, <1>7, AcquireStep DEF RestartTimer
    <2> QED
      BY <1>1, <1>7, <2>1, EventsStay DEF RestartTimer
  <1>8. ASSUME BatchTimer PROVE Inv'
    <2>1. PoolInv'
      BY <1>1, <1>8, FiresStep DEF BatchTimer
    <2> QED
      BY <1>1, <1>8, <2>1, EventsStay DEF BatchTimer
  <1>9. ASSUME StopReading PROVE Inv'
    <2>1. PoolInv'
      BY <1>1, <1>9, ReleaseIfAnyStep DEF StopReading
    <2> QED
      BY <1>1, <1>9, <2>1, EventsStay DEF StopReading
  <1>10. ASSUME NEW s \in Sub, RemoveSub(s) PROVE Inv'
    <2>1. PoolInv'
      BY <1>1, <1>10, TimersIdle DEF RemoveSub
    <2> QED
      BY <1>1, <1>10, <2>1, EventsStay DEF RemoveSub
  <1>11. ASSUME AllRemoved PROVE Inv'
    <2>1. PoolInv'
      BY <1>1, <1>11, TimersIdle DEF AllRemoved
    <2> QED
      BY <1>1, <1>11, <2>1, EventsStay DEF AllRemoved
  <1>12. ASSUME CloseAggregate PROVE Inv'
    <2>1. PoolInv'
      BY <1>1, <1>12, TimersIdle DEF CloseAggregate
    <2> QED
      BY <1>1, <1>12, <2>1, EventsStay DEF CloseAggregate
  <1>13. ASSUME NEW u \in User, OtherRequest(u) PROVE Inv'
    <2>1. PoolInv'
      BY <1>1, <1>13, AcquireStep, ReleaseIfAnyStep, FiresStep, ForgetStep DEF OtherRequest
    <2> QED
      BY <1>1, <1>13, <2>1, EventsStay DEF OtherRequest, aggVars
  <1>14. ASSUME NEW t \in Timer, Clock(t) PROVE Inv'
    <2>1. PoolInv'
      BY <1>1, <1>14, ClockStep DEF Clock
    <2> QED
      BY <1>1, <1>14, <2>1, EventsStay DEF Clock, aggVars
  <1>15. ASSUME UNCHANGED vars PROVE Inv'
    <2>1. PoolInv'
      BY <1>1, <1>15, TimersIdle DEF vars
    <2> QED
      BY <1>1, <1>15, <2>1, EventsStay DEF vars, aggVars
  <1> QED
    BY <1>2, <1>3, <1>4, <1>5, <1>6, <1>7, <1>8, <1>9, <1>10, <1>11, <1>12, <1>13,
       <1>14, <1>15 DEF Next

\* The inductive invariant holds in every reachable state.
THEOREM Invariance == Spec => []Inv
  BY InvInit, InvNext, PTL DEF Spec

\* Type correctness: no channel holds more than its capacity.
THEOREM TypeCorrect == Spec => []TypeOK
  <1>1. Inv => TypeOK
    BY DEF Inv
  <1> QED
    BY <1>1, Invariance, PTL

\* The goroutines of an aggregate watcher lose, repeat and reorder no event of a
\* sub watcher, for any number of them and any capacity of the channels.
THEOREM EventsInOrder == Spec => []InOrder
  <1>1. Inv => InOrder
    BY DEF Inv
  <1> QED
    BY <1>1, Invariance, PTL

\* aggregateWatcher.Remove closes the channel when no goroutine can send any more.
THEOREM ClosedWhenDone == Spec => []NoSendAfterClose
  <1>1. Inv => NoSendAfterClose
    BY DEF Inv, GoroutinesEndEmpty, NoSendAfterClose
  <1> QED
    BY <1>1, Invariance, PTL

\* The pool never gives a timer to two requests.
THEOREM TimerHasOneUser == Spec => []OneUser
  <1>1. Inv => OneUser
    BY DEF Inv, PoolInv
  <1> QED
    BY <1>1, Invariance, PTL

\* ReleaseTimer leaves a tick to the next user only when the timer expired and
\* has not sent it yet: its receive from the channel takes every other one.
THEOREM EarlyTicksSlipped == Spec => []EarlyOnlyAfterSlip
  <1>1. Inv => EarlyOnlyAfterSlip
    BY DEF Inv, PoolInv
  <1> QED
    BY <1>1, Invariance, PTL

=============================================================================
