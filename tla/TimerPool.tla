----------------------------- MODULE TimerPool -----------------------------
(***************************************************************************)
(* TimerPool of util/timerpool.go, which every request that waits for      *)
(* changes shares: a sync.Pool of timers, taken with AcquireTimer and      *)
(* given back with ReleaseTimer.                                           *)
(*                                                                         *)
(* A timer of Go that expires is no longer active and then sends its tick, *)
(* as two steps: Stop may return false before the tick is in the channel,  *)
(* and ReleaseTimer's receive then finds nothing.  The tick arrives while  *)
(* the timer is in the pool, or at its next user.                          *)
(***************************************************************************)
EXTENDS Naturals

CONSTANTS
    User,           \* the goroutines that acquire timers
    Timer,          \* the timers
    NoTimer         \* TIMER_NIL

ASSUME TimerPoolAssumption == NoTimer \notin Timer

VARIABLES
    pool,           \* the timers in the pool
    timer,          \* the timer that each user has
    active,         \* the timers that are running
    sending,        \* ticks of expired timers that are not in the channel yet
    tick            \* the tick in the timer's channel, which holds one

timerVars == <<pool, timer, active, sending, tick>>

\* A tick for its user's time-out, one for that of an earlier user who gave the
\* timer back before it was sent, and one that an earlier user left there.
Kinds == {"due", "slipped", "left"}

TimersTypeOK ==
    /\ pool \subseteq Timer
    /\ timer \in [User -> Timer \cup {NoTimer}]
    /\ active \subseteq Timer
    /\ sending \in [Timer -> SUBSET Kinds]
    /\ tick \in [Timer -> {{}} \cup {{k} : k \in Kinds}]

\* NewTimerPool
InitTimers ==
    /\ pool = {}
    /\ timer = [u \in User |-> NoTimer]
    /\ active = {}
    /\ sending = [t \in Timer |-> {}]
    /\ tick = [t \in Timer |-> {}]

Taken == pool \cup {timer[u] : u \in User}

\* Mutant: a pooled timer is not started again.
AcquireWithoutReset(u, t) ==
    /\ timer[u] = NoTimer
    /\ t \in pool
    /\ pool' = pool \ {t}
    /\ timer' = [timer EXCEPT ![u] = t]
    /\ UNCHANGED <<active, sending, tick>>

\* AcquireTimer with a timer from the pool.  Reset starts it; it does not take
\* a tick from its channel.
AcquirePooled(u, t) ==
    /\ timer[u] = NoTimer
    /\ t \in pool
    /\ pool' = pool \ {t}
    /\ timer' = [timer EXCEPT ![u] = t]
    /\ active' = active \cup {t}
    /\ UNCHANGED <<sending, tick>>

\* AcquireTimer with a new timer; sync.Pool may make one although it has some.
AcquireNew(u, t) ==
    /\ timer[u] = NoTimer
    /\ t \notin Taken
    /\ timer' = [timer EXCEPT ![u] = t]
    /\ active' = active \cup {t}
    /\ UNCHANGED <<pool, sending, tick>>

AcquireTimer(u) == \E t \in Timer : AcquirePooled(u, t) \/ AcquireNew(u, t)

\* What the next user finds in the channel when the user leaves this there.
Left(ticks) == IF "due" \in ticks THEN {"left"} ELSE ticks

\* Mutant: the timer is put back without emptying its channel.
ReleaseUndrained(u, left) ==
    LET t == timer[u]
    IN  /\ active' = active \ {t}
        /\ tick' = [tick EXCEPT ![t] = Left(left)]
        /\ sending' = [sending EXCEPT ![t] = IF @ = {} THEN {} ELSE {"slipped"}]
        /\ pool' = pool \cup {t}
        /\ timer' = [timer EXCEPT ![u] = NoTimer]

\* Mutant: the user goes on with the timer that it has put back.
ReleaseAndKeep(u, left) ==
    LET t == timer[u]
    IN  /\ active' = active \ {t}
        /\ tick' = [tick EXCEPT ![t] = IF t \in active THEN Left(left) ELSE {}]
        /\ sending' = [sending EXCEPT ![t] = IF @ = {} THEN {} ELSE {"slipped"}]
        /\ pool' = pool \cup {t}
        /\ UNCHANGED timer

\* ReleaseTimer when the ticks left are in the channel: only a Stop that returns
\* false empties it.
ReleaseTimer(u, left) ==
    LET t == timer[u]
    IN  /\ active' = active \ {t}
        /\ tick' = [tick EXCEPT ![t] = IF t \in active THEN Left(left) ELSE {}]
        /\ sending' = [sending EXCEPT ![t] = IF @ = {} THEN {} ELSE {"slipped"}]
        /\ pool' = pool \cup {t}
        /\ timer' = [timer EXCEPT ![u] = NoTimer]

\* if timer.C != nil { ReleaseTimer(timer) }
ReleaseIfAny(u) ==
    \/ timer[u] = NoTimer /\ UNCHANGED timerVars
    \/ timer[u] # NoTimer /\ ReleaseTimer(u, tick[timer[u]])

\* case <-timer.C, and the release that follows.
TimerFires(u) ==
    /\ timer[u] # NoTimer
    /\ tick[timer[u]] # {}
    /\ ReleaseTimer(u, {})

\* The runtime: a running timer expires ...
Expire(t) ==
    /\ t \in active
    /\ active' = active \ {t}
    /\ sending' = [sending EXCEPT ![t] = @ \cup {"due"}]
    /\ UNCHANGED <<pool, timer, tick>>

\* ... and sends its tick, which is dropped when there is one in the channel:
\* that one then stands for both.
Tick(t) ==
    \E k \in sending[t] :
        /\ sending' = [sending EXCEPT ![t] = @ \ {k}]
        /\ tick' = [tick EXCEPT ![t] = IF k = "due" \/ @ = {} THEN {k} ELSE @]
        /\ UNCHANGED <<pool, timer, active>>

\* A request for a leaf returns at its event and forgets its timer, which
\* nobody reaches any more.
ForgetTimer(u) ==
    LET t == timer[u]
    IN  /\ t # NoTimer
        /\ timer' = [timer EXCEPT ![u] = NoTimer]
        /\ active' = active \ {t}
        /\ sending' = [sending EXCEPT ![t] = {}]
        /\ tick' = [tick EXCEPT ![t] = {}]
        /\ UNCHANGED pool

-----------------------------------------------------------------------------
(* Properties.                                                             *)

\* A timer has one user at a time, and is in the pool only when it has none:
\* two requests never wait for the same tick.
OneUser ==
    /\ \A u, w \in User : timer[u] = timer[w] => u = w \/ timer[u] = NoTimer
    /\ \A u \in User : timer[u] \notin pool

\* A request is woken before its time-out only by a timer whose last user gave
\* it back just between its expiry and its tick ("Collect possibly added time
\* from the channel").
EarlyOnlyAfterSlip == \A t \in Timer : "left" \notin tick[t]

=============================================================================
