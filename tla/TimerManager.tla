---------------------------- MODULE TimerManager ----------------------------
(***************************************************************************)
(* The timers (src/lyserver/src/timer.cpp) and the loop that serves them,  *)
(* MainReactor::Eventloop (src/lyserver/src/reactor/reactor.cpp).          *)
(*                                                                         *)
(* Any thread adds, cancels, refreshes and resets timers under the write   *)
(* lock of the manager, one critical section being one action.  The loop   *)
(* asks for the nearest timer, sleeps in epoll_wait, takes the expired     *)
(* callbacks and hands them to the thread pool.  A thread that puts a      *)
(* timer in front wakes the loop through a pipe, after it has unlocked.    *)
(*                                                                         *)
(* Times are kept relative to the clock: left[t] is m_next - now.          *)
(***************************************************************************)
EXTENDS Integers, FiniteSets

CONSTANTS
  Timer,      \* identities for Timer objects, each made once
  User,       \* the threads that use timers
  Delay,      \* the values of m_ms, in steps of Tick
  MaxWait,    \* MAX_TIMEOUT of Eventloop
  IntRange,   \* 2^31 milliseconds, in steps of Tick: an int is in -IntRange..IntRange-1
  Hour,       \* what detectClockRollover takes for a jump of the clock
  Jumps,      \* how far the wall clock may be set back
  Fixed,      \* timers nobody refreshes or resets
  MaxLag,     \* bound: ticks between reading the clock and locking
  MaxHanded,  \* bound: callbacks of one timer waiting in the thread pool
  MaxLeft     \* bound: how far from now a jump may push a timer

ASSUME DelaysAreNat == Delay \subseteq Nat
ASSUME IntHoldsMaxWait == IntRange \in Nat /\ MaxWait < IntRange
ASSUME BoundsAreNat == {MaxWait, Hour, MaxLag, MaxHanded, MaxLeft} \subseteq Nat
ASSUME JumpsGoBack == Jumps \subseteq Nat \ {0}

VARIABLES
  timers,     \* m_timers
  armed,      \* the timers whose m_cb is set
  made,       \* the timers that have been constructed
  period,     \* m_ms
  recurring,  \* m_recurring
  left,       \* m_next - GetCurrentMS() of an armed timer, no lower than -MaxLag
  tickled,    \* m_tickled
  signal,     \* the pipe has an event epoll_wait has not reported yet
  user,       \* what each thread is doing: an operation and its timer
  loop,       \* where Eventloop is
  wakeIn,     \* what is left of the timeout of epoll_wait, or Endless
  lag,        \* GetCurrentMS() - now_ms of listExpiredCb
  ahead,      \* m_previouseTime - GetCurrentMS(), no lower than -MaxLeft
  rolled,     \* what detectClockRollover will answer for now_ms
  handed      \* callbacks in the thread pool's queue

held == <<made, period, recurring>>
waiting == <<loop, wakeIn, lag, ahead, rolled>>
vars == <<timers, armed, held, left, tickled, signal, user, waiting, handed>>

Idle == [op |-> "idle"]
Doing(u, op, t) == user[u] = [op |-> op, timer |-> t]
Tickling(u, t) == Doing(u, "added", t) \/ Doing(u, "moved", t)
\* The pointer to t is there once addTimer has returned it.
Known(t) == t \in made /\ \A u \in User : ~Doing(u, "insert", t) /\ ~Doing(u, "added", t)
AtLeast(x, low) == IF x < low THEN low ELSE x

-----------------------------------------------------------------------------
Init ==
  /\ timers = {} /\ armed = {} /\ made = {}
  /\ period \in [Timer -> Delay]                \* chosen by whoever makes the timer
  /\ recurring \in [Timer -> BOOLEAN]
  /\ left = [t \in Timer |-> 0]
  /\ tickled = FALSE /\ signal = FALSE
  /\ user = [u \in User |-> Idle]
  /\ loop = "top" /\ wakeIn = 0 /\ lag = 0 /\ ahead = 0 /\ rolled = FALSE
  /\ handed = [t \in Timer |-> 0]

-----------------------------------------------------------------------------
(* Timers *)

\* addTimer(ms, cb, recurring): the clock is read before the lock is taken.
Make(u, t) ==
  /\ user[u] = Idle
  /\ t \notin made
  /\ made' = made \cup {t}
  /\ armed' = armed \cup {t}
  /\ left' = [left EXCEPT ![t] = period[t]]
  /\ user' = [user EXCEPT ![u] = [op |-> "insert", timer |-> t]]
  /\ UNCHANGED <<timers, period, recurring, tickled, signal, waiting, handed>>

\* addTimer(val, lock): t goes into the set, due in `due`; with a new front the
\* thread goes on to `op`.  Timers due at the same time are ordered by address,
\* so either may come first.
MayBeFirst(t, due) == \A s \in timers \ {t} : left[s] >= due
MustBeFirst(t, due) == \A s \in timers \ {t} : left[s] > due
Put(u, t, due, op) ==
  /\ timers' = timers \cup {t}
  /\ \E first \in BOOLEAN :
       /\ first => MayBeFirst(t, due)
       /\ MustBeFirst(t, due) => first
       /\ IF first /\ ~tickled
            THEN tickled' = TRUE /\ user' = [user EXCEPT ![u] = [op |-> op, timer |-> t]]
            ELSE tickled' = tickled /\ user' = [user EXCEPT ![u] = Idle]

Insert(u, t) ==
  /\ Doing(u, "insert", t)
  /\ Put(u, t, left[t], "added")
  /\ UNCHANGED <<armed, held, left, signal, waiting, handed>>

\* onTimerInsertedAtFront, with the lock released.
Tickle(u, t) ==
  /\ Tickling(u, t)
  /\ signal' = TRUE
  /\ user' = [user EXCEPT ![u] = Idle]
  /\ UNCHANGED <<timers, armed, held, left, tickled, waiting, handed>>

Cancel(u, t) ==
  /\ user[u] = Idle /\ Known(t)
  /\ t \in armed
  /\ armed' = armed \ {t}
  /\ timers' = timers \ {t}
  /\ left' = [left EXCEPT ![t] = 0]
  /\ UNCHANGED <<held, tickled, signal, user, waiting, handed>>

\* Faulty variant: the tests of lines 60 and 65 are missing.
RefreshAnyway(u, t) ==
  /\ user[u] = Idle /\ Known(t) /\ t \notin Fixed
  /\ left' = [left EXCEPT ![t] = period[t]]
  /\ timers' = timers \cup {t}
  /\ UNCHANGED <<armed, held, tickled, signal, user, waiting, handed>>

\* Later or as late as before, so the loop is not woken.
Refresh(u, t) ==
  /\ user[u] = Idle /\ Known(t) /\ t \notin Fixed
  /\ t \in armed /\ t \in timers
  /\ left' = [left EXCEPT ![t] = period[t]]
  /\ UNCHANGED <<timers, armed, held, tickled, signal, user, waiting, handed>>

Reset(u, t, ms, fromNow) ==
  /\ user[u] = Idle /\ Known(t) /\ t \notin Fixed
  /\ ms # period[t] \/ fromNow
  /\ t \in armed /\ t \in timers
  /\ LET due == IF fromNow THEN ms ELSE AtLeast(left[t] - period[t] + ms, -MaxLag) IN
       /\ period' = [period EXCEPT ![t] = ms]
       /\ left' = [left EXCEPT ![t] = due]
       /\ Put(u, t, due, "moved")
  /\ UNCHANGED <<armed, made, recurring, signal, waiting, handed>>

-----------------------------------------------------------------------------
(* Eventloop *)

Nearest(n) == (\E t \in timers : left[t] = n) /\ (\A t \in timers : left[t] >= n)

\* Faulty variant: a timeout of 0 ends the loop too.
StopWhenOverdue ==
  /\ loop = "top" /\ \A t \in timers : \E s \in timers : left[s] <= 0
  /\ loop' = "gone"
  /\ tickled' = FALSE
  /\ UNCHANGED <<timers, armed, held, left, signal, user, wakeIn, lag, ahead, rolled, handed>>

\* stopping: with no timer at all the loop ends, and the server with it.
Stop ==
  /\ loop = "top" /\ timers = {}
  /\ loop' = "gone"
  /\ tickled' = FALSE
  /\ UNCHANGED <<timers, armed, held, left, signal, user, wakeIn, lag, ahead, rolled, handed>>

\* The conversion of a uint64_t to int.
Narrow(n) ==
  LET low == n % (2 * IntRange) IN IF low < IntRange THEN low ELSE low - 2 * IntRange

\* epoll_wait takes every negative timeout for no timeout at all.
Endless == -1
Timeouts == {Endless} \cup 0..MaxWait
Timeout(n) ==
  LET ms == Narrow(AtLeast(n, 0)) IN
    IF ms < 0 THEN Endless ELSE IF ms > MaxWait THEN MaxWait ELSE ms

\* Faulty variant: m_tickled is not reset.
GetNextTimerKeepsFlag ==
  /\ loop = "top"
  /\ \E t \in timers :
       /\ Nearest(left[t])
       /\ wakeIn' = Timeout(left[t])
  /\ loop' = "waiting"
  /\ UNCHANGED <<timers, armed, held, left, tickled, signal, user, lag, ahead, rolled, handed>>
GetNextTimer ==
  /\ loop = "top"
  /\ \E t \in timers :
       /\ Nearest(left[t])
       /\ wakeIn' = Timeout(left[t])
  /\ tickled' = FALSE
  /\ loop' = "waiting"
  /\ UNCHANGED <<timers, armed, held, left, signal, user, lag, ahead, rolled, handed>>

\* epoll_wait returns, reporting what the pipe has, and the clock is read.
WakeUp ==
  /\ loop' = "listing"
  /\ signal' = FALSE
  /\ wakeIn' = 0
  /\ rolled' = (ahead > Hour)
  /\ UNCHANGED <<timers, armed, held, left, tickled, user, lag, ahead, handed>>

Wake == loop = "waiting" /\ (wakeIn = 0 \/ signal) /\ WakeUp
WakeForSocket == loop = "waiting" /\ wakeIn # 0 /\ ~signal /\ WakeUp

\* listExpiredCb finds no timer, under the read lock or under the write lock.
ListNothing ==
  /\ loop = "listing" /\ timers = {}
  /\ loop' = "top" /\ lag' = 0 /\ rolled' = FALSE
  /\ UNCHANGED <<timers, armed, held, left, tickled, signal, user, wakeIn, ahead, handed>>

Expired(t) == rolled \/ left[t] + lag <= 0

\* Faulty variant: m_cb of a one-shot timer is not cleared.
AllCallbacksKept(out) == armed
CallbacksKept(out) == {t \in armed : t \in out => recurring[t]}

\* The expired timers leave the set, the recurring ones return to it, and
\* Eventloop adds every callback to the thread pool.
ListExpired ==
  /\ loop = "listing" /\ timers # {}
  /\ LET out == {t \in timers : Expired(t)} IN
       /\ \A t \in out : handed[t] < MaxHanded
       /\ timers' = {t \in timers : t \in out => recurring[t]}
       /\ armed' = CallbacksKept(out)
       /\ left' = [t \in Timer |->
                    IF t \notin out THEN left[t]
                    ELSE IF recurring[t] THEN AtLeast(period[t] - lag, -MaxLag) ELSE 0]
       /\ handed' = [t \in Timer |-> IF t \in out THEN handed[t] + 1 ELSE handed[t]]
  /\ ahead' = AtLeast(-lag, -MaxLeft)
  /\ loop' = "top" /\ lag' = 0 /\ rolled' = FALSE
  /\ UNCHANGED <<held, tickled, signal, user, wakeIn>>

\* A thread of the pool runs a callback.
Run(t) ==
  /\ handed[t] > 0
  /\ handed' = [handed EXCEPT ![t] = @ - 1]
  /\ UNCHANGED <<timers, armed, held, left, tickled, signal, user, waiting>>

-----------------------------------------------------------------------------
(* The clock *)

Tick ==
  /\ loop = "listing" => lag < MaxLag
  /\ left' = [t \in Timer |-> IF t \in armed THEN AtLeast(left[t] - 1, -MaxLag) ELSE left[t]]
  /\ wakeIn' = IF wakeIn = Endless THEN Endless ELSE AtLeast(wakeIn - 1, 0)
  /\ lag' = IF loop = "listing" THEN lag + 1 ELSE 0
  /\ ahead' = AtLeast(ahead - 1, -MaxLeft)
  /\ UNCHANGED <<timers, armed, held, tickled, signal, user, loop, rolled, handed>>

\* The wall clock is set back; epoll_wait does not notice.
SetBack(d) ==
  /\ ahead + d <= MaxLeft
  /\ \A t \in armed : left[t] + d <= MaxLeft /\ left[t] > -MaxLag
  /\ left' = [t \in Timer |-> IF t \in armed THEN left[t] + d ELSE left[t]]
  /\ lag' = IF loop = "listing" THEN lag - d ELSE 0
  /\ ahead' = ahead + d
  /\ UNCHANGED <<timers, armed, held, tickled, signal, user, loop, wakeIn, rolled, handed>>

-----------------------------------------------------------------------------
Next ==
  \/ \E u \in User, t \in Timer :
       Make(u, t) \/ Insert(u, t) \/ Tickle(u, t) \/ Cancel(u, t) \/ Refresh(u, t)
  \/ \E u \in User, t \in Timer, ms \in Delay, fromNow \in BOOLEAN : Reset(u, t, ms, fromNow)
  \/ Stop \/ GetNextTimer \/ Wake \/ WakeForSocket \/ ListNothing \/ ListExpired
  \/ \E t \in Timer : Run(t)
  \/ Tick
  \/ \E d \in Jumps : SetBack(d)

Spec == Init /\ [][Next]_vars

\* The loop's thread and the pool's threads run, time passes, and a thread that
\* is inside addTimer or reset leaves it.  Nothing makes a socket ready.
Fairness ==
  /\ WF_vars(GetNextTimer) /\ WF_vars(Wake) /\ WF_vars(ListNothing) /\ WF_vars(ListExpired)
  /\ \A u \in User, t \in Timer : WF_vars(Insert(u, t)) /\ WF_vars(Tickle(u, t))
  /\ \A t \in Timer : WF_vars(Run(t))
  /\ SF_vars(Tick)     \* strong: the bound MaxLag must not stop the clock

FairSpec == Spec /\ Fairness

-----------------------------------------------------------------------------
(* Type invariant. *)
TypeOK ==
  /\ timers \subseteq Timer /\ armed \subseteq made /\ made \subseteq Timer
  /\ period \in [Timer -> Delay] /\ recurring \in [Timer -> BOOLEAN]
  /\ left \in [Timer -> Int]
  /\ tickled \in BOOLEAN /\ signal \in BOOLEAN /\ rolled \in BOOLEAN
  /\ user \in [User -> {Idle} \cup [op : {"insert", "added", "moved"}, timer : Timer]]
  /\ loop \in {"top", "waiting", "listing", "gone"}
  /\ wakeIn \in Timeouts
  /\ lag \in Int /\ ahead \in Int
  /\ handed \in [Timer -> 0..MaxHanded]

(* A timer has a callback exactly while it is in the set or a thread is    *)
(* about to put it there.  cancel (line 50) erases what find returns       *)
(* without looking, and listExpiredCb (line 193) hands out m_cb without    *)
(* looking: both are right only because of this.                           *)
ArmedIffQueued ==
  /\ timers = {t \in armed : \A u \in User : ~Doing(u, "insert", t)}
  /\ \A t \in made \ armed : \A u \in User : ~Doing(u, "insert", t)

(* While the loop sleeps no timer comes due before the sleep ends, unless  *)
(* the pipe already has something or a thread is about to write to it:     *)
(* m_tickled, the reset of it by getNextTimer and the wake-up after the    *)
(* unlock lose no timer that was put in front.  The loop sleeps without    *)
(* end only in a program that uses a delay an int does not hold (line 773  *)
(* of reactor.cpp).  Without setbacks of the clock only: after one,        *)
(* refresh can bring a timer forward.                                      *)
WakeComing == signal \/ \E u \in User, t \in Timer : Tickling(u, t)
FarDelays == {ms \in Delay : ms >= IntRange}
InTime == \A t \in timers : wakeIn <= AtLeast(left[t], 0)
SleepsNoLonger ==
  loop = "waiting" => \/ WakeComing
                      \/ wakeIn # Endless /\ InTime
                      \/ wakeIn = Endless /\ FarDelays # {}

(* A timer that nobody cancels or postpones fires, whatever other threads  *)
(* do with other timers and whatever the sockets do, unless the loop had   *)
(* already ended for lack of timers (it does not end while one is armed)   *)
(* or falls asleep without end for a timer 2^31 ms away.                   *)
SleepsForGood == loop = "waiting" /\ wakeIn = Endless
EveryTimerFires ==
  \A t \in Fixed :
    (t \in timers /\ loop # "gone") ~> (handed[t] > 0 \/ t \notin timers \/ SleepsForGood)

-----------------------------------------------------------------------------
(* Every timer is armed once, fires as its kind says and stays dead.       *)
Life == INSTANCE TimerLife WITH
  life <- [t \in Timer |->
             IF t \in timers THEN IF recurring[t] THEN "recurring" ELSE "once"
             ELSE IF t \in made \ armed THEN "dead" ELSE "new"]
LifeSpec == Life!Spec
=============================================================================
