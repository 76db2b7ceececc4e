------------------------- MODULE TimerManagerProofs -------------------------
(***************************************************************************)
(* Proofs about TimerManager for any timers, threads and delays: where a   *)
(* timer is, what its callbacks do, and that no wake-up of the loop is     *)
(* lost as long as the wall clock is not set back.                         *)
(***************************************************************************)
EXTENDS TimerManager, TLAPS

Ops == {"insert", "added", "moved"}
Busy == [op : Ops, timer : Timer]

(* The states of a thread are told apart by its operation and its timer.   *)
LEMMA BusyShape ==
  /\ \A op \in Ops, t \in Timer : [op |-> op, timer |-> t] \in Busy
  /\ \A op \in Ops, t \in Timer : [op |-> op, timer |-> t] # Idle
  /\ \A op, o \in Ops, t, s \in Timer :
       [op |-> op, timer |-> t] = [op |-> o, timer |-> s] => op = o /\ t = s
<1>1. \A op \in Ops, t \in Timer : [op |-> op, timer |-> t].op = op /\ [op |-> op, timer |-> t].timer = t
  OBVIOUS
<1>2. Idle.op = "idle"
  BY DEF Idle
<1> QED
  BY <1>1, <1>2 DEF Ops, Busy

LEMMA AtLeastBounds ==
  ASSUME NEW x \in Int, NEW low \in Int
  PROVE  AtLeast(x, low) \in Int /\ AtLeast(x, low) >= low /\ AtLeast(x, low) >= x
         /\ (AtLeast(x, low) = x \/ AtLeast(x, low) = low)
BY DEF AtLeast

LEMMA Numbers ==
  /\ MaxWait \in Nat /\ MaxLag \in Nat /\ MaxLeft \in Nat /\ MaxHanded \in Nat
  /\ -MaxLag \in Int /\ -MaxLeft \in Int /\ 0 \in Timeouts /\ 0 \in 0..MaxHanded
  /\ Timeouts \subseteq Int
  /\ \A ms \in Delay : ms \in Int /\ ms >= 0
BY BoundsAreNat, DelaysAreNat DEF Endless, Timeouts

(* The int that a timeout is narrowed to is the timeout itself below 2^31  *)
(* milliseconds, and never more than it.                                   *)
LEMMA NarrowBounds ==
  ASSUME NEW n \in Nat
  PROVE  /\ Narrow(n) \in Int /\ Narrow(n) <= n
         /\ n < IntRange => Narrow(n) = n
<1> DEFINE m == 2 * IntRange
           low == n % m
<1>1. IntRange \in Nat /\ IntRange > 0 /\ m \in Nat /\ m > 0
  BY IntHoldsMaxWait, BoundsAreNat
<1>2. low \in 0..(m - 1) /\ low <= n /\ (n < m => low = n)
  BY <1>1
<1>3. Narrow(n) = IF low < IntRange THEN low ELSE low - m
  BY DEF Narrow
<1> HIDE DEF low
<1> QED
  BY <1>1, <1>2, <1>3

LEMMA TimeoutRange ==
  ASSUME NEW n \in Int
  PROVE  /\ Timeout(n) \in Timeouts
         /\ Timeout(n) <= AtLeast(n, 0)
         /\ Timeout(n) = Endless => n >= IntRange
<1> DEFINE left0 == AtLeast(n, 0)
           ms == Narrow(left0)
<1>1. left0 \in Nat /\ (left0 = n \/ left0 = 0)
  BY DEF AtLeast
<1>2. ms \in Int /\ ms <= left0 /\ (left0 < IntRange => ms = left0)
  BY <1>1, NarrowBounds
<1>3. Timeout(n) = IF ms < 0 THEN Endless ELSE IF ms > MaxWait THEN MaxWait ELSE ms
  BY DEF Timeout
<1> HIDE DEF left0, ms
<1>4. MaxWait \in Nat /\ IntRange \in Nat /\ IntRange > 0
  BY IntHoldsMaxWait, BoundsAreNat
<1> QED
  BY <1>1, <1>2, <1>3, <1>4 DEF Endless, Timeouts, left0

-----------------------------------------------------------------------------
LEMMA TypeInit == Init => TypeOK
<1> SUFFICES ASSUME Init PROVE TypeOK
  OBVIOUS
<1>1. left \in [Timer -> Int] /\ handed \in [Timer -> 0..MaxHanded] /\ wakeIn \in Timeouts
      /\ lag \in Int /\ ahead \in Int
  BY Numbers DEF Init
<1>2. /\ timers \subseteq Timer /\ armed \subseteq made /\ made \subseteq Timer
      /\ period \in [Timer -> Delay] /\ recurring \in [Timer -> BOOLEAN]
      /\ tickled \in BOOLEAN /\ signal \in BOOLEAN /\ rolled \in BOOLEAN
      /\ user \in [User -> {Idle} \cup Busy]
      /\ loop \in {"top", "waiting", "listing", "gone"}
  BY DEF Init
<1> QED
  BY <1>1, <1>2 DEF TypeOK, Busy, Ops

(* What Put does to the set, the flag and the thread.                      *)
LEMMA PutShape ==
  ASSUME TypeOK, NEW u \in User, NEW t \in Timer, NEW due \in Int, NEW op \in Ops, Put(u, t, due, op)
  PROVE  /\ timers' = timers \cup {t}
         /\ \/ tickled' = TRUE /\ user' = [user EXCEPT ![u] = [op |-> op, timer |-> t]] /\ MayBeFirst(t, due)
            \/ /\ tickled' = tickled /\ user' = [user EXCEPT ![u] = Idle]
               /\ tickled \/ ~MustBeFirst(t, due)
         /\ tickled' \in BOOLEAN
         /\ user' \in [User -> {Idle} \cup Busy]
<1>1. PICK first \in BOOLEAN :
        /\ first => MayBeFirst(t, due)
        /\ MustBeFirst(t, due) => first
        /\ IF first /\ ~tickled
             THEN tickled' = TRUE /\ user' = [user EXCEPT ![u] = [op |-> op, timer |-> t]]
             ELSE tickled' = tickled /\ user' = [user EXCEPT ![u] = Idle]
  BY DEF Put
<1>2. timers' = timers \cup {t}
  BY DEF Put
<1>3. user \in [User -> {Idle} \cup Busy] /\ tickled \in BOOLEAN
  BY DEF TypeOK, Ops, Busy
<1>4. [op |-> op, timer |-> t] \in Busy
  BY BusyShape
<1>5. CASE first /\ ~tickled
  BY <1>1, <1>2, <1>3, <1>4, <1>5
<1>6. CASE ~(first /\ ~tickled)
  BY <1>1, <1>2, <1>3, <1>4, <1>6
<1> QED
  BY <1>5, <1>6

LEMMA TypeStep == TypeOK /\ [Next]_vars => TypeOK'
<1> SUFFICES ASSUME TypeOK, [Next]_vars PROVE TypeOK'
  OBVIOUS
<1> USE Numbers
<1>0. CASE UNCHANGED vars
  BY <1>0 DEF TypeOK, vars, held, waiting
<1>t. user \in [User -> {Idle} \cup Busy]
  BY DEF TypeOK, Ops, Busy
<1>1. ASSUME NEW u \in User, NEW t \in Timer, Make(u, t) PROVE TypeOK'
  <2>1. user' \in [User -> {Idle} \cup Busy]
    BY <1>1, <1>t, BusyShape DEF Make, Ops
  <2>2. left' \in [Timer -> Int]
    <3>1. period[t] \in Int
      BY DEF TypeOK
    <3> QED
      BY <1>1, <3>1 DEF Make, TypeOK
  <2> QED
    BY <1>1, <2>1, <2>2 DEF Make, TypeOK, waiting, Ops, Busy
<1>2. ASSUME NEW u \in User, NEW t \in Timer, Insert(u, t) PROVE TypeOK'
  <2>1. left[t] \in Int /\ Put(u, t, left[t], "added") /\ "added" \in Ops
    BY <1>2 DEF Insert, TypeOK, Ops
  <2>2. /\ timers' = timers \cup {t} /\ tickled' \in BOOLEAN
        /\ user' \in [User -> {Idle} \cup Busy]
    BY <2>1, PutShape
  <2> QED
    BY <1>2, <2>2 DEF Insert, TypeOK, held, waiting, Ops, Busy
<1>3. ASSUME NEW u \in User, NEW t \in Timer, Tickle(u, t) PROVE TypeOK'
  BY <1>3 DEF Tickle, TypeOK, held, waiting
<1>4. ASSUME NEW u \in User, NEW t \in Timer, Cancel(u, t) PROVE TypeOK'
  BY <1>4 DEF Cancel, TypeOK, held, waiting
<1>5. ASSUME NEW u \in User, NEW t \in Timer, Refresh(u, t) PROVE TypeOK'
  <2>1. period[t] \in Int
    BY DEF TypeOK
  <2> QED
    BY <1>5, <2>1 DEF Refresh, TypeOK, held, waiting
<1>6. ASSUME NEW u \in User, NEW t \in Timer, NEW ms \in Delay, NEW fromNow \in BOOLEAN,
             Reset(u, t, ms, fromNow)
      PROVE TypeOK'
  <2> DEFINE due == IF fromNow THEN ms ELSE AtLeast(left[t] - period[t] + ms, -MaxLag)
  <2>0. left[t] - period[t] + ms \in Int
    BY DEF TypeOK
  <2>1. due \in Int
    BY <2>0, AtLeastBounds
  <2>2. Put(u, t, due, "moved") /\ "moved" \in Ops
    BY <1>6 DEF Reset, Ops
  <2>3. /\ timers' = timers \cup {t} /\ tickled' \in BOOLEAN
        /\ user' \in [User -> {Idle} \cup Busy]
    BY <2>1, <2>2, PutShape
  <2>4. left' \in [Timer -> Int] /\ period' \in [Timer -> Delay]
    BY <1>6, <2>1 DEF Reset, TypeOK
  <2> HIDE DEF due
  <2> QED
    BY <1>6, <2>1, <2>3, <2>4 DEF Reset, TypeOK, waiting, Ops, Busy
<1>7. CASE Stop \/ ListNothing
  <2>1. CASE Stop
    BY <1>t, <2>1 DEF Stop, TypeOK, held
  <2>2. CASE ListNothing
    <3>1. rolled' \in BOOLEAN
      BY <2>2 DEF ListNothing
    <3>2. loop' = "top" /\ lag' = 0
          /\ UNCHANGED <<timers, armed, made, period, recurring, left, tickled, signal, user, wakeIn, ahead, handed>>
      BY <2>2 DEF ListNothing, held
    <3> QED
      BY <3>1, <3>2 DEF TypeOK
  <2> QED
    BY <1>7, <2>1, <2>2
<1>8. CASE GetNextTimer
  <2>1. PICK t \in timers : wakeIn' = Timeout(left[t])
    BY <1>8 DEF GetNextTimer
  <2>2. wakeIn' \in Timeouts
    BY <2>1, TimeoutRange DEF TypeOK
  <2> QED
    BY <1>8, <2>2 DEF GetNextTimer, TypeOK, held
<1>9. CASE Wake \/ WakeForSocket
  <2>a. rolled' = (ahead > Hour) /\ signal' = FALSE
    BY <1>9 DEF Wake, WakeForSocket, WakeUp
  <2>1. rolled' \in BOOLEAN /\ signal' \in BOOLEAN
    <3>1. (ahead > Hour) \in BOOLEAN
      BY SMT
    <3> QED
      BY <2>a, <3>1
  <2>2. loop' = "listing" /\ wakeIn' = 0
        /\ UNCHANGED <<timers, armed, made, period, recurring, left, tickled, user, lag, ahead, handed>>
    BY <1>9 DEF Wake, WakeForSocket, WakeUp, held
  <2> QED
    BY <2>1, <2>2 DEF TypeOK
<1>10. CASE ListExpired
  <2>1. PICK out \in SUBSET timers :
          /\ \A t \in out : handed[t] < MaxHanded
          /\ timers' = {t \in timers : t \in out => recurring[t]}
          /\ armed' = CallbacksKept(out)
          /\ left' = [t \in Timer |->
                       IF t \notin out THEN left[t]
                       ELSE IF recurring[t] THEN AtLeast(period[t] - lag, -MaxLag) ELSE 0]
          /\ handed' = [t \in Timer |-> IF t \in out THEN handed[t] + 1 ELSE handed[t]]
    BY <1>10 DEF ListExpired
  <2>2. left' \in [Timer -> Int]
    <3>1. \A t \in Timer : period[t] - lag \in Int /\ left[t] \in Int
      BY DEF TypeOK
    <3>2. \A t \in Timer : AtLeast(period[t] - lag, -MaxLag) \in Int
      BY <3>1, AtLeastBounds
    <3> QED
      BY <2>1, <3>1, <3>2
  <2>3. handed' \in [Timer -> 0..MaxHanded]
    BY <2>1 DEF TypeOK
  <2>a. lag' = 0 /\ loop' = "top" /\ rolled' = FALSE /\ ahead' = AtLeast(-lag, -MaxLeft)
    BY <1>10 DEF ListExpired
  <2>4. ahead' \in Int /\ lag' = 0 /\ loop' = "top" /\ rolled' \in BOOLEAN
    <3>1. ahead' \in Int
      BY <2>a, AtLeastBounds DEF TypeOK
    <3> QED
      BY <2>a, <3>1
  <2>5. timers' \subseteq timers /\ armed' \subseteq armed
    BY <2>1 DEF CallbacksKept
  <2>6. UNCHANGED <<made, period, recurring, tickled, signal, user, wakeIn>>
    BY <1>10 DEF ListExpired, held
  <2> QED
    BY <2>2, <2>3, <2>4, <2>5, <2>6 DEF TypeOK
<1>11. ASSUME NEW t \in Timer, Run(t) PROVE TypeOK'
  BY <1>11 DEF Run, TypeOK, held, waiting
<1>12. CASE Tick
  <2>1. left' \in [Timer -> Int] /\ wakeIn' \in Timeouts /\ lag' \in Int /\ ahead' \in Int
    BY <1>12 DEF Tick, TypeOK, AtLeast, Timeouts, Endless
  <2> QED
    BY <1>12, <2>1 DEF Tick, TypeOK, held
<1>13. ASSUME NEW d \in Jumps, SetBack(d) PROVE TypeOK'
  <2>1. left' \in [Timer -> Int] /\ lag' \in Int /\ ahead' \in Int
    BY <1>13, JumpsGoBack DEF SetBack, TypeOK
  <2> QED
    BY <1>13, <2>1 DEF SetBack, TypeOK, held
<1> QED
  BY <1>0, <1>1, <1>2, <1>3, <1>4, <1>5, <1>6, <1>7, <1>8, <1>9, <1>10, <1>11, <1>12, <1>13 DEF Next

(* Every state of the timers and of their loop is well typed.              *)
THEOREM TimersAreTyped == Spec => []TypeOK
BY TypeInit, TypeStep, PTL DEF Spec

-----------------------------------------------------------------------------
(* A thread inside addTimer or reset works on a timer that was made, and   *)
(* one thread at most is putting it into the set for the first time.       *)
BusyTimers ==
  /\ \A u \in User, t \in Timer, op \in Ops : Doing(u, op, t) => t \in made
  /\ \A u, v \in User, t \in Timer : Doing(u, "insert", t) /\ Doing(v, "insert", t) => u = v

PlaceInv == TypeOK /\ ArmedIffQueued /\ BusyTimers

LEMMA PlaceInit == Init => PlaceInv
<1> SUFFICES ASSUME Init PROVE PlaceInv
  OBVIOUS
<1>1. \A u \in User, t \in Timer, op \in Ops : ~Doing(u, op, t)
  BY BusyShape DEF Init, Doing
<1> QED
  BY <1>1, TypeInit DEF Init, PlaceInv, ArmedIffQueued, BusyTimers, Ops

LEMMA DoingAfter ==
  ASSUME TypeOK, NEW u \in User, NEW new, user' = [user EXCEPT ![u] = new]
  PROVE  \A v \in User, op \in Ops, t \in Timer :
           Doing(v, op, t)' <=> IF v = u THEN new = [op |-> op, timer |-> t] ELSE Doing(v, op, t)
BY DEF TypeOK, Doing

LEMMA OneOp ==
  ASSUME NEW u \in User, NEW op \in Ops, NEW t \in Timer, Doing(u, op, t)
  PROVE  user[u] # Idle /\ \A o \in Ops, s \in Timer : Doing(u, o, s) => o = op /\ s = t
BY BusyShape DEF Doing

(* The actions that neither make timers nor put them into the set.         *)
LEMMA PlaceShrinks ==
  ASSUME PlaceInv, UNCHANGED <<user, made>>, armed' \subseteq armed, timers' = timers \cap armed',
         \A t \in armed \ armed' : t \in timers
  PROVE  ArmedIffQueued' /\ BusyTimers'
<1>1. \A u \in User, t \in Timer, op \in Ops : Doing(u, op, t)' <=> Doing(u, op, t)
  BY DEF Doing
<1>2. "insert" \in Ops
  BY DEF Ops
<1>3. armed' \subseteq Timer /\ made \subseteq Timer /\ timers \subseteq Timer
  BY DEF PlaceInv, TypeOK
<1>4. timers' = {t \in armed' : \A u \in User : ~Doing(u, "insert", t)'}
  BY <1>1, <1>2, <1>3 DEF PlaceInv, ArmedIffQueued
<1>5. \A t \in made \ armed' : \A u \in User : ~Doing(u, "insert", t)'
  BY <1>1, <1>2, <1>3 DEF PlaceInv, ArmedIffQueued
<1>6. BusyTimers'
  BY <1>1, <1>2 DEF PlaceInv, BusyTimers
<1> QED
  BY <1>4, <1>5, <1>6 DEF ArmedIffQueued

LEMMA PlaceMake ==
  ASSUME PlaceInv, NEW u \in User, NEW t \in Timer, Make(u, t)
  PROVE  ArmedIffQueued' /\ BusyTimers'
<1>1. /\ user[u] = Idle /\ t \notin made /\ made' = made \cup {t} /\ armed' = armed \cup {t}
      /\ user' = [user EXCEPT ![u] = [op |-> "insert", timer |-> t]] /\ timers' = timers
  BY DEF Make
<1>2. "insert" \in Ops /\ TypeOK
  BY DEF Ops, PlaceInv
<1>3. \A v \in User, op \in Ops, s \in Timer :
        Doing(v, op, s)' <=> (v = u /\ op = "insert" /\ s = t) \/ (v # u /\ Doing(v, op, s))
  <2>1. \A v \in User, op \in Ops, s \in Timer :
          Doing(v, op, s)' <=> IF v = u THEN [op |-> "insert", timer |-> t] = [op |-> op, timer |-> s]
                               ELSE Doing(v, op, s)
    BY <1>1, <1>2, DoingAfter
  <2>2. \A op \in Ops, s \in Timer :
          [op |-> "insert", timer |-> t] = [op |-> op, timer |-> s] <=> op = "insert" /\ s = t
    BY <1>2, BusyShape
  <2> QED
    BY <2>1, <2>2
<1>4. \A op \in Ops, s \in Timer : ~Doing(u, op, s)
  BY <1>1, OneOp
<1>5. \A v \in User, op \in Ops : ~Doing(v, op, t)
  BY <1>1 DEF PlaceInv, BusyTimers
<1>6. armed \subseteq made /\ made \subseteq Timer /\ timers \subseteq Timer
  BY DEF PlaceInv, TypeOK
<1>7. timers' = {s \in armed' : \A v \in User : ~Doing(v, "insert", s)'}
  BY <1>1, <1>2, <1>3, <1>4, <1>6 DEF PlaceInv, ArmedIffQueued
<1>8. \A s \in made' \ armed' : \A v \in User : ~Doing(v, "insert", s)'
  BY <1>1, <1>2, <1>3, <1>6 DEF PlaceInv, ArmedIffQueued
<1>9. BusyTimers'
  BY <1>1, <1>2, <1>3, <1>5 DEF PlaceInv, BusyTimers
<1> QED
  BY <1>7, <1>8, <1>9 DEF ArmedIffQueued

(* Put, by a thread that was inserting t or by one that was idle.          *)
LEMMA PlacePut ==
  ASSUME PlaceInv, NEW u \in User, NEW t \in Timer, NEW due \in Int, NEW op \in {"added", "moved"},
         Put(u, t, due, op), UNCHANGED <<armed, made>>, t \in armed, t \in made,
         \A v \in User : v # u => ~Doing(v, "insert", t),
         \A s \in Timer : s # t => ~Doing(u, "insert", s)
  PROVE  ArmedIffQueued' /\ BusyTimers'
<1>1. "insert" \in Ops /\ op \in Ops /\ op # "insert" /\ TypeOK
  BY DEF Ops, PlaceInv
<1>2. PICK new \in {Idle, [op |-> op, timer |-> t]} : user' = [user EXCEPT ![u] = new]
  BY <1>1, PutShape
<1>3. timers' = timers \cup {t}
  BY DEF Put
<1>a. \A v \in User, o \in Ops, s \in Timer :
        Doing(v, o, s)' <=> IF v = u THEN new = [op |-> o, timer |-> s] ELSE Doing(v, o, s)
  BY <1>1, <1>2, DoingAfter
<1>b. \A o \in Ops, s \in Timer : new = [op |-> o, timer |-> s] => o = op /\ s = t
  BY <1>1, <1>2, BusyShape
<1>4. \A v \in User, o \in Ops, s \in Timer :
        Doing(v, o, s)' => (v = u /\ o = op /\ s = t) \/ (v # u /\ Doing(v, o, s))
  BY <1>a, <1>b
<1>5. \A v \in User, s \in Timer : Doing(v, "insert", s)' <=> v # u /\ Doing(v, "insert", s)
  BY <1>1, <1>a, <1>b
<1>6. armed \subseteq made /\ made \subseteq Timer /\ timers \subseteq Timer
  BY DEF PlaceInv, TypeOK
<1>7. timers' = {s \in armed' : \A v \in User : ~Doing(v, "insert", s)'}
  BY <1>3, <1>5, <1>6 DEF PlaceInv, ArmedIffQueued
<1>8. \A s \in made' \ armed' : \A v \in User : ~Doing(v, "insert", s)'
  BY <1>5, <1>6 DEF PlaceInv, ArmedIffQueued
<1>9. BusyTimers'
  BY <1>1, <1>4 DEF PlaceInv, BusyTimers
<1> QED
  BY <1>7, <1>8, <1>9 DEF ArmedIffQueued
LEMMA PlaceStep == PlaceInv /\ [Next]_vars => PlaceInv'
<1> SUFFICES ASSUME PlaceInv, [Next]_vars PROVE ArmedIffQueued' /\ BusyTimers'
  BY TypeStep DEF PlaceInv
<1> USE DEF Ops
<1>a. TypeOK /\ timers \subseteq armed
  BY DEF PlaceInv, ArmedIffQueued
<1>0. CASE UNCHANGED <<user, made, timers, armed>>
  BY <1>0, <1>a, PlaceShrinks
<1>1. ASSUME NEW u \in User, NEW t \in Timer, Make(u, t) PROVE ArmedIffQueued' /\ BusyTimers'
  BY <1>1, PlaceMake
<1>2. ASSUME NEW u \in User, NEW t \in Timer, Insert(u, t) PROVE ArmedIffQueued' /\ BusyTimers'
  <2>1. Doing(u, "insert", t) /\ Put(u, t, left[t], "added") /\ UNCHANGED <<armed, made>> /\ left[t] \in Int
    BY <1>2, <1>a DEF Insert, held, TypeOK
  <2>2. t \in made /\ \A v \in User : v # u => ~Doing(v, "insert", t)
    BY <2>1 DEF PlaceInv, BusyTimers
  <2>3. \A s \in Timer : s # t => ~Doing(u, "insert", s)
    BY <2>1, OneOp
  <2>4. t \in armed
    BY <2>1, <2>2 DEF PlaceInv, ArmedIffQueued
  <2> QED
    BY <2>1, <2>2, <2>3, <2>4, PlacePut
<1>3. ASSUME NEW u \in User, NEW t \in Timer, Tickle(u, t) PROVE ArmedIffQueued' /\ BusyTimers'
  <2>1. /\ user' = [user EXCEPT ![u] = Idle] /\ UNCHANGED <<timers, armed, made>>
        /\ Doing(u, "added", t) \/ Doing(u, "moved", t)
    BY <1>3 DEF Tickle, Tickling, held
  <2>2. \A v \in User, op \in Ops, s \in Timer :
          Doing(v, op, s)' <=> IF v = u THEN Idle = [op |-> op, timer |-> s] ELSE Doing(v, op, s)
    BY <2>1, <1>a, DoingAfter
  <2>3. \A v \in User, op \in Ops, s \in Timer : Doing(v, op, s)' => Doing(v, op, s)
    BY <2>2, BusyShape
  <2>4. \A s \in Timer : ~Doing(u, "insert", s)
    BY <2>1, OneOp
  <2>5. \A v \in User, s \in Timer : Doing(v, "insert", s)' <=> Doing(v, "insert", s)
    BY <2>2, <2>3, <2>4
  <2>6. timers \subseteq Timer /\ armed \subseteq Timer /\ made \subseteq Timer
    BY <1>a DEF TypeOK
  <2>7. BusyTimers'
    BY <2>1, <2>3, <2>5 DEF PlaceInv, BusyTimers
  <2> QED
    BY <2>1, <2>5, <2>6, <2>7 DEF PlaceInv, ArmedIffQueued
<1>4. ASSUME NEW u \in User, NEW t \in Timer, Cancel(u, t) PROVE ArmedIffQueued' /\ BusyTimers'
  <2>1. /\ Known(t) /\ t \in armed /\ armed' = armed \ {t} /\ timers' = timers \ {t}
        /\ UNCHANGED <<user, made>>
    BY <1>4 DEF Cancel, held
  <2>2. t \in timers
    BY <2>1 DEF Known, PlaceInv, ArmedIffQueued
  <2> QED
    BY <2>1, <2>2, <1>a, PlaceShrinks
<1>5. ASSUME NEW u \in User, NEW t \in Timer, NEW ms \in Delay, NEW fromNow \in BOOLEAN,
             Reset(u, t, ms, fromNow)
      PROVE ArmedIffQueued' /\ BusyTimers'
  <2> DEFINE due == IF fromNow THEN ms ELSE AtLeast(left[t] - period[t] + ms, -MaxLag)
  <2>1. /\ user[u] = Idle /\ Known(t) /\ t \in armed /\ Put(u, t, due, "moved")
        /\ UNCHANGED <<armed, made>>
    BY <1>5 DEF Reset
  <2>2. due \in Int
    <3>1. ms \in Int /\ left[t] - period[t] + ms \in Int
      BY <1>a, Numbers DEF TypeOK
    <3> QED
      BY <3>1, AtLeastBounds, Numbers
  <2> HIDE DEF due
  <2>3. \A v \in User : ~Doing(v, "insert", t)
    BY <2>1 DEF Known
  <2>4. \A s \in Timer : ~Doing(u, "insert", s)
    BY <2>1, OneOp
  <2>5. t \in made
    BY <2>1 DEF Known
  <2> QED
    BY <2>1, <2>2, <2>3, <2>4, <2>5, PlacePut
<1>6. CASE ListExpired
  <2>1. PICK out \in SUBSET timers :
          timers' = {t \in timers : t \in out => recurring[t]} /\ armed' = CallbacksKept(out)
    BY <1>6 DEF ListExpired
  <2>2. armed' \subseteq armed /\ timers' = timers \cap armed' /\ \A t \in armed \ armed' : t \in timers
    BY <2>1, <1>a DEF CallbacksKept
  <2> QED
    BY <1>6, <2>2, PlaceShrinks DEF ListExpired, held
<1>7. ASSUME NEW u \in User, NEW t \in Timer, Refresh(u, t) PROVE UNCHANGED <<user, made, timers, armed>>
  BY <1>7 DEF Refresh, held
<1>8. CASE \/ Stop \/ GetNextTimer \/ Wake \/ WakeForSocket \/ ListNothing \/ Tick
           \/ \E t \in Timer : Run(t)
           \/ \E d \in Jumps : SetBack(d)
           \/ UNCHANGED vars
  <2>1. UNCHANGED <<user, made, timers, armed>>
    BY <1>8 DEF Stop, GetNextTimer, Wake, WakeForSocket, WakeUp, ListNothing, Tick, Run, SetBack, held, vars
  <2> QED
    BY <2>1, <1>0
<1> QED
  BY <1>0, <1>1, <1>2, <1>3, <1>4, <1>5, <1>6, <1>7, <1>8 DEF Next

(* Whatever threads do with timers, cancel and listExpiredCb find what     *)
(* they take for granted: a callback exactly where there is a timer.       *)
THEOREM ArmedTimersAreQueued == Spec => []ArmedIffQueued
<1>1. PlaceInv => ArmedIffQueued
  BY DEF PlaceInv
<1> QED
  BY <1>1, PlaceInit, PlaceStep, PTL DEF Spec
-----------------------------------------------------------------------------
(* The life of a timer, read off the state.                                *)
LifeOf(t) ==
  IF t \in timers THEN IF recurring[t] THEN "recurring" ELSE "once"
  ELSE IF t \in made \ armed THEN "dead" ELSE "new"
Lives == [t \in Timer |-> LifeOf(t)]

LEMMA LifeInit == Init => Life!Init
BY DEF Init, Life!Init

LEMMA LifeArm ==
  ASSUME PlaceInv, NEW u \in User, NEW t \in Timer, Insert(u, t)
  PROVE  Life!Arm(t, "once") \/ Life!Arm(t, "recurring")
<1>1. Doing(u, "insert", t) /\ timers' = timers \cup {t} /\ UNCHANGED <<armed, made, recurring, handed>>
  BY DEF Insert, Put, held
<1>2. t \in armed /\ t \notin timers
  <2>1. "insert" \in Ops
    BY DEF Ops
  <2> QED
    BY <1>1, <2>1 DEF PlaceInv, ArmedIffQueued, BusyTimers
<1> DEFINE kind == IF recurring[t] THEN "recurring" ELSE "once"
<1>3. Lives[t] = "new"
  BY <1>2 DEF Lives, LifeOf
<1>4. Lives' = [Lives EXCEPT ![t] = kind]
  <2>1. \A s \in Timer : Lives'[s] = IF s = t THEN kind ELSE Lives[s]
    BY <1>1 DEF Lives, LifeOf
  <2> QED
    BY <2>1 DEF Lives
<1>5. kind = "once" \/ kind = "recurring"
  OBVIOUS
<1> HIDE DEF kind
<1>6. CASE kind = "once"
  BY <1>1, <1>3, <1>4, <1>6 DEF Life!Arm, Lives, LifeOf
<1>7. CASE kind = "recurring"
  BY <1>1, <1>3, <1>4, <1>7 DEF Life!Arm, Lives, LifeOf
<1> QED
  BY <1>5, <1>6, <1>7

LEMMA LifeDisarm ==
  ASSUME PlaceInv, NEW u \in User, NEW t \in Timer, Cancel(u, t)
  PROVE  Life!Disarm(t)
<1>1. /\ t \in timers /\ t \in made /\ armed' = armed \ {t} /\ timers' = timers \ {t}
      /\ UNCHANGED <<made, recurring, handed>>
  BY DEF Cancel, held, Known, PlaceInv, ArmedIffQueued
<1>2. Lives[t] \in {"once", "recurring"}
  BY <1>1 DEF Lives, LifeOf
<1>3. \A s \in Timer : Lives'[s] = IF s = t THEN "dead" ELSE Lives[s]
  BY <1>1 DEF Lives, LifeOf
<1>4. Lives' = [Lives EXCEPT ![t] = "dead"]
  BY <1>3 DEF Lives
<1> QED
  BY <1>1, <1>2, <1>4 DEF Life!Disarm, Lives, LifeOf

LEMMA LifeFire ==
  ASSUME PlaceInv, ListExpired
  PROVE  \E S \in SUBSET Timer : Life!Fire(S)
<1>1. PICK out \in SUBSET timers :
        /\ timers' = {t \in timers : t \in out => recurring[t]}
        /\ armed' = CallbacksKept(out)
        /\ handed' = [t \in Timer |-> IF t \in out THEN handed[t] + 1 ELSE handed[t]]
  BY DEF ListExpired
<1>2. UNCHANGED <<made, recurring>>
  BY DEF ListExpired, held
<1>3. timers \subseteq armed /\ armed \subseteq made /\ timers \subseteq Timer
  BY DEF PlaceInv, TypeOK, ArmedIffQueued
<1>4. \A t \in out : Lives[t] \in {"once", "recurring"}
  BY <1>3 DEF Lives, LifeOf
<1>5. \A t \in Timer : Lives'[t] = IF t \in out /\ Lives[t] = "once" THEN "dead" ELSE Lives[t]
  BY <1>1, <1>2, <1>3 DEF Lives, LifeOf, CallbacksKept
<1>6. Lives' = [t \in Timer |-> IF t \in out /\ Lives[t] = "once" THEN "dead" ELSE Lives[t]]
  BY <1>5 DEF Lives
<1>7. Life!Fire(out) /\ out \in SUBSET Timer
  BY <1>1, <1>3, <1>4, <1>6 DEF Life!Fire, Lives, LifeOf
<1> QED
  BY <1>7

LEMMA LifeStep == PlaceInv /\ [Next]_vars => [Life!Next]_<<Lives, handed>>
<1> SUFFICES ASSUME PlaceInv, [Next]_vars PROVE [Life!Next]_<<Lives, handed>>
  OBVIOUS
<1>a. timers \subseteq armed /\ armed \subseteq made /\ made \subseteq Timer
  BY DEF PlaceInv, TypeOK, ArmedIffQueued
<1>0. ASSUME UNCHANGED <<timers, armed, made, recurring, handed>> PROVE UNCHANGED <<Lives, handed>>
  BY <1>0 DEF Lives, LifeOf
<1>1. ASSUME NEW u \in User, NEW t \in Timer, Make(u, t) PROVE UNCHANGED <<Lives, handed>>
  <2>1. /\ t \notin made /\ made' = made \cup {t} /\ armed' = armed \cup {t}
        /\ UNCHANGED <<timers, recurring, handed>>
    BY <1>1 DEF Make
  <2>2. \A s \in Timer : LifeOf(s)' = LifeOf(s)
    BY <2>1, <1>a DEF LifeOf
  <2> QED
    BY <2>1, <2>2 DEF Lives
<1>2. ASSUME NEW u \in User, NEW t \in Timer, Insert(u, t) PROVE Life!Next
  BY <1>2, LifeArm DEF Life!Next
<1>3. ASSUME NEW u \in User, NEW t \in Timer, Cancel(u, t) PROVE Life!Next
  BY <1>3, LifeDisarm DEF Life!Next
<1>4. ASSUME NEW u \in User, NEW t \in Timer, NEW ms \in Delay, NEW fromNow \in BOOLEAN,
             Reset(u, t, ms, fromNow)
      PROVE UNCHANGED <<timers, armed, made, recurring, handed>>
  BY <1>4 DEF Reset, Put
<1>5. CASE ListExpired
  BY <1>5, LifeFire DEF Life!Next
<1>6. ASSUME NEW t \in Timer, Run(t) PROVE Life!Run(t)
  <2>1. UNCHANGED <<timers, armed, made, recurring>>
    BY <1>6 DEF Run, held
  <2> QED
    BY <1>6, <2>1 DEF Run, Life!Run
<1>7. CASE \/ Stop \/ GetNextTimer \/ Wake \/ WakeForSocket \/ ListNothing \/ Tick
           \/ \E u \in User, t \in Timer : Tickle(u, t) \/ Refresh(u, t)
           \/ \E d \in Jumps : SetBack(d)
           \/ UNCHANGED vars
  <2>1. UNCHANGED <<timers, armed, made, recurring, handed>>
    BY <1>7 DEF Stop, GetNextTimer, Wake, WakeForSocket, WakeUp, ListNothing, Tick, Tickle, Refresh,
                SetBack, held, vars
  <2> QED
    BY <2>1, <1>0
<1> QED
  BY <1>0, <1>1, <1>2, <1>3, <1>4, <1>5, <1>6, <1>7 DEF Next, Life!Next

(* The timers implement TimerLife: a one-shot timer fires at most once, a  *)
(* dead one never again, and each firing hands out one callback.           *)
THEOREM TimersLiveOnce == Spec => LifeSpec
<1>1. PlaceInv /\ [Next]_vars => [Life!Next]_<<Lives, handed>>
  BY LifeStep
<1>2. [][Life!Next]_<<Lives, handed>> => [][Life!Next]_<<[t \in Timer |->
             IF t \in timers THEN IF recurring[t] THEN "recurring" ELSE "once"
             ELSE IF t \in made \ armed THEN "dead" ELSE "new"], handed>>
  BY DEF Lives, LifeOf
<1> QED
  BY <1>1, <1>2, LifeInit, PlaceInit, PlaceStep, PTL DEF Spec, LifeSpec, Life!Spec
-----------------------------------------------------------------------------
(* No lost wake-up.  m_tickled tells addTimer that the loop is on its way  *)
(* to look again: so while the loop sleeps a set flag must come with an    *)
(* event in the pipe or with a thread about to write one.                  *)
FlagIsHonest == loop = "waiting" /\ tickled => WakeComing
(* Without setbacks a timer is never further away than its period, so      *)
(* refresh only postpones.                                                 *)
WithinPeriod == lag >= 0 /\ \A t \in armed : left[t] <= period[t]

(* The sleeps that need no wake-up.                                        *)
Sleep == \/ wakeIn # Endless /\ InTime
         \/ wakeIn = Endless /\ FarDelays # {}

WakeInv == PlaceInv /\ FlagIsHonest /\ WithinPeriod /\ SleepsNoLonger

LEMMA WakeInit == Init => WakeInv
BY PlaceInit DEF Init, WakeInv, FlagIsHonest, WithinPeriod, SleepsNoLonger

(* Put, while the loop sleeps: either a wake-up comes or a timer that is   *)
(* no later than t was there already.                                      *)
LEMMA WakePut ==
  ASSUME WakeInv, NEW u \in User, NEW t \in Timer, NEW due \in Int, NEW op \in {"added", "moved"},
         Put(u, t, due, op), \A s \in Timer : ~Tickling(u, s),
         left' = [left EXCEPT ![t] = due], UNCHANGED <<loop, wakeIn, signal>>
  PROVE  FlagIsHonest' /\ SleepsNoLonger'
<1> SUFFICES ASSUME loop = "waiting"
             PROVE  (tickled' => WakeComing') /\ (WakeComing' \/ Sleep')
  BY DEF FlagIsHonest, SleepsNoLonger, Sleep
<1>1. TypeOK /\ op \in Ops /\ "added" \in Ops /\ "moved" \in Ops /\ wakeIn \in Int
  BY Numbers DEF WakeInv, PlaceInv, Ops, TypeOK
<1>2. \A s \in timers : s \in Timer /\ left[s] \in Int
  BY <1>1 DEF TypeOK
<1>3. \A s \in timers' : left'[s] = IF s = t THEN due ELSE left[s]
  BY <1>1 DEF Put, TypeOK
<1>4. \A s \in timers' : s = t \/ s \in timers
  BY DEF Put
<1>5. ASSUME WakeComing PROVE WakeComing'
  <2>1. CASE signal
    BY <2>1 DEF WakeComing
  <2>2. ASSUME NEW v \in User, NEW s \in Timer, Tickling(v, s) PROVE WakeComing'
    <3>1. v # u
      BY <2>2
    <3>2. PICK new \in {Idle, [op |-> op, timer |-> t]} : user' = [user EXCEPT ![u] = new]
      BY <1>1, PutShape
    <3>3. \A o \in Ops : Doing(v, o, s)' <=> Doing(v, o, s)
      BY <3>1, <3>2, <1>1, DoingAfter
    <3>4. Tickling(v, s)'
      BY <2>2, <3>3, <1>1 DEF Tickling
    <3> QED
      BY <3>4 DEF WakeComing
  <2> QED
    BY <1>5, <2>1, <2>2 DEF WakeComing
<1>6. CASE user' = [user EXCEPT ![u] = [op |-> op, timer |-> t]]
  <2>1. user'[u] = [op |-> op, timer |-> t]
    BY <1>1, <1>6 DEF TypeOK
  <2>2. Tickling(u, t)'
    BY <2>1 DEF Tickling, Doing
  <2> QED
    BY <2>2 DEF WakeComing
<1>7. CASE tickled' = tickled /\ (tickled \/ ~MustBeFirst(t, due))
  <2>1. CASE WakeComing
    BY <1>5, <2>1
  <2>2. CASE ~WakeComing
    <3>1. ~tickled /\ Sleep
      BY <2>2 DEF WakeInv, FlagIsHonest, SleepsNoLonger, Sleep
    <3>2. CASE wakeIn = Endless
      BY <1>7, <3>1, <3>2 DEF Sleep
    <3>3. CASE wakeIn # Endless
      <4>1. \A s \in timers : wakeIn <= AtLeast(left[s], 0)
        BY <3>1, <3>3 DEF Sleep, InTime
      <4>2. PICK s \in timers : left[s] <= due
        BY <1>7, <3>1, <1>2 DEF MustBeFirst
      <4>3. wakeIn <= AtLeast(due, 0)
        BY <4>1, <4>2, <1>1, <1>2 DEF AtLeast
      <4>4. InTime'
        BY <1>3, <1>4, <4>1, <4>3 DEF InTime
      <4> QED
        BY <1>7, <3>1, <3>3, <4>4 DEF Sleep
    <3> QED
      BY <3>2, <3>3
  <2> QED
    BY <2>1, <2>2
<1> QED
  BY <1>1, <1>6, <1>7, PutShape
(* The steps that leave the loop asleep and bring no timer forward.        *)
LEMMA WakeKept ==
  ASSUME WakeInv, UNCHANGED <<loop, wakeIn, tickled>>, WakeComing => WakeComing',
         timers' \subseteq timers, \A s \in timers' : left'[s] >= left[s] /\ left'[s] \in Int
  PROVE  FlagIsHonest' /\ SleepsNoLonger'
<1>1. wakeIn \in Int /\ \A s \in timers : left[s] \in Int
  BY Numbers DEF WakeInv, PlaceInv, TypeOK
<1>2. \A s \in timers' : wakeIn <= AtLeast(left[s], 0) => wakeIn <= AtLeast(left'[s], 0)
  BY <1>1 DEF AtLeast
<1>3. InTime => InTime'
  BY <1>2 DEF InTime
<1> QED
  BY <1>3 DEF WakeInv, FlagIsHonest, SleepsNoLonger

LEMMA PeriodStep ==
  ASSUME Jumps = {}, TypeOK, WithinPeriod, Next
  PROVE  WithinPeriod'
<1>0. /\ lag \in Int /\ -MaxLag \in Int /\ -MaxLag <= 0
      /\ \A t \in Timer : left[t] \in Int /\ period[t] \in Int /\ period[t] >= 0
      /\ armed \subseteq Timer
  BY Numbers DEF TypeOK
<1>1. ASSUME NEW u \in User, NEW t \in Timer, Make(u, t) PROVE WithinPeriod'
  <2>1. /\ UNCHANGED <<period, lag>> /\ armed' = armed \cup {t}
        /\ \A s \in Timer : left'[s] = IF s = t THEN period[t] ELSE left[s]
    BY <1>1 DEF Make, TypeOK, waiting
  <2> QED
    BY <1>0, <2>1 DEF WithinPeriod
<1>2. ASSUME NEW u \in User, NEW t \in Timer, Insert(u, t) \/ Tickle(u, t) \/ Cancel(u, t) \/ Refresh(u, t)
      PROVE WithinPeriod'
  <2>1. /\ UNCHANGED <<period, lag>> /\ armed' \subseteq armed
        /\ \A s \in armed' : left'[s] = left[s] \/ left'[s] = period[s]
    BY <1>0, <1>2 DEF Insert, Tickle, Cancel, Refresh, TypeOK, held, waiting
  <2> QED
    BY <1>0, <2>1 DEF WithinPeriod
<1>3. ASSUME NEW u \in User, NEW t \in Timer, NEW ms \in Delay, NEW fromNow \in BOOLEAN,
             Reset(u, t, ms, fromNow)
      PROVE WithinPeriod'
  <2> DEFINE due == IF fromNow THEN ms ELSE AtLeast(left[t] - period[t] + ms, -MaxLag)
  <2>1. /\ t \in armed /\ UNCHANGED <<armed, lag>>
        /\ period' = [period EXCEPT ![t] = ms] /\ left' = [left EXCEPT ![t] = due]
    BY <1>3 DEF Reset, waiting
  <2>2. due <= ms /\ ms \in Int /\ due \in Int
    <3>1. ms \in Int /\ ms >= 0 /\ left[t] - period[t] + ms \in Int /\ left[t] - period[t] + ms <= ms
      BY <1>0, <2>1, Numbers DEF WithinPeriod
    <3> QED
      BY <1>0, <3>1 DEF AtLeast
  <2> HIDE DEF due
  <2>3. \A s \in Timer : /\ period'[s] = IF s = t THEN ms ELSE period[s]
                         /\ left'[s] = IF s = t THEN due ELSE left[s]
    BY <2>1 DEF TypeOK
  <2> QED
    BY <1>0, <2>1, <2>2, <2>3 DEF WithinPeriod
<1>4. CASE ListExpired
  <2>1. PICK out \in SUBSET timers :
          /\ armed' = CallbacksKept(out)
          /\ left' = [t \in Timer |->
                       IF t \notin out THEN left[t]
                       ELSE IF recurring[t] THEN AtLeast(period[t] - lag, -MaxLag) ELSE 0]
    BY <1>4 DEF ListExpired
  <2>2. UNCHANGED period /\ lag' = 0 /\ armed' \subseteq armed
    BY <1>4, <2>1 DEF ListExpired, held, CallbacksKept
  <2>3. \A t \in Timer : AtLeast(period[t] - lag, -MaxLag) \in Int /\ AtLeast(period[t] - lag, -MaxLag) <= period[t]
    BY <1>0 DEF WithinPeriod, AtLeast
  <2>4. \A t \in armed' : left'[t] <= period[t]
    BY <1>0, <2>1, <2>2, <2>3 DEF WithinPeriod
  <2> QED
    BY <2>2, <2>4 DEF WithinPeriod
<1>5. CASE Tick
  <2>1. /\ UNCHANGED <<period, armed>> /\ lag' >= 0
        /\ \A t \in armed : left'[t] = AtLeast(left[t] - 1, -MaxLag)
    BY <1>0, <1>5 DEF Tick, held, WithinPeriod
  <2>2. \A t \in armed : AtLeast(left[t] - 1, -MaxLag) <= period[t]
    BY <1>0 DEF WithinPeriod, AtLeast
  <2> QED
    BY <2>1, <2>2 DEF WithinPeriod
<1>6. CASE \/ Stop \/ GetNextTimer \/ Wake \/ WakeForSocket \/ ListNothing
           \/ \E t \in Timer : Run(t)
  <2>1. UNCHANGED <<armed, period, left>> /\ lag' \in {lag, 0}
    BY <1>6 DEF Stop, GetNextTimer, Wake, WakeForSocket, WakeUp, ListNothing, Run, held, waiting
  <2> QED
    BY <1>0, <2>1 DEF WithinPeriod
<1> QED
  BY <1>1, <1>2, <1>3, <1>4, <1>5, <1>6 DEF Next

LEMMA SleepStep ==
  ASSUME Jumps = {}, WakeInv, Next
  PROVE  FlagIsHonest' /\ SleepsNoLonger'
<1>0. /\ TypeOK /\ timers \subseteq armed /\ armed \subseteq made /\ made \subseteq Timer
      /\ wakeIn \in Int /\ \A t \in Timer : left[t] \in Int /\ period[t] \in Int
  BY Numbers DEF WakeInv, PlaceInv, ArmedIffQueued, TypeOK
<1>a. ASSUME UNCHANGED <<user, signal>> PROVE WakeComing => WakeComing'
  BY <1>a DEF WakeComing, Tickling, Doing
<1>1. ASSUME NEW u \in User, NEW t \in Timer, Make(u, t) PROVE FlagIsHonest' /\ SleepsNoLonger'
  <2>1. /\ user[u] = Idle /\ t \notin timers /\ UNCHANGED <<timers, tickled, signal, loop, wakeIn>>
        /\ user' = [user EXCEPT ![u] = [op |-> "insert", timer |-> t]]
        /\ \A s \in timers : left'[s] = left[s]
    BY <1>0, <1>1 DEF Make, waiting
  <2>2. \A s \in Timer : ~Tickling(u, s)
    BY <2>1, BusyShape DEF Tickling, Doing, Ops
  <2>3. \A v \in User, s \in Timer : v # u => (Tickling(v, s)' <=> Tickling(v, s))
    BY <2>1 DEF Tickling, Doing
  <2>4. WakeComing => WakeComing'
    BY <2>1, <2>2, <2>3 DEF WakeComing
  <2> QED
    BY <2>1, <2>4, <1>0, WakeKept
<1>2. ASSUME NEW u \in User, NEW t \in Timer, Insert(u, t) PROVE FlagIsHonest' /\ SleepsNoLonger'
  <2>1. /\ Doing(u, "insert", t) /\ Put(u, t, left[t], "added") /\ left' = [left EXCEPT ![t] = left[t]]
        /\ UNCHANGED <<loop, wakeIn, signal>>
    BY <1>0, <1>2 DEF Insert, waiting, TypeOK
  <2>2. \A s \in Timer : ~Tickling(u, s)
    BY <2>1, OneOp DEF Tickling, Ops
  <2> QED
    BY <1>0, <2>1, <2>2, WakePut
<1>3. ASSUME NEW u \in User, NEW t \in Timer, NEW ms \in Delay, NEW fromNow \in BOOLEAN,
             Reset(u, t, ms, fromNow)
      PROVE FlagIsHonest' /\ SleepsNoLonger'
  <2> DEFINE due == IF fromNow THEN ms ELSE AtLeast(left[t] - period[t] + ms, -MaxLag)
  <2>1. /\ user[u] = Idle /\ Put(u, t, due, "moved") /\ left' = [left EXCEPT ![t] = due]
        /\ UNCHANGED <<loop, wakeIn, signal>>
    BY <1>3 DEF Reset, waiting
  <2>2. due \in Int
    <3>1. ms \in Int /\ left[t] - period[t] + ms \in Int
      BY <1>0, Numbers
    <3> QED
      BY <3>1, AtLeastBounds, Numbers
  <2> HIDE DEF due
  <2>3. \A s \in Timer : ~Tickling(u, s)
    BY <2>1, BusyShape DEF Tickling, Doing, Ops
  <2> QED
    BY <2>1, <2>2, <2>3, WakePut
<1>4. ASSUME NEW u \in User, NEW t \in Timer, Tickle(u, t) PROVE FlagIsHonest' /\ SleepsNoLonger'
  BY <1>4 DEF Tickle, FlagIsHonest, SleepsNoLonger, WakeComing
<1>5. ASSUME NEW u \in User, NEW t \in Timer, Cancel(u, t) PROVE FlagIsHonest' /\ SleepsNoLonger'
  <2>1. /\ timers' = timers \ {t} /\ UNCHANGED <<user, tickled, signal, loop, wakeIn>>
        /\ left' = [left EXCEPT ![t] = 0]
    BY <1>5 DEF Cancel, waiting
  <2>2. \A s \in timers' : s \in timers /\ left'[s] = left[s]
    BY <2>1, <1>0 DEF TypeOK
  <2> QED
    BY <2>1, <2>2, <1>0, <1>a, WakeKept
<1>6. ASSUME NEW u \in User, NEW t \in Timer, Refresh(u, t) PROVE FlagIsHonest' /\ SleepsNoLonger'
  <2>1. /\ UNCHANGED <<timers, user, tickled, signal, loop, wakeIn>>
        /\ left' = [left EXCEPT ![t] = period[t]]
    BY <1>6 DEF Refresh, waiting
  <2>2. \A s \in timers : left'[s] >= left[s] /\ left'[s] \in Int
    BY <2>1, <1>0 DEF TypeOK, WakeInv, WithinPeriod
  <2> QED
    BY <2>1, <2>2, <1>a, WakeKept
<1>7. CASE GetNextTimer
  <2>1. PICK t \in timers : Nearest(left[t]) /\ wakeIn' = Timeout(left[t])
    BY <1>7 DEF GetNextTimer
  <2>2. UNCHANGED <<timers, left>> /\ tickled' = FALSE
    BY <1>7 DEF GetNextTimer
  <2>3. wakeIn' \in Int /\ wakeIn' <= AtLeast(left[t], 0) /\ (wakeIn' = Endless => left[t] >= IntRange)
    BY <1>0, <2>1, TimeoutRange, Numbers
  <2>4. \A s \in timers : left[s] >= left[t]
    BY <2>1 DEF Nearest
  <2>5. InTime'
    BY <1>0, <2>2, <2>3, <2>4 DEF AtLeast, InTime
  <2>6. wakeIn' = Endless => FarDelays # {}
    <3>1. left[t] <= period[t] /\ period[t] \in Delay
      BY <1>0, <2>1 DEF WakeInv, WithinPeriod, TypeOK
    <3>2. IntRange \in Int
      BY IntHoldsMaxWait
    <3> QED
      BY <1>0, <2>3, <3>1, <3>2 DEF FarDelays
  <2> QED
    BY <2>2, <2>5, <2>6 DEF FlagIsHonest, SleepsNoLonger
<1>8. CASE Stop \/ Wake \/ WakeForSocket \/ ListNothing \/ ListExpired
  <2>1. loop' # "waiting"
    BY <1>8 DEF Stop, Wake, WakeForSocket, WakeUp, ListNothing, ListExpired
  <2> QED
    BY <2>1 DEF FlagIsHonest, SleepsNoLonger
<1>9. ASSUME NEW t \in Timer, Run(t) PROVE FlagIsHonest' /\ SleepsNoLonger'
  <2>1. UNCHANGED <<timers, left, user, tickled, signal, loop, wakeIn>>
    BY <1>9 DEF Run, waiting
  <2> QED
    BY <2>1, <1>0, <1>a, WakeKept
<1>10. CASE Tick
  <2>1. /\ UNCHANGED <<timers, user, tickled, signal, loop>>
        /\ wakeIn' = IF wakeIn = Endless THEN Endless ELSE AtLeast(wakeIn - 1, 0)
        /\ \A t \in timers : left'[t] = AtLeast(left[t] - 1, -MaxLag)
    BY <1>0, <1>10 DEF Tick
  <2>2. wakeIn # Endless => wakeIn' # Endless /\ wakeIn' = AtLeast(wakeIn - 1, 0)
    BY <1>0, <2>1 DEF AtLeast, Endless
  <2>3. \A t \in timers : wakeIn # Endless /\ wakeIn <= AtLeast(left[t], 0) => wakeIn' <= AtLeast(left'[t], 0)
    BY <1>0, <2>1, <2>2, Numbers DEF AtLeast
  <2>4. wakeIn # Endless /\ InTime => InTime'
    BY <2>1, <2>3 DEF InTime
  <2>5. FlagIsHonest'
    BY <2>1, <1>a DEF WakeInv, FlagIsHonest
  <2>6. SleepsNoLonger'
    BY <2>1, <2>2, <2>4, <1>a DEF WakeInv, SleepsNoLonger
  <2> QED
    BY <2>5, <2>6
<1> QED
  BY <1>1, <1>2, <1>3, <1>4, <1>5, <1>6, <1>7, <1>8, <1>9, <1>10 DEF Next

(* With a clock that is never set back the loop never sleeps past a timer, *)
(* whichever threads add, move and cancel timers while it falls asleep,    *)
(* unless some delay is beyond an int: only then is a sleep without end.   *)
THEOREM NoWakeUpIsLost == ASSUME Jumps = {} PROVE Spec => []SleepsNoLonger
<1>1. WakeInv /\ [Next]_vars => WakeInv'
  <2> SUFFICES ASSUME WakeInv, [Next]_vars PROVE WakeInv'
    OBVIOUS
  <2>1. PlaceInv'
    BY PlaceStep DEF WakeInv
  <2>2. CASE Next
    BY <2>1, <2>2, PeriodStep, SleepStep DEF WakeInv, PlaceInv
  <2>3. CASE UNCHANGED vars
    BY <2>1, <2>3 DEF WakeInv, FlagIsHonest, WithinPeriod, SleepsNoLonger, InTime, WakeComing, Tickling,
                      Doing, vars, held, waiting
  <2> QED
    BY <2>2, <2>3
<1>2. WakeInv => SleepsNoLonger
  BY DEF WakeInv
<1> QED
  BY <1>1, <1>2, WakeInit, PTL DEF Spec
=============================================================================
