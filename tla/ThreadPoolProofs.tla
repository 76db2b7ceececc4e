-------------------------- MODULE ThreadPoolProofs --------------------------
(***************************************************************************)
(* Proofs about ThreadPool for any number of slots, any minimum and any    *)
(* set of tasks.  The counters are related to the sets of threads they     *)
(* count by lemmas on counting that are stated once, for functions.        *)
(***************************************************************************)
EXTENDS ThreadPool, FiniteSetTheorems, TLAPS

Where(f, X) == {s \in Slot : f[s] \in X}

-----------------------------------------------------------------------------
(* The slots where a function has a value of X are finitely many, at most  *)
(* Max.                                                                    *)
LEMMA CountBounds ==
  ASSUME NEW f, NEW X
  PROVE  /\ IsFiniteSet(Where(f, X))
         /\ Cardinality(Where(f, X)) \in 0..Max
<1>1. Where(f, X) \subseteq Slot
  BY DEF Where
<1>2. /\ IsFiniteSet(Where(f, X))
      /\ Cardinality(Where(f, X)) <= Cardinality(Slot)
  BY <1>1, SlotFinite, FS_Subset
<1> QED
  BY <1>2, SlotFinite, FS_CardinalityType DEF Max

(* Changing the function at one slot moves the count by one or not at all. *)
LEMMA CountEnter ==
  ASSUME NEW f \in [Slot -> WorkerPC], NEW s \in Slot, NEW v \in WorkerPC, NEW X,
         f[s] \notin X, v \in X
  PROVE  Cardinality(Where([f EXCEPT ![s] = v], X)) = Cardinality(Where(f, X)) + 1
<1>1. Where([f EXCEPT ![s] = v], X) = Where(f, X) \cup {s}
  BY DEF Where
<1>2. s \notin Where(f, X)
  BY DEF Where
<1> QED
  BY <1>1, <1>2, CountBounds, FS_AddElement

LEMMA CountLeave ==
  ASSUME NEW f \in [Slot -> WorkerPC], NEW s \in Slot, NEW v \in WorkerPC, NEW X,
         f[s] \in X, v \notin X
  PROVE  Cardinality(Where([f EXCEPT ![s] = v], X)) = Cardinality(Where(f, X)) - 1
<1>1. Where([f EXCEPT ![s] = v], X) = Where(f, X) \ {s}
  BY DEF Where
<1>2. s \in Where(f, X)
  BY DEF Where
<1> QED
  BY <1>1, <1>2, CountBounds, FS_RemoveElement

LEMMA CountKeep ==
  ASSUME NEW f \in [Slot -> WorkerPC], NEW s \in Slot, NEW v \in WorkerPC, NEW X,
         f[s] \in X <=> v \in X
  PROVE  Where([f EXCEPT ![s] = v], X) = Where(f, X)
BY DEF Where

(* Threads(X) is Where(pc, X), in this state and in the next.              *)
LEMMA ThreadsAreWhere ==
  ASSUME NEW X
  PROVE  Threads(X) = Where(pc, X)
BY DEF Threads, Where

-----------------------------------------------------------------------------
(* A worker holds a task exactly while it runs it.                         *)
HoldsTask == \A s \in Slot : IF pc[s] = "running" THEN task[s] \in Task ELSE task[s] = NoTask

PoolInv == TypeOK /\ HoldsTask /\ BusyCount /\ AliveCount /\ PoolBounds

LEMMA MinType == Min \in Nat /\ Max \in Nat /\ 1 <= Min /\ Min <= Max
BY MinBounds, SlotFinite, FS_CardinalityType DEF Max

(* A signal moves one thread from "waiting" to "woken" at most: no count   *)
(* and no task changes.                                                    *)
LEMMA SignalKeeps ==
  ASSUME TypeOK, Signal
  PROVE  /\ pc' \in [Slot -> WorkerPC]
         /\ Where(pc', Live) = Where(pc, Live)
         /\ Where(pc', {"running"}) = Where(pc, {"running"})
         /\ \A s \in Slot : pc'[s] = "running" <=> pc[s] = "running"
<1>1. CASE UNCHANGED pc
  BY <1>1 DEF TypeOK
<1>2. ASSUME NEW s \in Threads({"waiting"}), Goto(s, "woken")
      PROVE  /\ pc' \in [Slot -> WorkerPC]
             /\ Where(pc', Live) = Where(pc, Live)
             /\ Where(pc', {"running"}) = Where(pc, {"running"})
             /\ \A u \in Slot : pc'[u] = "running" <=> pc[u] = "running"
  BY <1>2 DEF TypeOK, Threads, Goto, Where, Live, WorkerPC
<1> QED
  BY <1>1, <1>2 DEF Signal

(* What a look at the queue under m_lock does to the counted sets.         *)
LEMMA TestQueueKeeps ==
  ASSUME PoolInv, NEW s \in Slot, pc[s] \in {"start", "woken"}, TestQueue(s)
  PROVE  /\ queue' \in Seq(Task)
         /\ pc' \in [Slot -> WorkerPC]
         /\ task' \in [Slot -> Task \cup {NoTask}]
         /\ HoldsTask'
         /\ busyNum' \in 0..Max /\ busyNum' = Cardinality(Where(pc', {"running"}))
         /\ \/ Where(pc', Live) = Where(pc, Live)
            \/ /\ shutdown
               /\ Cardinality(Where(pc', Live)) = Cardinality(Where(pc, Live)) - 1
<1> USE MinType DEF PoolInv
<1>a. busyNum = Cardinality(Where(pc, {"running"}))
  BY ThreadsAreWhere DEF BusyCount
<1>1. CASE FoundEmpty(s)
  <2>1. Where(pc', {"running"}) = Where(pc, {"running"})
    BY <1>1 DEF FoundEmpty, Goto, Where, TypeOK, WorkerPC
  <2>2. Where(pc', Live) = Where(pc, Live)
    BY <1>1 DEF FoundEmpty, Goto, Where, TypeOK, WorkerPC, Live
  <2>3. HoldsTask'
    BY <1>1 DEF FoundEmpty, Goto, TypeOK, HoldsTask
  <2> QED
    BY <1>a, <1>1, <2>1, <2>2, <2>3 DEF FoundEmpty, Goto, TypeOK, WorkerPC, Live
<1>2. CASE FoundShutdown(s)
  <2>1. Where(pc', {"running"}) = Where(pc, {"running"})
    BY <1>2 DEF FoundShutdown, Goto, Where, TypeOK, WorkerPC
  <2>2. Cardinality(Where(pc', Live)) = Cardinality(Where(pc, Live)) - 1
    <3>1. /\ pc \in [Slot -> WorkerPC] /\ pc[s] \in Live
          /\ pc' = [pc EXCEPT ![s] = "exiting"]
          /\ "exiting" \in WorkerPC /\ "exiting" \notin Live
      BY <1>2 DEF FoundShutdown, Goto, TypeOK, WorkerPC, Live
    <3> HIDE DEF PoolInv
    <3> QED
      BY <3>1, CountLeave
  <2>3. HoldsTask'
    BY <1>2 DEF FoundShutdown, Goto, TypeOK, HoldsTask
  <2> QED
    BY <1>a, <1>2, <2>1, <2>2, <2>3 DEF FoundShutdown, Goto, TypeOK, WorkerPC, Live
<1>3. CASE TakeTask(s)
  <2>1. Cardinality(Where(pc', {"running"})) = Cardinality(Where(pc, {"running"})) + 1
    <3>1. /\ pc \in [Slot -> WorkerPC] /\ pc[s] \notin {"running"}
          /\ pc' = [pc EXCEPT ![s] = "running"] /\ "running" \in WorkerPC
      BY <1>3 DEF TakeTask, Goto, TypeOK, WorkerPC, Live
    <3> HIDE DEF PoolInv
    <3> QED
      BY <3>1, CountEnter
  <2>2. Where(pc', Live) = Where(pc, Live)
    BY <1>3 DEF TakeTask, Goto, Where, TypeOK, WorkerPC, Live
  <2>3. Head(queue) \in Task /\ Tail(queue) \in Seq(Task)
    BY <1>3 DEF TakeTask, TypeOK
  <2>4. HoldsTask'
    BY <1>3, <2>3 DEF TakeTask, Goto, TypeOK, HoldsTask
  <2>5. busyNum' = Cardinality(Where(pc', {"running"})) /\ busyNum' \in 0..Max
    BY <1>a, <1>3, <2>1, CountBounds DEF TakeTask, TypeOK
  <2> QED
    BY <1>3, <2>2, <2>3, <2>4, <2>5 DEF TakeTask, Goto, TypeOK, WorkerPC, Live
<1> QED
  BY <1>1, <1>2, <1>3 DEF TestQueue

-----------------------------------------------------------------------------
LEMMA PoolInit == Init => PoolInv
<1> SUFFICES ASSUME Init PROVE PoolInv
  OBVIOUS
<1> USE MinType DEF Init
<1>2. PICK S \in SUBSET Slot :
        /\ Cardinality(S) = Min
        /\ pc = [s \in Slot |-> IF s \in S THEN "start" ELSE "none"]
  OBVIOUS
<1>3. Threads({"running"}) = {} /\ Threads(Live) = S
  BY <1>2 DEF Threads, Live
<1>1. TypeOK
  <2>1. pc \in [Slot -> WorkerPC]
    BY <1>2 DEF WorkerPC, Live
  <2>2. queue \in Seq(Task) /\ aliveNum \in 0..Max
    OBVIOUS
  <2>3. task \in [Slot -> Task \cup {NoTask}] /\ call \in [Task -> CallPC] /\ done \in SUBSET Task
    BY DEF CallPC
  <2>4. snap \in [size : Nat, live : 0..Max, busy : 0..Max]
    OBVIOUS
  <2> QED
    <3>1. busyNum \in 0..Max /\ exitNum \in 0..NUMBER /\ sent \in 0..Max
      BY DEF NUMBER
    <3>2. shutdown \in BOOLEAN
      OBVIOUS
    <3>3. mpc \in ManagerPC /\ dpc \in DtorPC
      BY DEF ManagerPC, DtorPC
    <3> HIDE DEF Init
    <3> QED
      BY <2>1, <2>2, <2>3, <2>4, <3>1, <3>2, <3>3 DEF TypeOK
<1>4. BusyCount /\ AliveCount
  BY <1>2, <1>3, FS_EmptySet DEF BusyCount, AliveCount
<1>5. HoldsTask
  BY <1>2 DEF HoldsTask
<1> QED
  BY <1>1, <1>4, <1>5 DEF PoolInv, PoolBounds

(* A step that leaves the counters, the threads and their tasks alone      *)
(* keeps the invariant if it keeps the types.                              *)
LEMMA PoolFrame ==
  ASSUME PoolInv, TypeOK', UNCHANGED <<pc, task, busyNum, aliveNum>>, shutdown => shutdown'
  PROVE  PoolInv'
<1>1. HoldsTask' /\ BusyCount' /\ PoolBounds'
  BY DEF PoolInv, HoldsTask, BusyCount, PoolBounds, Threads
<1>2. aliveNum' = aliveNum /\ Threads(Live)' = Threads(Live)
  BY DEF Threads
<1>3. AliveCount'
  BY <1>2, CountBounds, ThreadsAreWhere DEF PoolInv, AliveCount, TypeOK
<1> QED
  BY <1>1, <1>3 DEF PoolInv

(* A signal keeps the invariant, whoever sends it.                         *)
LEMMA PoolSignal ==
  ASSUME PoolInv, Signal, TypeOK', UNCHANGED <<task, busyNum, aliveNum, shutdown>>
  PROVE  PoolInv'
<1>1. /\ Where(pc', Live) = Where(pc, Live)
      /\ Where(pc', {"running"}) = Where(pc, {"running"})
      /\ \A s \in Slot : pc'[s] = "running" <=> pc[s] = "running"
  BY SignalKeeps DEF PoolInv
<1>2. HoldsTask'
  BY <1>1 DEF PoolInv, HoldsTask
<1>3. BusyCount' /\ AliveCount'
  BY <1>1 DEF PoolInv, BusyCount, AliveCount, Threads, Where
<1> QED
  BY <1>2, <1>3 DEF PoolInv, PoolBounds

LEMMA PoolAddTask ==
  ASSUME PoolInv, NEW t \in Task, AddTask(t)
  PROVE  PoolInv'
<1> USE DEF counters, managerVars, dtorVars
<1>1. CASE CheckOpen(t)
  <2>1. TypeOK'
    BY <1>1 DEF CheckOpen, PoolInv, TypeOK, CallPC
  <2> QED
    BY <1>1, <2>1, PoolFrame DEF CheckOpen
<1>2. CASE Push(t)
  <2>1. TypeOK'
    BY <1>2 DEF Push, PoolInv, TypeOK, CallPC
  <2> QED
    BY <1>2, <2>1, PoolFrame DEF Push
<1>3. CASE Notify(t)
  <2>1. TypeOK'
    BY <1>3, SignalKeeps DEF Notify, PoolInv, TypeOK, CallPC
  <2> QED
    BY <1>3, <2>1, PoolSignal DEF Notify
<1> QED
  BY <1>1, <1>2, <1>3 DEF AddTask

LEMMA PoolWorker ==
  ASSUME PoolInv, NEW s \in Slot, Worker(s)
  PROVE  PoolInv'
<1> USE MinType DEF counters, managerVars, dtorVars
<1>t. /\ TypeOK /\ HoldsTask
      /\ busyNum = Cardinality(Where(pc, {"running"}))
      /\ IF shutdown THEN aliveNum >= Cardinality(Where(pc, Live))
                     ELSE aliveNum = Cardinality(Where(pc, Live))
      /\ pc \in [Slot -> WorkerPC] /\ Cardinality(Where(pc, Live)) \in 0..Max
  BY ThreadsAreWhere, CountBounds DEF PoolInv, BusyCount, AliveCount, TypeOK
<1>1. ASSUME pc[s] \in {"start", "woken"}, TestQueue(s), exitNum' \in 0..NUMBER,
             UNCHANGED <<aliveNum, shutdown, call, done, managerVars, dtorVars>>
      PROVE  PoolInv'
  <2>1. /\ queue' \in Seq(Task)
        /\ pc' \in [Slot -> WorkerPC]
        /\ task' \in [Slot -> Task \cup {NoTask}]
        /\ HoldsTask'
        /\ busyNum' \in 0..Max /\ busyNum' = Cardinality(Where(pc', {"running"}))
        /\ \/ Where(pc', Live) = Where(pc, Live)
           \/ /\ shutdown
              /\ Cardinality(Where(pc', Live)) = Cardinality(Where(pc, Live)) - 1
    BY <1>1, TestQueueKeeps
  <2>2. TypeOK'
    BY <1>1, <1>t, <2>1 DEF TypeOK
  <2>3. BusyCount'
    BY <2>1 DEF BusyCount, Threads, Where
  <2>4. Threads(Live)' = Where(pc', Live)
    BY DEF Threads, Where
  <2>5. AliveCount'
    BY <1>1, <1>t, <2>1, <2>4 DEF AliveCount, TypeOK
  <2> QED
    BY <1>1, <2>1, <2>2, <2>3, <2>5 DEF PoolInv, PoolBounds
<1>2. CASE Enter(s)
  BY <1>1, <1>2, <1>t DEF Enter, TypeOK
<1>3. CASE Resume(s)
  <2>1. exitNum' \in 0..NUMBER
    BY <1>3, <1>t DEF Resume, TypeOK, NUMBER
  <2> QED
    BY <1>1, <1>3, <2>1 DEF Resume
<1>4. ASSUME NEW v \in WorkerPC, Goto(s, v), pc[s] # "running", v # "running",
             pc[s] \in Live <=> v \in Live,
             UNCHANGED <<queue, task, counters, shutdown, call, done, managerVars, dtorVars>>
      PROVE  PoolInv'
  <2>1. Where(pc', Live) = Where(pc, Live) /\ Where(pc', {"running"}) = Where(pc, {"running"})
    BY <1>4, <1>t DEF Goto, Where
  <2>2. TypeOK'
    BY <1>4, <1>t DEF TypeOK, Goto
  <2>3. HoldsTask'
    BY <1>4, <1>t DEF HoldsTask, Goto
  <2>4. BusyCount' /\ AliveCount'
    BY <1>4, <1>t, <2>1 DEF BusyCount, AliveCount, Threads, Where
  <2> QED
    BY <1>4, <2>2, <2>3, <2>4 DEF PoolInv, PoolBounds
<1>5. CASE CondWait(s)
  BY <1>4, <1>5 DEF CondWait, WorkerPC, Live
<1>6. CASE SpuriousWake(s)
  BY <1>4, <1>6 DEF SpuriousWake, WorkerPC, Live
<1>7. CASE ThreadExit(s)
  BY <1>4, <1>7 DEF ThreadExit, WorkerPC, Live
<1>8. CASE Retire(s)
  <2>1. /\ pc' = [pc EXCEPT ![s] = "exiting"] /\ pc[s] \in Live
        /\ "exiting" \in WorkerPC /\ "exiting" \notin Live
        /\ "exiting" \notin {"running"} /\ pc[s] \notin {"running"}
    BY <1>8 DEF Retire, Goto, WorkerPC, Live
  <2>2. Cardinality(Where(pc', Live)) = Cardinality(Where(pc, Live)) - 1
    BY <1>t, <2>1, CountLeave
  <2>3. Where(pc', {"running"}) = Where(pc, {"running"})
    BY <1>t, <2>1 DEF Where
  <2>4. aliveNum' \in Min..Max /\ exitNum' \in 0..NUMBER
    BY <1>8, <1>t DEF Retire, ToldToExit, TypeOK, NUMBER
  <2>5. TypeOK'
    BY <1>8, <1>t, <2>1, <2>4 DEF TypeOK, Retire
  <2>6. HoldsTask'
    BY <1>8, <1>t, <2>1 DEF HoldsTask, Retire
  <2>7. BusyCount'
    BY <1>8, <1>t, <2>3 DEF Retire, BusyCount, Threads, Where
  <2>8. Threads(Live)' = Where(pc', Live) /\ aliveNum' = aliveNum - 1 /\ shutdown' = shutdown
    BY <1>8 DEF Retire, Threads, Where
  <2>9. AliveCount'
    BY <1>t, <2>2, <2>8 DEF AliveCount, TypeOK
  <2> QED
    BY <2>4, <2>5, <2>6, <2>7, <2>9 DEF PoolInv, PoolBounds
<1>9. CASE Finish(s)
  <2>1. /\ pc' = [pc EXCEPT ![s] = "start"] /\ pc[s] \in {"running"}
        /\ "start" \in WorkerPC /\ "start" \notin {"running"}
        /\ pc[s] \in Live /\ "start" \in Live
    BY <1>9 DEF Finish, Goto, WorkerPC, Live
  <2>2. Cardinality(Where(pc', {"running"})) = Cardinality(Where(pc, {"running"})) - 1
    BY <1>t, <2>1, CountLeave
  <2>3. Where(pc', Live) = Where(pc, Live)
    BY <1>t, <2>1 DEF Where
  <2>4. busyNum' = Cardinality(Where(pc', {"running"})) /\ busyNum' \in 0..Max
    BY <1>9, <1>t, <2>2, CountBounds DEF Finish, TypeOK
  <2>5. task[s] \in Task
    BY <1>9, <1>t DEF Finish, HoldsTask
  <2>6. TypeOK'
    BY <1>9, <1>t, <2>1, <2>4, <2>5 DEF TypeOK, Finish
  <2>7. HoldsTask'
    BY <1>9, <1>t, <2>1 DEF HoldsTask, Finish, TypeOK
  <2>8. BusyCount' /\ AliveCount'
    BY <1>9, <1>t, <2>3, <2>4 DEF Finish, BusyCount, AliveCount, Threads, Where
  <2> QED
    BY <1>9, <2>6, <2>7, <2>8 DEF PoolInv, PoolBounds, Finish
<1> QED
  BY <1>2, <1>3, <1>5, <1>6, <1>7, <1>8, <1>9 DEF Worker

LEMMA PoolManager ==
  ASSUME PoolInv, Manager
  PROVE  PoolInv'
<1> USE MinType DEF counters, managerVars, dtorVars
<1>t. /\ TypeOK /\ HoldsTask
      /\ busyNum = Cardinality(Where(pc, {"running"}))
      /\ IF shutdown THEN aliveNum >= Cardinality(Where(pc, Live))
                     ELSE aliveNum = Cardinality(Where(pc, Live))
      /\ pc \in [Slot -> WorkerPC] /\ Cardinality(Where(pc, Live)) \in 0..Max
  BY ThreadsAreWhere, CountBounds DEF PoolInv, BusyCount, AliveCount, TypeOK
<1>1. CASE ManagerLook
  <2>1. TypeOK'
    BY <1>1, <1>t DEF ManagerLook, TypeOK, ManagerPC
  <2> QED
    BY <1>1, <2>1, PoolFrame DEF ManagerLook
<1>2. CASE ManagerCreate
  <2>1. PICK S \in SUBSET FreeSlots :
          /\ NewThreads(S)
          /\ pc' = [s \in Slot |-> IF s \in S THEN "start" ELSE pc[s]]
          /\ aliveNum' = aliveNum + Cardinality(S)
    BY <1>2 DEF ManagerCreate
  <2>2. S \subseteq Slot /\ IsFiniteSet(S) /\ Cardinality(S) \in Nat
        /\ Cardinality(S) <= Max - aliveNum
    BY <2>1, SlotFinite, FS_Subset, FS_CardinalityType DEF NewThreads, FreeSlots, Threads
  <2>3. Where(pc', Live) = Where(pc, Live) \cup S /\ Where(pc, Live) \cap S = {}
    BY <2>1, <1>t DEF Where, FreeSlots, Threads, Live
  <2>4. Cardinality(Where(pc', Live)) = Cardinality(Where(pc, Live)) + Cardinality(S)
    <3>1. IsFiniteSet(Where(pc, Live)) /\ Cardinality(Where(pc, Live)) \in 0..Max
      BY CountBounds
    <3>2. Cardinality(Where(pc, Live) \cap S) = 0
      BY <2>3, FS_EmptySet
    <3>3. Cardinality(Where(pc, Live) \cup S)
            = Cardinality(Where(pc, Live)) + Cardinality(S) - Cardinality(Where(pc, Live) \cap S)
      BY <2>2, <3>1, FS_Union
    <3> QED
      BY <2>2, <2>3, <3>1, <3>2, <3>3
  <2>5. Where(pc', {"running"}) = Where(pc, {"running"})
    BY <2>1, <1>t DEF Where, FreeSlots, Threads
  <2>6. aliveNum' \in Min..Max
    BY <2>1, <2>2 DEF PoolInv, PoolBounds, TypeOK
  <2>7. TypeOK'
    <3>1. pc' \in [Slot -> WorkerPC]
      BY <2>1, <1>t DEF WorkerPC, Live
    <3> QED
      BY <1>2, <1>t, <2>6, <3>1 DEF ManagerCreate, TypeOK, ManagerPC
  <2>8. HoldsTask'
    BY <1>2, <1>t, <2>1 DEF ManagerCreate, HoldsTask, FreeSlots, Threads
  <2>9. BusyCount'
    BY <1>2, <1>t, <2>5 DEF ManagerCreate, BusyCount, Threads, Where
  <2>10. Threads(Live)' = Where(pc', Live) /\ shutdown' = shutdown
    BY <1>2 DEF ManagerCreate, Threads, Where
  <2>11. AliveCount'
    BY <1>t, <2>1, <2>2, <2>4, <2>10 DEF AliveCount, TypeOK
  <2> QED
    BY <2>6, <2>7, <2>8, <2>9, <2>11 DEF PoolInv, PoolBounds
<1>3. CASE ManagerNoCreate \/ ManagerShrink \/ ManagerNoShrink
  <2>1. TypeOK'
    BY <1>3, <1>t DEF ManagerNoCreate, ManagerShrink, ManagerNoShrink, TypeOK, ManagerPC, NUMBER
  <2> QED
    BY <1>3, <2>1, PoolFrame DEF ManagerNoCreate, ManagerShrink, ManagerNoShrink
<1>4. CASE ManagerSignal
  <2>1. TypeOK'
    BY <1>4, <1>t, SignalKeeps DEF ManagerSignal, TypeOK, ManagerPC
  <2> QED
    BY <1>4, <2>1, PoolSignal DEF ManagerSignal
<1> QED
  BY <1>1, <1>2, <1>3, <1>4 DEF Manager

LEMMA PoolDtor ==
  ASSUME PoolInv, Dtor
  PROVE  PoolInv'
<1> USE DEF counters, managerVars, dtorVars
<1>1. CASE BeginShutdown
  <2>1. TypeOK'
    BY <1>1 DEF BeginShutdown, PoolInv, TypeOK, DtorPC
  <2> QED
    BY <1>1, <2>1, PoolFrame DEF BeginShutdown
<1>2. CASE JoinManager \/ Delete
  <2>1. TypeOK'
    BY <1>2 DEF JoinManager, Delete, PoolInv, TypeOK, DtorPC
  <2> QED
    BY <1>2, <2>1, PoolFrame DEF JoinManager, Delete
<1>3. CASE DtorSignal
  <2>1. sent' \in 0..Max
    BY <1>3, MinType DEF DtorSignal, PoolInv, TypeOK
  <2>2. TypeOK'
    BY <1>3, <2>1, SignalKeeps DEF DtorSignal, PoolInv, TypeOK
  <2> QED
    BY <1>3, <2>2, PoolSignal DEF DtorSignal
<1> QED
  BY <1>1, <1>2, <1>3 DEF Dtor

LEMMA PoolStep == PoolInv /\ [Next]_vars => PoolInv'
<1> SUFFICES ASSUME PoolInv, [Next]_vars PROVE PoolInv'
  OBVIOUS
<1>1. CASE UNCHANGED vars
  <2>1. TypeOK'
    BY <1>1 DEF PoolInv, TypeOK, vars, counters, managerVars, dtorVars
  <2> QED
    BY <1>1, <2>1, PoolFrame DEF vars, counters, managerVars, dtorVars
<1>2. CASE Next
  BY <1>2, PoolAddTask, PoolWorker, PoolManager, PoolDtor DEF Next
<1> QED
  BY <1>1, <1>2

LEMMA PoolInvariant == Spec => []PoolInv
BY PoolInit, PoolStep, PTL DEF Spec

(* Every state of the pool is well typed. *)
THEOREM PoolTypeOK == Spec => []TypeOK
<1>1. PoolInv => TypeOK
  BY DEF PoolInv
<1> QED
  BY <1>1, PoolInvariant, PTL

(* m_busyNum and m_aliveNum are the numbers of threads they stand for. *)
THEOREM PoolCounters == Spec => []CountersTrue
<1>1. PoolInv => CountersTrue
  BY DEF PoolInv, CountersTrue
<1> QED
  BY <1>1, PoolInvariant, PTL

(* The pool keeps between m_minNum and m_maxNum workers, whatever the age of *)
(* the counters its manager decides on.                                      *)
THEOREM PoolStaysInBounds == Spec => []PoolBounds
<1>1. PoolInv => PoolBounds
  BY DEF PoolInv
<1> QED
  BY <1>1, PoolInvariant, PTL
-----------------------------------------------------------------------------
(* Sequences without repetition, and what pushing and popping do to them.  *)
NoRepeat(q) == \A i, j \in DOMAIN q : q[i] = q[j] => i = j

LEMMA AppendElements ==
  ASSUME NEW q \in Seq(Task), NEW t \in Task, NoRepeat(q), t \notin Elements(q)
  PROVE  /\ Elements(Append(q, t)) = Elements(q) \cup {t}
         /\ NoRepeat(Append(q, t))
<1>1. /\ DOMAIN q = 1..Len(q) /\ DOMAIN Append(q, t) = 1..(Len(q) + 1) /\ Len(q) \in Nat
      /\ \A i \in 1..Len(q) : Append(q, t)[i] = q[i]
      /\ Append(q, t)[Len(q) + 1] = t
  OBVIOUS
<1>2. Elements(Append(q, t)) = Elements(q) \cup {t}
  <2>1. \A i \in 1..(Len(q) + 1) : i \in 1..Len(q) \/ i = Len(q) + 1
    BY <1>1
  <2>2. 1..Len(q) \subseteq 1..(Len(q) + 1) /\ Len(q) + 1 \in 1..(Len(q) + 1)
    BY <1>1
  <2> QED
    BY <1>1, <2>1, <2>2, Zenon DEF Elements
<1>3. NoRepeat(Append(q, t))
  BY <1>1 DEF Elements, NoRepeat
<1> QED
  BY <1>2, <1>3

LEMMA TailElements ==
  ASSUME NEW q \in Seq(Task), q # <<>>, NoRepeat(q)
  PROVE  /\ Head(q) \in Task /\ Tail(q) \in Seq(Task)
         /\ Elements(q) = Elements(Tail(q)) \cup {Head(q)}
         /\ Head(q) \notin Elements(Tail(q))
         /\ NoRepeat(Tail(q))
<1>1. /\ DOMAIN q = 1..Len(q) /\ DOMAIN Tail(q) = 1..(Len(q) - 1) /\ Len(q) \in Nat \ {0}
      /\ \A i \in 1..(Len(q) - 1) : Tail(q)[i] = q[i + 1]
      /\ Head(q) = q[1]
  OBVIOUS
<1>2. Elements(q) = Elements(Tail(q)) \cup {Head(q)}
  <2>1. ASSUME NEW i \in DOMAIN q PROVE q[i] \in Elements(Tail(q)) \cup {Head(q)}
    <3>1. CASE i = 1
      BY <1>1, <3>1
    <3>2. CASE i # 1
      <4>1. i - 1 \in DOMAIN Tail(q) /\ Tail(q)[i - 1] = q[i]
        BY <1>1, <3>2
      <4> QED
        BY <4>1 DEF Elements
    <3> QED
      BY <3>1, <3>2
  <2>2. ASSUME NEW i \in DOMAIN Tail(q) PROVE Tail(q)[i] \in Elements(q)
    <3>1. i + 1 \in DOMAIN q /\ Tail(q)[i] = q[i + 1]
      BY <1>1
    <3> QED
      BY <3>1 DEF Elements
  <2>3. Head(q) \in Elements(q)
    BY <1>1 DEF Elements
  <2> QED
    BY <2>1, <2>2, <2>3, Zenon DEF Elements
<1>3. Head(q) \notin Elements(Tail(q))
  BY <1>1 DEF NoRepeat, Elements
<1>4. NoRepeat(Tail(q))
  BY <1>1 DEF NoRepeat
<1> QED
  BY <1>2, <1>3, <1>4

-----------------------------------------------------------------------------
OnceInv == PoolInv /\ TaskOnce

LEMMA OnceInit == Init => OnceInv
<1> SUFFICES ASSUME Init PROVE TaskOnce
  BY PoolInit DEF OnceInv
<1>1. Threads({"running"}) = {} /\ InProgress = {}
  BY DEF Init, Threads, InProgress
<1>2. Elements(queue) = {} /\ DOMAIN queue = {} /\ Accepted = {} /\ done = {}
  BY DEF Init, Elements, Accepted
<1> QED
  BY <1>1, <1>2 DEF TaskOnce

(* Whatever else a step does, it keeps TaskOnce if it moves no task.       *)
LEMMA OnceFrame ==
  ASSUME TaskOnce, UNCHANGED <<queue, task, done>>, Accepted' = Accepted,
         Threads({"running"})' = Threads({"running"})
  PROVE  TaskOnce' /\ InProgress' = InProgress
<1>1. InProgress' = InProgress
  BY DEF InProgress
<1>2. Elements(queue)' = Elements(queue)
  BY DEF Elements
<1> QED
  BY <1>1, <1>2 DEF TaskOnce

(* The three kinds of step that move a task, each with the place the task  *)
(* comes from and the place it goes to.                                    *)
LEMMA OncePush ==
  ASSUME OnceInv, NEW t \in Task, Push(t)
  PROVE  TaskOnce' /\ InProgress' = InProgress /\ t \notin Accepted
<1>1. t \notin Accepted /\ Accepted' = Accepted \cup {t}
  BY DEF Push, OnceInv, PoolInv, TypeOK, Accepted
<1>2. Threads({"running"})' = Threads({"running"}) /\ InProgress' = InProgress /\ done' = done
  BY DEF Push, Threads, InProgress
<1>3. t \notin Elements(queue) /\ NoRepeat(queue) /\ queue \in Seq(Task)
  BY <1>1 DEF OnceInv, TaskOnce, NoRepeat, PoolInv, TypeOK
<1>4. Elements(queue)' = Elements(queue) \cup {t} /\ NoRepeat(queue')
  <2>1. queue' = Append(queue, t)
    BY DEF Push
  <2> QED
    BY <1>3, <2>1, AppendElements DEF Elements
<1>5. task' = task
  BY DEF Push
<1> QED
  BY <1>1, <1>2, <1>3, <1>4, <1>5 DEF OnceInv, TaskOnce, NoRepeat

LEMMA OnceTake ==
  ASSUME OnceInv, NEW s \in Slot, pc[s] # "running", TakeTask(s), UNCHANGED <<call, done>>
  PROVE  TaskOnce' /\ InProgress' = InProgress \cup {Head(queue)}
<1>1. /\ queue # <<>> /\ queue \in Seq(Task) /\ NoRepeat(queue)
      /\ pc \in [Slot -> WorkerPC] /\ task \in [Slot -> Task \cup {NoTask}]
  BY DEF TakeTask, OnceInv, PoolInv, TypeOK, TaskOnce, NoRepeat
<1>2. /\ Head(queue) \in Task
      /\ Elements(queue) = Elements(queue)' \cup {Head(queue)}
      /\ Head(queue) \notin Elements(queue)'
      /\ NoRepeat(queue')
  <2>1. queue' = Tail(queue)
    BY DEF TakeTask
  <2> QED
    BY <1>1, <2>1, TailElements DEF Elements
<1>3. Threads({"running"})' = Threads({"running"}) \cup {s} /\ s \notin Threads({"running"})
  BY <1>1 DEF TakeTask, Goto, Threads
<1>4. task'[s] = Head(queue) /\ \A r \in Slot \ {s} : task'[r] = task[r]
  BY <1>1 DEF TakeTask
<1>5. InProgress' = InProgress \cup {Head(queue)}
  BY <1>3, <1>4 DEF InProgress, Threads
<1>6. Accepted' = Accepted /\ done' = done
  BY DEF Accepted
<1>7. ASSUME NEW r \in Threads({"running"})', NEW u \in Threads({"running"})',
             task'[r] = task'[u]
      PROVE  r = u
  <2>1. \A w \in Threads({"running"}) : w \in Slot \ {s} /\ task'[w] = task[w] /\ task[w] \in InProgress
    BY <1>3, <1>4 DEF Threads, InProgress
  <2>2. Head(queue) \notin InProgress
    BY <1>2 DEF OnceInv, TaskOnce
  <2> QED
    BY <1>3, <1>4, <1>7, <2>1, <2>2 DEF OnceInv, TaskOnce
<1> QED
  BY <1>2, <1>5, <1>6, <1>7 DEF OnceInv, TaskOnce, NoRepeat

LEMMA OnceFinish ==
  ASSUME OnceInv, NEW s \in Slot, Finish(s)
  PROVE  /\ TaskOnce' /\ task[s] \in InProgress
         /\ InProgress' = InProgress \ {task[s]} /\ task[s] \in Task
<1>1. /\ pc \in [Slot -> WorkerPC] /\ task \in [Slot -> Task \cup {NoTask}] /\ task[s] \in Task
  BY DEF Finish, OnceInv, PoolInv, TypeOK, HoldsTask
<1>2. Threads({"running"})' = Threads({"running"}) \ {s} /\ s \in Threads({"running"})
  BY <1>1 DEF Finish, Goto, Threads
<1>3. \A r \in Slot \ {s} : task'[r] = task[r]
  BY <1>1 DEF Finish
<1>4. \A r \in Threads({"running"}) : task[r] = task[s] => r = s
  BY <1>2 DEF OnceInv, TaskOnce
<1>5. InProgress' = InProgress \ {task[s]} /\ task[s] \in InProgress
  BY <1>2, <1>3, <1>4 DEF InProgress, Threads
<1>6. /\ Accepted' = Accepted /\ Elements(queue)' = Elements(queue)
      /\ done' = done \cup {task[s]} /\ queue' = queue
  BY DEF Finish, Accepted, Elements
<1>7. ASSUME NEW r \in Threads({"running"})', NEW u \in Threads({"running"})',
             task'[r] = task'[u]
      PROVE  r = u
  BY <1>2, <1>3, <1>7 DEF OnceInv, TaskOnce, Threads
<1> QED
  BY <1>1, <1>5, <1>6, <1>7 DEF OnceInv, TaskOnce

(* No other step moves a task.                                             *)
TaskMoves == \/ \E t \in Task : Push(t)
             \/ \E s \in Slot : pc[s] # "running" /\ TakeTask(s) /\ UNCHANGED <<call, done>>
             \/ \E s \in Slot : Finish(s)

LEMMA OtherSteps ==
  ASSUME OnceInv, [Next]_vars, ~TaskMoves
  PROVE  TaskOnce' /\ InProgress' = InProgress /\ UNCHANGED <<queue, done>>
<1> USE DEF counters, managerVars, dtorVars
<1>t. TypeOK /\ pc \in [Slot -> WorkerPC] /\ call \in [Task -> CallPC] /\ TaskOnce
  BY DEF OnceInv, PoolInv, TypeOK
<1>1. ASSUME UNCHANGED <<queue, task, done>>, UNCHANGED call,
             Threads({"running"})' = Threads({"running"})
      PROVE  TaskOnce' /\ InProgress' = InProgress /\ UNCHANGED <<queue, done>>
  BY <1>1, <1>t, OnceFrame DEF Accepted
<1>2. ASSUME Signal PROVE Threads({"running"})' = Threads({"running"})
  BY <1>2, <1>t, SignalKeeps DEF Threads
<1>3. CASE UNCHANGED vars
  BY <1>1, <1>3 DEF vars, Threads
<1>4. ASSUME NEW t \in Task, AddTask(t)
      PROVE  TaskOnce' /\ InProgress' = InProgress /\ UNCHANGED <<queue, done>>
  <2>1. CASE CheckOpen(t)
    <3>1. Accepted' = Accepted
      BY <2>1, <1>t DEF CheckOpen, Accepted
    <3>2. UNCHANGED <<queue, task, done>> /\ Threads({"running"})' = Threads({"running"})
      BY <2>1 DEF CheckOpen, Threads
    <3> QED
      BY <3>1, <3>2, <1>t, OnceFrame
  <2>2. CASE Notify(t)
    <3>1. Accepted' = Accepted
      BY <2>2, <1>t DEF Notify, Accepted
    <3>2. UNCHANGED <<queue, task, done>> /\ Threads({"running"})' = Threads({"running"})
      BY <2>2, <1>2 DEF Notify
    <3> QED
      BY <3>1, <3>2, <1>t, OnceFrame
  <2> QED
    BY <1>4, <2>1, <2>2 DEF AddTask, TaskMoves
<1>5. ASSUME NEW s \in Slot, Worker(s)
      PROVE  TaskOnce' /\ InProgress' = InProgress /\ UNCHANGED <<queue, done>>
  <2>1. ASSUME NEW v \in WorkerPC, Goto(s, v), v # "running", pc[s] # "running",
               UNCHANGED <<queue, task, done, call>>
        PROVE  TaskOnce' /\ InProgress' = InProgress /\ UNCHANGED <<queue, done>>
    <3>1. Threads({"running"})' = Threads({"running"})
      BY <2>1, <1>t DEF Goto, Threads
    <3> QED
      BY <1>1, <2>1, <3>1
  <2>2. CASE Enter(s) \/ Resume(s)
    <3>1. FoundEmpty(s) \/ FoundShutdown(s)
      BY <2>2 DEF Enter, Resume, TestQueue, TaskMoves
    <3>2. pc[s] # "running" /\ UNCHANGED <<queue, task, done, call>>
      BY <2>2, <3>1 DEF Enter, Resume, FoundEmpty, FoundShutdown
    <3> QED
      BY <2>1, <3>1, <3>2 DEF FoundEmpty, FoundShutdown, WorkerPC, Live
  <2>3. CASE CondWait(s) \/ SpuriousWake(s) \/ Retire(s) \/ ThreadExit(s)
    BY <2>1, <2>3 DEF CondWait, SpuriousWake, Retire, ThreadExit, WorkerPC, Live
  <2> QED
    BY <1>5, <2>2, <2>3 DEF Worker, TaskMoves
<1>6. CASE Manager
  <2>1. CASE ManagerCreate
    <3>1. Threads({"running"})' = Threads({"running"})
      <4>1. PICK S \in SUBSET FreeSlots :
              pc' = [s \in Slot |-> IF s \in S THEN "start" ELSE pc[s]]
        BY <2>1 DEF ManagerCreate
      <4> QED
        BY <4>1, <1>t DEF Threads, FreeSlots
    <3> QED
      BY <1>1, <2>1, <3>1 DEF ManagerCreate
  <2>2. CASE ManagerSignal
    BY <1>1, <1>2, <2>2 DEF ManagerSignal
  <2>3. CASE ManagerLook \/ ManagerNoCreate \/ ManagerShrink \/ ManagerNoShrink
    BY <1>1, <2>3 DEF ManagerLook, ManagerNoCreate, ManagerShrink, ManagerNoShrink, Threads
  <2> QED
    BY <1>6, <2>1, <2>2, <2>3 DEF Manager
<1>7. CASE Dtor
  <2>1. CASE DtorSignal
    BY <1>1, <1>2, <2>1 DEF DtorSignal
  <2>2. CASE BeginShutdown \/ JoinManager \/ Delete
    BY <1>1, <2>2 DEF BeginShutdown, JoinManager, Delete, Threads
  <2> QED
    BY <1>7, <2>1, <2>2 DEF Dtor
<1> QED
  BY <1>3, <1>4, <1>5, <1>6, <1>7 DEF Next

LEMMA OnceStep == OnceInv /\ [Next]_vars => OnceInv'
<1> SUFFICES ASSUME OnceInv, [Next]_vars PROVE TaskOnce'
  BY PoolStep DEF OnceInv
<1> QED
  BY OncePush, OnceTake, OnceFinish, OtherSteps DEF TaskMoves

(* Every accepted task is in exactly one place: no task is lost or run twice. *)
THEOREM PoolTaskOnce == Spec => []TaskOnce
<1>1. OnceInv => TaskOnce
  BY DEF OnceInv
<1> QED
  BY <1>1, OnceInit, OnceStep, PTL DEF Spec

-----------------------------------------------------------------------------
(* The pool has room for one more task when a worker is not running.       *)
LEMMA RoomToStart ==
  ASSUME OnceInv, NEW s \in Slot, pc[s] # "running"
  PROVE  Cardinality(InProgress) < Max
<1>1. Threads({"running"}) \subseteq Slot \ {s}
  BY DEF Threads
<1>2. IsFiniteSet(Slot \ {s}) /\ Cardinality(Slot \ {s}) = Max - 1
  BY SlotFinite, FS_RemoveElement DEF Max
<1>3. /\ IsFiniteSet(Threads({"running"}))
      /\ Cardinality(Threads({"running"})) <= Max - 1
  BY <1>1, <1>2, FS_Subset
<1>4. /\ IsFiniteSet(InProgress)
      /\ Cardinality(InProgress) <= Cardinality(Threads({"running"}))
  <2> DEFINE f == [w \in Threads({"running"}) |-> task[w]]
  <2>1. f \in Surjection(Threads({"running"}), InProgress)
    BY DEF InProgress, Surjection
  <2> QED
    BY <1>3, <2>1, FS_Surjection
<1> QED
  BY <1>3, <1>4, MinType, FS_CardinalityType

(* The executor counts with the same operator.                             *)
LEMMA SameCount == ASSUME NEW S PROVE Executor!Cardinality(S) = Cardinality(S)
BY DEF Executor!Cardinality, Cardinality

(* Every step of the pool is a step of the executor or changes nothing the *)
(* executor sees.                                                          *)
LEMMA ExecutorStep == OnceInv /\ [Next]_vars => [Executor!Next]_(Executor!execVars)
<1> SUFFICES ASSUME OnceInv, [Next]_vars PROVE [Executor!Next]_(Executor!execVars)
  OBVIOUS
<1>1. ASSUME NEW t \in Task, Push(t) PROVE Executor!Accept(t)
  <2>1. t \notin Executor!Known
    BY <1>1, OncePush DEF OnceInv, TaskOnce, Executor!Known, Elements
  <2>2. InProgress' = InProgress
    BY <1>1, OncePush
  <2> QED
    BY <1>1, <2>1, <2>2 DEF Push, Executor!Accept
<1>2. ASSUME NEW s \in Slot, pc[s] # "running", TakeTask(s), UNCHANGED <<call, done>>
      PROVE  Executor!Start
  <2>1. InProgress' = InProgress \cup {Head(queue)} /\ Cardinality(InProgress) < Max
    BY <1>2, OnceTake, RoomToStart
  <2>2. queue # <<>> /\ queue' = Tail(queue) /\ done' = done
    BY <1>2 DEF TakeTask
  <2> QED
    BY <2>1, <2>2, SameCount DEF Executor!Start
<1>3. ASSUME NEW s \in Slot, Finish(s) PROVE \E t \in Task : Executor!Complete(t)
  BY <1>3, OnceFinish DEF Finish, Executor!Complete
<1>4. CASE TaskMoves
  BY <1>1, <1>2, <1>3, <1>4 DEF TaskMoves, Executor!Next
<1>5. CASE ~TaskMoves
  BY <1>5, OtherSteps DEF Executor!execVars
<1> QED
  BY <1>4, <1>5

(* The pool implements the executor: accepted tasks start in the order they *)
(* were accepted, at most Max at a time, and a finished one never again.    *)
THEOREM PoolImplementsExecutor == Spec => ExecutorSpec
<1>1. Init => Executor!Init
  BY DEF Init, Executor!Init, InProgress, Threads
<1> QED
  BY <1>1, OnceInit, OnceStep, ExecutorStep, PTL DEF Spec, ExecutorSpec, Executor!Spec
=============================================================================
