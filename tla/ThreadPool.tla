----------------------------- MODULE ThreadPool -----------------------------
(***************************************************************************)
(* The worker pool of lyserver (src/lyserver/src/ThreadPool/ThreadPool.cpp) *)
(*                                                                         *)
(* Workers share a FIFO of tasks guarded by a read/write lock of its own   *)
(* and a set of counters guarded by m_lock.  addTask pushes and signals    *)
(* m_notEmpty WITHOUT m_lock, so its two steps interleave with a worker    *)
(* that has found the queue empty and has not yet entered                  *)
(* pthread_cond_wait.  That window is the control state "toWait", the only *)
(* one that holds m_lock from one step to the next: every other critical   *)
(* section of m_lock is one action, enabled while LockFree.                *)
(*                                                                         *)
(* A slot of m_threadIDs and the thread whose id it holds are one and the  *)
(* same here: pc[s] = "none" is the code's m_threadIDs[s] == 0.            *)
(***************************************************************************)
EXTENDS Integers, Sequences, FiniteSets

CONSTANTS
  Slot,      \* the elements of m_threadIDs, m_maxNum of them
  Min,       \* m_minNum
  Task,      \* the tasks ever handed to addTask, each handed over once
  Forever,   \* the tasks whose function never returns (SubReactor::subEventloop)
  NoTask

Max == Cardinality(Slot)          \* m_maxNum
NUMBER == 2
Slack == 3

ASSUME SlotFinite == IsFiniteSet(Slot)
ASSUME MinBounds == Min \in 1..Max
ASSUME TaskSets == Forever \subseteq Task /\ NoTask \notin Task

VARIABLES
  queue,       \* m_taskQ->m_queue
  pc,          \* where each worker thread is
  task,        \* the task each worker holds
  busyNum, aliveNum, exitNum, shutdown,
  call,        \* the progress of the addTask call of each task
  done,        \* the tasks whose function has returned
  mpc, snap,   \* the manager thread and its unlocked copies of the counters
  dpc, sent    \* the destructor and the signals it has sent

counters == <<busyNum, aliveNum, exitNum>>
managerVars == <<mpc, snap>>
dtorVars == <<dpc, sent>>
vars == <<queue, pc, task, counters, shutdown, call, done, managerVars, dtorVars>>

-----------------------------------------------------------------------------
Live == {"start", "toWait", "waiting", "woken", "running"}
WorkerPC == Live \cup {"exiting", "none"}
CallPC == {"new", "checked", "pushed", "returned", "refused"}
ManagerPC == {"sleep", "create", "surplus", "signal1", "signal2", "done"}
DtorPC == {"up", "join", "signal", "deleted"}

Threads(states) == {s \in Slot : pc[s] \in states}

\* m_lock is held across steps only between the test of line 114 and line 117.
LockFree == \A s \in Slot : pc[s] # "toWait"

Elements(q) == {q[i] : i \in DOMAIN q}

\* The object exists: nothing is modelled after the destructor has returned.
Up == dpc # "deleted"

Goto(s, state) == pc' = [pc EXCEPT ![s] = state]

\* pthread_cond_signal: one of the waiting threads, if any, becomes runnable.
Signal ==
  \/ \E s \in Threads({"waiting"}) : Goto(s, "woken")
  \/ Threads({"waiting"}) = {} /\ UNCHANGED pc

-----------------------------------------------------------------------------
\* The constructor has returned: Min workers and the manager exist.
Init ==
  /\ queue = <<>>
  /\ \E S \in SUBSET Slot :
       /\ Cardinality(S) = Min
       /\ pc = [s \in Slot |-> IF s \in S THEN "start" ELSE "none"]
  /\ task = [s \in Slot |-> NoTask]
  /\ busyNum = 0 /\ aliveNum = Min /\ exitNum = 0 /\ shutdown = FALSE
  /\ call = [t \in Task |-> "new"]
  /\ done = {}
  /\ mpc = "sleep" /\ snap = [size |-> 0, live |-> 0, busy |-> 0]
  /\ dpc = "up" /\ sent = 0

-----------------------------------------------------------------------------
(* addTask: the unlocked test of m_shutdown, the push under the queue's    *)
(* own lock, the signal.                                                   *)

CheckOpen(t) ==
  /\ call[t] = "new"
  /\ call' = [call EXCEPT ![t] = IF shutdown THEN "refused" ELSE "checked"]
  /\ UNCHANGED <<queue, pc, task, counters, shutdown, done, managerVars, dtorVars>>

Push(t) ==
  /\ call[t] = "checked"
  /\ queue' = Append(queue, t)
  /\ call' = [call EXCEPT ![t] = "pushed"]
  /\ UNCHANGED <<pc, task, counters, shutdown, done, managerVars, dtorVars>>

Notify(t) ==
  /\ call[t] = "pushed"
  /\ Signal
  /\ call' = [call EXCEPT ![t] = "returned"]
  /\ UNCHANGED <<queue, task, counters, shutdown, done, managerVars, dtorVars>>

-----------------------------------------------------------------------------
(* worker: the three ways out of the test of the loop of line 114, taken   *)
(* with m_lock held.                                                       *)

FoundEmpty(s) ==
  /\ queue = <<>> /\ ~shutdown
  /\ Goto(s, "toWait")
  /\ UNCHANGED <<queue, task, busyNum>>

FoundShutdown(s) ==
  /\ shutdown
  /\ Goto(s, "exiting")
  /\ UNCHANGED <<queue, task, busyNum>>

\* Faulty variants of TakeTask: the task stays queued; the last task is taken.
TakeTaskKeepsIt(s) ==
  /\ queue # <<>> /\ ~shutdown
  /\ task' = [task EXCEPT ![s] = Head(queue)]
  /\ busyNum' = busyNum + 1
  /\ Goto(s, "running")
  /\ UNCHANGED queue
TakeTaskLast(s) ==
  /\ queue # <<>> /\ ~shutdown
  /\ task' = [task EXCEPT ![s] = queue[Len(queue)]]
  /\ queue' = SubSeq(queue, 1, Len(queue) - 1)
  /\ busyNum' = busyNum + 1
  /\ Goto(s, "running")

TakeTask(s) ==
  /\ queue # <<>> /\ ~shutdown
  /\ task' = [task EXCEPT ![s] = Head(queue)]
  /\ queue' = Tail(queue)
  /\ busyNum' = busyNum + 1
  /\ Goto(s, "running")

TestQueue(s) == FoundEmpty(s) \/ FoundShutdown(s) \/ TakeTask(s)

\* A worker reaches line 112 and takes m_lock.
Enter(s) ==
  /\ pc[s] = "start" /\ LockFree
  /\ TestQueue(s)
  /\ UNCHANGED <<aliveNum, exitNum, shutdown, call, done, managerVars, dtorVars>>

\* pthread_cond_wait releases m_lock and blocks.
CondWait(s) ==
  /\ pc[s] = "toWait"
  /\ Goto(s, "waiting")
  /\ UNCHANGED <<queue, task, counters, shutdown, call, done, managerVars, dtorVars>>

\* POSIX lets a wait return without a signal.
SpuriousWake(s) ==
  /\ pc[s] = "waiting"
  /\ Goto(s, "woken")
  /\ UNCHANGED <<queue, task, counters, shutdown, call, done, managerVars, dtorVars>>

\* Faulty variant: the test of line 123 is missing.
ToldToExitUnchecked == exitNum > 0

ToldToExit == exitNum > 0 /\ aliveNum > Min

\* A woken worker has m_lock again and stays: it tests the queue once more.
Resume(s) ==
  /\ pc[s] = "woken" /\ LockFree /\ ~ToldToExit
  /\ exitNum' = IF exitNum > 0 THEN exitNum - 1 ELSE 0
  /\ TestQueue(s)
  /\ UNCHANGED <<aliveNum, shutdown, call, done, managerVars, dtorVars>>

\* Faulty variant: line 125 is missing.
RetireUncounted(s) ==
  /\ pc[s] = "woken" /\ LockFree /\ ToldToExit
  /\ exitNum' = exitNum - 1
  /\ Goto(s, "exiting")
  /\ UNCHANGED <<queue, task, busyNum, aliveNum, shutdown, call, done, managerVars, dtorVars>>

\* A woken worker finds it has to go, whatever it was woken for.
Retire(s) ==
  /\ pc[s] = "woken" /\ LockFree /\ ToldToExit
  /\ exitNum' = exitNum - 1
  /\ aliveNum' = aliveNum - 1
  /\ Goto(s, "exiting")
  /\ UNCHANGED <<queue, task, busyNum, shutdown, call, done, managerVars, dtorVars>>

\* threadExit clears the slot, without m_lock.
ThreadExit(s) ==
  /\ pc[s] = "exiting"
  /\ Goto(s, "none")
  /\ UNCHANGED <<queue, task, counters, shutdown, call, done, managerVars, dtorVars>>

\* Faulty variant: the worker blocks before it has looked at the queue.
FinishThenWait(s) ==
  /\ pc[s] = "running" /\ LockFree
  /\ task[s] \notin Forever
  /\ done' = done \cup {task[s]}
  /\ task' = [task EXCEPT ![s] = NoTask]
  /\ busyNum' = busyNum - 1
  /\ Goto(s, "waiting")
  /\ UNCHANGED <<queue, aliveNum, exitNum, shutdown, call, managerVars, dtorVars>>

\* The task's function returns and the worker leaves the busy count.
Finish(s) ==
  /\ pc[s] = "running" /\ LockFree
  /\ task[s] \notin Forever
  /\ done' = done \cup {task[s]}
  /\ task' = [task EXCEPT ![s] = NoTask]
  /\ busyNum' = busyNum - 1
  /\ Goto(s, "start")
  /\ UNCHANGED <<queue, aliveNum, exitNum, shutdown, call, managerVars, dtorVars>>

-----------------------------------------------------------------------------
(* manager: every second one look at the counters under m_lock, then       *)
(* decisions taken on the copies after m_lock has been released.           *)

ManagerLook ==
  /\ mpc = "sleep" /\ LockFree
  /\ snap' = [size |-> Len(queue), live |-> aliveNum, busy |-> busyNum]
  /\ mpc' = "create"
  /\ UNCHANGED <<queue, pc, task, counters, shutdown, call, done, dtorVars>>

\* Faulty variant: busy workers are taken for idle ones.
BacklogOfAll == snap.size > snap.live /\ snap.live < Max

Backlog == snap.size > snap.live - snap.busy /\ snap.live < Max
Surplus == snap.busy + Slack < snap.live /\ snap.live > Min

FreeSlots == Threads({"none"})
NewThreads(S) ==
  /\ S \subseteq FreeSlots
  /\ Cardinality(S) <= NUMBER /\ Cardinality(S) <= Max - aliveNum
  /\ \/ S = FreeSlots
     \/ Cardinality(S) \in {NUMBER, Max - aliveNum}

ManagerCreate ==
  /\ mpc = "create" /\ Backlog /\ LockFree
  /\ \E S \in SUBSET FreeSlots :
       /\ NewThreads(S)
       /\ pc' = [s \in Slot |-> IF s \in S THEN "start" ELSE pc[s]]
       /\ aliveNum' = aliveNum + Cardinality(S)
  /\ mpc' = "surplus"
  /\ UNCHANGED <<queue, task, busyNum, exitNum, shutdown, call, done, snap, dtorVars>>

ManagerNoCreate ==
  /\ mpc = "create" /\ ~Backlog
  /\ mpc' = "surplus"
  /\ UNCHANGED <<queue, pc, task, counters, shutdown, call, done, snap, dtorVars>>

ManagerShrink ==
  /\ mpc = "surplus" /\ Surplus /\ LockFree
  /\ exitNum' = NUMBER
  /\ mpc' = "signal1"
  /\ UNCHANGED <<queue, pc, task, busyNum, aliveNum, shutdown, call, done, snap, dtorVars>>

\* Faulty variant: the manager's loop does not test m_shutdown.
ManagerNeverEnds ==
  /\ mpc = "surplus" /\ ~Surplus
  /\ mpc' = "sleep"
  /\ UNCHANGED <<queue, pc, task, counters, shutdown, call, done, snap, dtorVars>>

ManagerNoShrink ==
  /\ mpc = "surplus" /\ ~Surplus
  /\ mpc' = IF shutdown THEN "done" ELSE "sleep"
  /\ UNCHANGED <<queue, pc, task, counters, shutdown, call, done, snap, dtorVars>>

ManagerSignal ==
  /\ mpc \in {"signal1", "signal2"}
  /\ Signal
  /\ mpc' = IF mpc = "signal1" THEN "signal2" ELSE IF shutdown THEN "done" ELSE "sleep"
  /\ UNCHANGED <<queue, task, counters, shutdown, call, done, snap, dtorVars>>

-----------------------------------------------------------------------------
(* The destructor: no m_lock anywhere, one signal per live thread, and the *)
(* queue deleted without joining the workers.                              *)

BeginShutdown ==
  /\ dpc = "up"
  /\ shutdown' = TRUE
  /\ dpc' = "join"
  /\ UNCHANGED <<queue, pc, task, counters, call, done, managerVars, sent>>

JoinManager ==
  /\ dpc = "join" /\ mpc = "done"
  /\ dpc' = "signal"
  /\ UNCHANGED <<queue, pc, task, counters, shutdown, call, done, managerVars, sent>>

DtorSignal ==
  /\ dpc = "signal" /\ sent < aliveNum
  /\ Signal
  /\ sent' = sent + 1
  /\ UNCHANGED <<queue, task, counters, shutdown, call, done, managerVars, dpc>>

Delete ==
  /\ dpc = "signal" /\ sent >= aliveNum
  /\ dpc' = "deleted"
  /\ UNCHANGED <<queue, pc, task, counters, shutdown, call, done, managerVars, sent>>

-----------------------------------------------------------------------------
AddTask(t) == CheckOpen(t) \/ Push(t) \/ Notify(t)
Worker(s) ==
  \/ Enter(s) \/ CondWait(s) \/ SpuriousWake(s) \/ Resume(s) \/ Retire(s)
  \/ ThreadExit(s) \/ Finish(s)
Manager ==
  \/ ManagerLook \/ ManagerCreate \/ ManagerNoCreate
  \/ ManagerShrink \/ ManagerNoShrink \/ ManagerSignal
Dtor == BeginShutdown \/ JoinManager \/ DtorSignal \/ Delete

Next ==
  Up /\ (\/ \E t \in Task : AddTask(t)
         \/ \E s \in Slot : Worker(s)
         \/ Manager
         \/ Dtor)

Spec == Init /\ [][Next]_vars

\* A started addTask call runs to its end; a thread that wants m_lock gets it
\* in the end, for no thread keeps it (the manager sleeps a second between two
\* looks); no spurious wake-up, no new call and no shutdown is owed to anyone.
Fairness ==
  /\ \A t \in Task : WF_vars(Up /\ Push(t)) /\ WF_vars(Up /\ Notify(t))
  /\ \A s \in Slot :
       /\ WF_vars(Up /\ (CondWait(s) \/ ThreadExit(s)))
       /\ SF_vars(Up /\ (Enter(s) \/ Resume(s) \/ Retire(s) \/ Finish(s)))
  /\ SF_vars(Up /\ Manager)
  /\ WF_vars(Up /\ (JoinManager \/ DtorSignal \/ Delete))

FairSpec == Spec /\ Fairness

-----------------------------------------------------------------------------
(* Type invariant: what each variable can hold. *)
TypeOK ==
  /\ queue \in Seq(Task)
  /\ pc \in [Slot -> WorkerPC]
  /\ task \in [Slot -> Task \cup {NoTask}]
  /\ busyNum \in 0..Max /\ aliveNum \in 0..Max /\ exitNum \in 0..NUMBER
  /\ shutdown \in BOOLEAN
  /\ call \in [Task -> CallPC]
  /\ done \in SUBSET Task
  /\ mpc \in ManagerPC
  /\ snap \in [size : Nat, live : 0..Max, busy : 0..Max]
  /\ dpc \in DtorPC /\ sent \in 0..Max

(* The counters the manager decides on are those of the threads: m_busyNum *)
(* counts the workers inside a task and m_aliveNum, until the destructor   *)
(* starts, the threads that have not been told to exit (lines 125, 143,    *)
(* 155, 199 change them each under a separate hold of m_lock).             *)
BusyCount == busyNum = Cardinality(Threads({"running"}))
AliveCount == IF shutdown THEN aliveNum >= Cardinality(Threads(Live))
                          ELSE aliveNum = Cardinality(Threads(Live))

(* The manager decides on a stale copy of the counters, and m_exitNum may  *)
(* outlive the reason it was set for, yet the pool never has fewer workers *)
(* than m_minNum nor more than m_maxNum (tests of lines 123, 186, 193).    *)
PoolBounds == Min <= aliveNum /\ aliveNum <= Max

CountersTrue == BusyCount /\ AliveCount

(* Every task accepted is in exactly one place (queued, held by one worker *)
(* or finished), so none is lost and none runs twice, although the push is *)
(* made without m_lock and the pop with it.                                *)
Accepted == {t \in Task : call[t] \in {"pushed", "returned"}}
InProgress == {task[s] : s \in Threads({"running"})}
TaskOnce ==
  /\ Elements(queue) \cup InProgress \cup done = Accepted
  /\ Elements(queue) \cap InProgress = {}
  /\ (Elements(queue) \cup InProgress) \cap done = {}
  /\ \A i, j \in DOMAIN queue : queue[i] = queue[j] => i = j
  /\ \A r, s \in Threads({"running"}) : task[r] = task[s] => r = s

InQueue(t) == t \in Elements(queue)

(* A worker that has finished a task looks at the queue again before it    *)
(* blocks: while some worker is inside a task that returns, a queued task  *)
(* is taken whatever signals were lost, provided that no task queued ahead *)
(* of it is one that never returns and takes that worker away for good.    *)
Returning == InProgress \ Forever
AheadOf(t) == {u \in Task : \E i, j \in DOMAIN queue : i < j /\ queue[i] = u /\ queue[j] = t}
BusyWorkerDrains ==
  \A t \in Task :
    (InQueue(t) /\ Returning # {} /\ AheadOf(t) \cap Forever = {})
      ~> (~InQueue(t) \/ shutdown)

(* Workers held for ever by the event loops of the sub reactors do not     *)
(* starve the tasks behind them: while the pool may still grow the manager *)
(* notices and creates a worker that takes the task.                       *)
AllHeldForever == \A s \in Threads(Live) : pc[s] = "running" /\ task[s] \in Forever
StarvedPoolGrows ==
  \A t \in Task :
    (InQueue(t) /\ AllHeldForever /\ aliveNum < Max) ~> (~InQueue(t) \/ shutdown)

(* The destructor ends: the manager it joins leaves its loop and the count *)
(* of signals reaches the number of threads.                               *)
DtorReturns == shutdown ~> (dpc = "deleted")

(* "No lock is needed, the task queue has one" (comment of line 230): a    *)
(* task pushed while the pool is open is taken by some worker.             *)
EveryTaskTaken == \A t \in Task : InQueue(t) ~> (~InQueue(t) \/ shutdown)

-----------------------------------------------------------------------------
(* The pool implements an executor that runs every accepted task at most   *)
(* once, in the order accepted, on at most Max threads.                    *)
Executor == INSTANCE TaskExecutor WITH
  Width <- Max,
  backlog <- queue,
  active <- InProgress,
  finished <- done

ExecutorSpec == Executor!Spec
=============================================================================
