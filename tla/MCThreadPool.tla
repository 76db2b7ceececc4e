---------------------------- MODULE MCThreadPool ----------------------------
EXTENDS ThreadPool, TLC

Symmetry == Permutations(Slot) \cup Permutations(Task \ Forever)

(* A pool that has grown to Max for a burst of tasks, all finished and not   *)
(* named any more: a run that needs a surplus of workers starts here rather  *)
(* than repeat every way of growing.  Spec reaches this state, apart from    *)
(* the finished tasks, with four slots and three tasks.                      *)
AfterBurst ==
  /\ queue = <<>>
  /\ pc = [s \in Slot |-> "start"]
  /\ task = [s \in Slot |-> NoTask]
  /\ busyNum = 0 /\ aliveNum = Max /\ exitNum = 0 /\ shutdown = FALSE
  /\ call = [t \in Task |-> "new"]
  /\ done = {}
  /\ mpc = "sleep"
  /\ snap = [size |-> 1, live |-> 2, busy |-> 2]
  /\ dpc = "up" /\ sent = 0
BurstSpec == AfterBurst /\ [][Next]_vars

(* Open for as long as there are calls to come.  With three tasks: a pool    *)
(* that is destroyed has been given two at most, one that is never           *)
(* destroyed all of them.                                                    *)
OpenToTheLast == dpc = "up" \/ \E t \in Task : call[t] = "new"
OpenSpec == Init /\ [][Next /\ OpenToTheLast']_vars /\ Fairness
=============================================================================
