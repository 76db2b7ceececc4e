---------------------------- MODULE TaskExecutor ----------------------------
(***************************************************************************)
(* What a worker pool promises to the callers of addTask, without threads, *)
(* locks, signals or counters: a task accepted joins the end of a backlog, *)
(* tasks start in the order of the backlog, no more than Width of them   *)
(* run at a time, and a finished task is never run again.                  *)
(***************************************************************************)
EXTENDS Integers, Sequences, FiniteSets

CONSTANTS Task, Width

VARIABLES backlog, active, finished
execVars == <<backlog, active, finished>>

Known == {backlog[i] : i \in DOMAIN backlog} \cup active \cup finished

Init == backlog = <<>> /\ active = {} /\ finished = {}

Accept(t) ==
  /\ t \notin Known
  /\ backlog' = Append(backlog, t)
  /\ UNCHANGED <<active, finished>>

Start ==
  /\ backlog # <<>> /\ Cardinality(active) < Width
  /\ active' = active \cup {Head(backlog)}
  /\ backlog' = Tail(backlog)
  /\ UNCHANGED finished

Complete(t) ==
  /\ t \in active
  /\ active' = active \ {t}
  /\ finished' = finished \cup {t}
  /\ UNCHANGED backlog

Next == Start \/ \E t \in Task : Accept(t) \/ Complete(t)

Spec == Init /\ [][Next]_execVars
=============================================================================
