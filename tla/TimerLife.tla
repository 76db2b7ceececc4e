----------------------------- MODULE TimerLife -----------------------------
(***************************************************************************)
(* What a timer promises: it is armed once, as a one-shot or a recurring   *)
(* timer; a one-shot fires once and is dead, a recurring one fires again   *)
(* and again; a dead timer never comes back; every firing hands out one    *)
(* call of the callback, which is run later.                               *)
(***************************************************************************)
EXTENDS Naturals

CONSTANT Timer
VARIABLES life,    \* "new", "once" or "recurring" while armed, "dead"
          handed   \* callbacks handed out and not run yet

Init ==
  /\ life = [t \in Timer |-> "new"]
  /\ handed = [t \in Timer |-> 0]

Arm(t, kind) ==
  /\ life[t] = "new"
  /\ life' = [life EXCEPT ![t] = kind]
  /\ UNCHANGED handed

Disarm(t) ==
  /\ life[t] \in {"once", "recurring"}
  /\ life' = [life EXCEPT ![t] = "dead"]
  /\ UNCHANGED handed

Fire(S) ==
  /\ \A t \in S : life[t] \in {"once", "recurring"}
  /\ life' = [t \in Timer |-> IF t \in S /\ life[t] = "once" THEN "dead" ELSE life[t]]
  /\ handed' = [t \in Timer |-> IF t \in S THEN handed[t] + 1 ELSE handed[t]]

Run(t) ==
  /\ handed[t] > 0
  /\ handed' = [handed EXCEPT ![t] = @ - 1]
  /\ UNCHANGED life

Next ==
  \/ \E t \in Timer : Arm(t, "once") \/ Arm(t, "recurring") \/ Disarm(t) \/ Run(t)
  \/ \E S \in SUBSET Timer : Fire(S)

Spec == Init /\ [][Next]_<<life, handed>>
=============================================================================
