------------------------------ MODULE OneShot ------------------------------
(***************************************************************************)
(* What EPOLLONESHOT and the reactors promise for each descriptor: it has  *)
(* one holder at a time.  The thread that accepted it hands it to epoll,   *)
(* epoll to the sub reactor, the sub reactor to the thread pool, the pool  *)
(* to one worker, and the worker gives it back to epoll or closes it.  Or  *)
(* the worker loses it, and nothing is promised of it any more.            *)
(***************************************************************************)
CONSTANT Fd
VARIABLE holder    \* "none", "acceptor", "epoll", "reactor", "pool", "worker" or "astray"

Init == holder = [f \in Fd |-> "none"]

Pass(f, from, to) == holder[f] = from /\ holder' = [holder EXCEPT ![f] = to]

\* One call of epoll_wait may report several descriptors.
Report(S) ==
  /\ \A f \in S : holder[f] = "epoll"
  /\ holder' = [f \in Fd |-> IF f \in S THEN "reactor" ELSE holder[f]]

Next ==
  \/ \E f \in Fd :
       \/ Pass(f, "none", "acceptor")
       \/ Pass(f, "acceptor", "epoll")
       \/ Pass(f, "reactor", "pool")
       \/ Pass(f, "pool", "worker")
       \/ Pass(f, "worker", "epoll")
       \/ Pass(f, "worker", "none")
       \/ Pass(f, "worker", "astray")
  \/ \E S \in SUBSET Fd : Report(S)

Spec == Init /\ [][Next]_holder
=============================================================================
