---------------------------- MODULE ResourcePool ----------------------------
(***************************************************************************)
(* What a pool of connections promises: every connection has one owner at  *)
(* a time, the pool or a client; it is opened into the pool, changes hands *)
(* between the pool and one client, and is closed only by the pool.        *)
(***************************************************************************)
CONSTANTS Client, Conn, Pool, Closed   \* Pool and Closed: owners that are no client

VARIABLE owner                         \* who owns each connection

Init == owner \in [Conn -> {Pool, Closed}]

Pass(k, from, to) == owner[k] = from /\ owner' = [owner EXCEPT ![k] = to]

Open(k) == Pass(k, Closed, Pool)
Acquire(c, k) == Pass(k, Pool, c)
Release(c, k) == Pass(k, c, Pool)
Close(S) ==
  /\ \A k \in S : owner[k] = Pool
  /\ owner' = [k \in Conn |-> IF k \in S THEN Closed ELSE owner[k]]

Next ==
  \/ \E k \in Conn : Open(k)
  \/ \E k \in Conn, c \in Client : Acquire(c, k) \/ Release(c, k)
  \/ \E S \in SUBSET Conn : Close(S)

Spec == Init /\ [][Next]_owner
=============================================================================
