---------------------------- MODULE MCConnection ----------------------------
EXTENDS Connection, TLC

Symmetry == Permutations(Client) \cup Permutations(Fd) \cup Permutations(Worker)

\* Bound: what goes on once a slot is astray is its workers' last callbacks.
Fades ==
  /\ \A c \in Client : /\ peer[c] \in {"out", "waiting"} => peer'[c] = peer[c]
                       /\ unread'[c] <= unread[c]
  /\ \A f \in Fd : tasks'[f]["recvdata"] + tasks'[f]["senddata"] <= 1
  /\ UNCHANGED <<buffer, edge, accepts>>
BoundedSpec == Init /\ [][Next /\ (astray # {} => Fades)]_vars

\* ClientServed promises nothing once a slot is astray.
OrderlySpec == Init /\ [][Next /\ astray = {}]_vars /\ Fairness
=============================================================================
