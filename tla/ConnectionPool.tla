--------------------------- MODULE ConnectionPool ---------------------------
(***************************************************************************)
(* The pool of MySQL connections (src/lyserver/src/db/base/                *)
(* connectionPool.cpp): clients take the front connection and give it back *)
(* at the end, a producer thread keeps m_minsize connections in the queue, *)
(* a recycler thread closes the ones that have been idle too long.         *)
(*                                                                         *)
(* Everything happens under m_mutexQ, and a wait releases it atomically,   *)
(* so each critical section is one action.  Ages are counted in steps of   *)
(* Tick and stop at MaxIdleTime: no code tells older ages apart.           *)
(***************************************************************************)
EXTENDS Integers, Sequences, FiniteSets

CONSTANTS
  Client,        \* the threads that run queries, one connection each at a time
  Conn,          \* identities for connections; a closed one may be used again
  MinSize,       \* m_minsize
  MaxIdleTime,   \* m_maxIdleTime
  Pool, Closed   \* owners of a connection that are no client

ASSUME SizesAreNat == MinSize \in Nat /\ MaxIdleTime \in Nat \ {0}
ASSUME FiniteWorld == IsFiniteSet(Client) /\ IsFiniteSet(Conn)
\* One identity for every connection that can be open at once (see TotalBound).
ASSUME EnoughConns == Cardinality(Conn) >= MinSize + Cardinality(Client)
ASSUME OwnersDiffer == Pool # Closed /\ {Pool, Closed} \cap Client = {}

VARIABLES
  queue,      \* m_connectionQ
  age,        \* how long ago each queued connection was last refreshed
  owner,      \* who has each connection
  client,     \* where each client is in getConnection
  producer,   \* the producer thread: about to test the size, or blocked
  started     \* the constructor got as far as starting the two threads

vars == <<queue, age, owner, client, producer, started>>

ClientPC == {"idle", "blocked", "woken", "holding"}

InQueue(k) == \E i \in DOMAIN queue : queue[i] = k
Open == {k \in Conn : owner[k] # Closed}
Expired(k) == age[k] >= MaxIdleTime

-----------------------------------------------------------------------------
\* The constructor opens MinSize connections and gives up at the first failure,
\* before it has started the threads.
Init ==
  /\ \E S \in SUBSET Conn :
       /\ Cardinality(S) <= MinSize
       /\ \E q \in [1..Cardinality(S) -> S] :
            /\ S = {q[i] : i \in DOMAIN q}
            /\ queue = q
       /\ owner = [k \in Conn |-> IF k \in S THEN Pool ELSE Closed]
       /\ started = (Cardinality(S) = MinSize)
  /\ age = [k \in Conn |-> 0]
  /\ client = [c \in Client |-> "idle"]
  /\ producer = "ready"

-----------------------------------------------------------------------------
(* getConnection *)

\* The queue is empty: wait_for gives up the mutex for at most m_timeout.
Wait(c) ==
  /\ client[c] \in {"idle", "woken"}
  /\ queue = <<>>
  /\ client' = [client EXCEPT ![c] = "blocked"]
  /\ UNCHANGED <<queue, age, owner, producer, started>>

\* Faulty variants of Take: the connection stays queued; the producer sleeps on.
TakeCopy(c) ==
  /\ client[c] \in {"idle", "woken"}
  /\ queue # <<>>
  /\ owner' = [owner EXCEPT ![Head(queue)] = c]
  /\ client' = [client EXCEPT ![c] = "holding"]
  /\ producer' = "ready"
  /\ UNCHANGED <<queue, age, started>>
TakeSilently(c) ==
  /\ client[c] \in {"idle", "woken"}
  /\ queue # <<>>
  /\ owner' = [owner EXCEPT ![Head(queue)] = c]
  /\ queue' = Tail(queue)
  /\ client' = [client EXCEPT ![c] = "holding"]
  /\ UNCHANGED <<age, producer, started>>

Take(c) ==
  /\ client[c] \in {"idle", "woken"}
  /\ queue # <<>>
  /\ owner' = [owner EXCEPT ![Head(queue)] = c]
  /\ queue' = Tail(queue)
  /\ client' = [client EXCEPT ![c] = "holding"]
  /\ producer' = "ready"                       \* m_produce_cond.notify_all
  /\ UNCHANGED <<age, started>>

\* Faulty variant: a wait without a timeout.
WaitWithoutEnd(c) ==
  /\ client[c] = "blocked" /\ FALSE
  /\ UNCHANGED vars

\* wait_for returns by itself, by its timeout or spuriously: either way the
\* loop tests the queue again.
WaitEnds(c) ==
  /\ client[c] = "blocked"
  /\ client' = [client EXCEPT ![c] = "woken"]
  /\ UNCHANGED <<queue, age, owner, producer, started>>

\* Faulty variant of GiveBack: the age is not refreshed.
GiveBackStale(c, k) ==
  /\ client[c] = "holding" /\ owner[k] = c
  /\ queue' = Append(queue, k)
  /\ owner' = [owner EXCEPT ![k] = Pool]
  /\ client' = [client EXCEPT ![c] = "idle"]
  /\ UNCHANGED <<age, producer, started>>

\* The deleter of the shared_ptr: refresh and push, nobody is notified.
GiveBack(c, k) ==
  /\ client[c] = "holding" /\ owner[k] = c
  /\ age' = [age EXCEPT ![k] = 0]
  /\ queue' = Append(queue, k)
  /\ owner' = [owner EXCEPT ![k] = Pool]
  /\ client' = [client EXCEPT ![c] = "idle"]
  /\ UNCHANGED <<producer, started>>

-----------------------------------------------------------------------------
(* produceConnection *)

WakeClients == [c \in Client |-> IF client[c] = "blocked" THEN "woken" ELSE client[c]]

ProducerRests ==
  /\ started /\ producer = "ready" /\ Len(queue) >= MinSize
  /\ producer' = "blocked"
  /\ UNCHANGED <<queue, age, owner, client, started>>

ProducerWakes ==                               \* a spurious wake-up
  /\ producer = "blocked"
  /\ producer' = "ready"
  /\ UNCHANGED <<queue, age, owner, client, started>>

\* Faulty variant: one connection too many.
ProduceOneMore(k) ==
  /\ started /\ producer = "ready" /\ Len(queue) <= MinSize
  /\ owner[k] = Closed
  /\ owner' = [owner EXCEPT ![k] = Pool]
  /\ age' = [age EXCEPT ![k] = 0]
  /\ queue' = Append(queue, k)
  /\ client' = WakeClients
  /\ UNCHANGED <<producer, started>>

ProduceOne(k) ==
  /\ started /\ producer = "ready" /\ Len(queue) < MinSize
  /\ owner[k] = Closed
  /\ owner' = [owner EXCEPT ![k] = Pool]
  /\ age' = [age EXCEPT ![k] = 0]
  /\ queue' = Append(queue, k)
  /\ client' = WakeClients
  /\ UNCHANGED <<producer, started>>

\* addConnection fails, its result is ignored, the clients are woken all the same.
ProduceFails ==
  /\ started /\ producer = "ready" /\ Len(queue) < MinSize
  /\ client' = WakeClients
  /\ UNCHANGED <<queue, age, owner, producer, started>>

-----------------------------------------------------------------------------
(* recycleConnection: close from the front while more than MinSize are     *)
(* queued and the front one is too old.                                    *)

Surplus == IF Len(queue) > MinSize THEN Len(queue) - MinSize ELSE 0
\* Faulty variant: the loop of line 118 is an "if".
IsRecycledOnce(n) ==
  n = IF Surplus > 0 THEN (IF Expired(queue[1]) THEN 1 ELSE 0) ELSE 0
IsRecycled(n) ==
  /\ n \in 0..Surplus
  /\ \A i \in 1..n : Expired(queue[i])
  /\ n < Surplus => ~Expired(queue[n + 1])

Recycle ==
  /\ started
  /\ \E n \in 0..Len(queue) :
       /\ IsRecycled(n)
       /\ queue' = SubSeq(queue, n + 1, Len(queue))
       /\ owner' = [k \in Conn |->
                      IF \E i \in 1..n : queue[i] = k THEN Closed ELSE owner[k]]
  /\ UNCHANGED <<age, client, producer, started>>

\* Time passes for the connections that wait in the queue.
Tick ==
  /\ age' = [k \in Conn |-> IF InQueue(k) /\ ~Expired(k) THEN age[k] + 1 ELSE age[k]]
  /\ UNCHANGED <<queue, owner, client, producer, started>>

-----------------------------------------------------------------------------
Next ==
  \/ \E c \in Client : Wait(c) \/ Take(c) \/ WaitEnds(c)
  \/ \E c \in Client, k \in Conn : GiveBack(c, k)
  \/ ProducerRests \/ ProducerWakes \/ ProduceFails
  \/ \E k \in Conn : ProduceOne(k)
  \/ Recycle \/ Tick

Spec == Init /\ [][Next]_vars

\* A client's query ends; a timed wait ends; a client inside getConnection that can
\* take a connection again and again takes one in the end; MySQL does not refuse
\* for ever.  No client has to ask for a connection.
Fairness ==
  /\ \A c \in Client :
       /\ WF_vars(\E k \in Conn : GiveBack(c, k))
       /\ WF_vars(WaitEnds(c))
       /\ SF_vars(client[c] = "woken" /\ Take(c))
  /\ SF_vars(\E k \in Conn : ProduceOne(k))
  /\ WF_vars(ProducerRests)

FairSpec == Spec /\ Fairness

-----------------------------------------------------------------------------
(* Type invariant. *)
TypeOK ==
  /\ queue \in Seq(Conn)
  /\ age \in [Conn -> 0..MaxIdleTime]
  /\ owner \in [Conn -> Client \cup {Pool, Closed}]
  /\ client \in [Client -> ClientPC]
  /\ producer \in {"ready", "blocked"}
  /\ started \in BOOLEAN

(* A connection the pool owns is in the queue exactly once, and no other   *)
(* is; a client inside a query has exactly one connection and no other     *)
(* client has any: no two threads share a MYSQL handle.                    *)
OneOwner ==
  /\ \A k \in Conn : InQueue(k) <=> owner[k] = Pool
  /\ \A i, j \in DOMAIN queue : queue[i] = queue[j] => i = j
  /\ \A c \in Client : client[c] = "holding" <=> \E k \in Conn : owner[k] = c
  /\ \A k, l \in Conn : owner[k] = owner[l] /\ owner[k] \in Client => k = l

(* The producer is blocked only while the queue is long enough: Take wakes *)
(* it, GiveBack need not, and Recycle never takes the queue below MinSize. *)
ProducerAwake == producer = "blocked" => Len(queue) >= MinSize

(* Nothing in the code looks at m_maxsize, but the producer adds only to a *)
(* short queue and a client holds one connection at a time, so this many   *)
(* are open at most.                                                       *)
TotalBound == Cardinality(Open) <= MinSize + Cardinality(Client)

(* The recycler stops at the first young connection.  That is right only   *)
(* because the queue is ordered by age, oldest first, so that after it has *)
(* run no connection beyond MinSize is too old (lines 118-129).            *)
OldestFirst == \A i, j \in DOMAIN queue : i < j => age[queue[i]] >= age[queue[j]]
RecycleLeavesNoOldSurplus ==
  [][Recycle => (Len(queue') <= MinSize \/ \A i \in DOMAIN queue' : ~Expired(queue'[i]))]_vars

(* A client that asks for a connection gets one once the two threads run,  *)
(* though GiveBack notifies nobody: the timeout of wait_for makes it look  *)
(* again.  Without the producer another client can take and give back the  *)
(* only connection for ever between two looks.                             *)
ClientServed ==
  \A c \in Client :
    (client[c] \in {"blocked", "woken"} /\ started) ~> client[c] = "holding"

-----------------------------------------------------------------------------
(* The pool implements exclusive ownership.                                *)
Ownership == INSTANCE ResourcePool
OwnershipSpec == Ownership!Spec
=============================================================================
