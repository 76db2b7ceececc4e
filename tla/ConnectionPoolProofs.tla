------------------------ MODULE ConnectionPoolProofs ------------------------
(***************************************************************************)
(* Proofs about ConnectionPool for any sizes and any set of clients: the   *)
(* ownership of connections, the sleep of the producer, the order of ages  *)
(* and the number of open connections.                                     *)
(***************************************************************************)
EXTENDS ConnectionPool, FiniteSetTheorems, TLAPS

(* The shape of the queue after a push, a pop and a removal of a prefix.   *)
LEMMA PushShape ==
  ASSUME NEW q \in Seq(Conn), NEW k \in Conn
  PROVE  /\ Append(q, k) \in Seq(Conn) /\ Len(Append(q, k)) = Len(q) + 1
         /\ DOMAIN Append(q, k) = 1..(Len(q) + 1) /\ DOMAIN q = 1..Len(q) /\ Len(q) \in Nat
         /\ \A i \in 1..Len(q) : Append(q, k)[i] = q[i]
         /\ Append(q, k)[Len(q) + 1] = k
OBVIOUS

LEMMA DropShape ==
  ASSUME NEW q \in Seq(Conn), NEW n \in 0..Len(q)
  PROVE  LET r == SubSeq(q, n + 1, Len(q)) IN
         /\ r \in Seq(Conn) /\ Len(r) = Len(q) - n
         /\ DOMAIN r = 1..(Len(q) - n) /\ DOMAIN q = 1..Len(q) /\ Len(q) \in Nat
         /\ \A i \in 1..(Len(q) - n) : r[i] = q[i + n] /\ i + n \in 1..Len(q)
OBVIOUS

LEMMA TailShape ==
  ASSUME NEW q \in Seq(Conn), q # <<>>
  PROVE  /\ Head(q) = q[1] /\ Head(q) \in Conn /\ 1 \in DOMAIN q
         /\ Tail(q) \in Seq(Conn) /\ Len(Tail(q)) = Len(q) - 1
         /\ DOMAIN Tail(q) = 1..(Len(q) - 1) /\ DOMAIN q = 1..Len(q) /\ Len(q) \in Nat
         /\ \A i \in 1..(Len(q) - 1) : Tail(q)[i] = q[i + 1] /\ i + 1 \in 1..Len(q)
OBVIOUS

LEMMA SurplusRange == TypeOK => Surplus \in 0..Len(queue)
BY SizesAreNat DEF TypeOK, Surplus

-----------------------------------------------------------------------------
LEMMA TypeInit == Init => TypeOK
<1> SUFFICES ASSUME Init PROVE TypeOK
  OBVIOUS
<1>1. PICK S \in SUBSET Conn : /\ \E q \in [1..Cardinality(S) -> S] : queue = q
                               /\ owner = [k \in Conn |-> IF k \in S THEN Pool ELSE Closed]
                               /\ started = (Cardinality(S) = MinSize)
  BY DEF Init
<1>2. Cardinality(S) \in Nat
  BY FiniteWorld, FS_Subset, FS_CardinalityType
<1>3. queue \in Seq(Conn)
  BY <1>1, <1>2
<1>4. owner \in [Conn -> Client \cup {Pool, Closed}] /\ started \in BOOLEAN
  BY <1>1
<1>5. age \in [Conn -> 0..MaxIdleTime] /\ client \in [Client -> ClientPC] /\ producer \in {"ready", "blocked"}
  BY SizesAreNat DEF Init, ClientPC
<1> QED
  BY <1>3, <1>4, <1>5 DEF TypeOK

LEMMA TypeStep == TypeOK /\ [Next]_vars => TypeOK'
<1> SUFFICES ASSUME TypeOK, [Next]_vars PROVE TypeOK'
  OBVIOUS
<1> USE SizesAreNat
<1>0. CASE UNCHANGED vars
  BY <1>0 DEF TypeOK, vars
<1>1. ASSUME NEW c \in Client, Wait(c) \/ WaitEnds(c) PROVE TypeOK'
  BY <1>1 DEF TypeOK, Wait, WaitEnds, ClientPC
<1>2. ASSUME NEW c \in Client, Take(c) PROVE TypeOK'
  BY <1>2, TailShape DEF TypeOK, Take, ClientPC
<1>3. ASSUME NEW c \in Client, NEW k \in Conn, GiveBack(c, k) PROVE TypeOK'
  BY <1>3, PushShape DEF TypeOK, GiveBack, ClientPC
<1>4. CASE ProducerRests \/ ProducerWakes
  BY <1>4 DEF TypeOK, ProducerRests, ProducerWakes
<1>5. CASE ProduceFails
  BY <1>5 DEF TypeOK, ProduceFails, WakeClients, ClientPC
<1>6. ASSUME NEW k \in Conn, ProduceOne(k) PROVE TypeOK'
  BY <1>6, PushShape DEF TypeOK, ProduceOne, WakeClients, ClientPC
<1>7. CASE Recycle
  <2>1. PICK n \in 0..Len(queue) :
          /\ queue' = SubSeq(queue, n + 1, Len(queue))
          /\ owner' = [k \in Conn |->
                         IF \E i \in 1..n : queue[i] = k THEN Closed ELSE owner[k]]
    BY <1>7 DEF Recycle
  <2>2. queue' \in Seq(Conn)
    BY <2>1, DropShape DEF TypeOK
  <2>3. owner' \in [Conn -> Client \cup {Pool, Closed}]
    BY <2>1 DEF TypeOK
  <2> QED
    BY <1>7, <2>2, <2>3 DEF TypeOK, Recycle
<1>8. CASE Tick
  BY <1>8 DEF TypeOK, Tick, Expired
<1> QED
  BY <1>0, <1>1, <1>2, <1>3, <1>4, <1>5, <1>6, <1>7, <1>8 DEF Next

(* Every state of the pool is well typed. *)
THEOREM PoolIsTyped == Spec => []TypeOK
BY TypeInit, TypeStep, PTL DEF Spec

-----------------------------------------------------------------------------
OwnInv == TypeOK /\ OneOwner

LEMMA OwnInit == Init => OwnInv
<1> SUFFICES ASSUME Init PROVE OneOwner
  BY TypeInit DEF OwnInv
<1>a. PICK S \in SUBSET Conn :
        /\ \E q \in [1..Cardinality(S) -> S] : S = {q[i] : i \in DOMAIN q} /\ queue = q
        /\ owner = [k \in Conn |-> IF k \in S THEN Pool ELSE Closed]
  BY DEF Init
<1>1. PICK q \in [1..Cardinality(S) -> S] :
        /\ S = {q[i] : i \in DOMAIN q}
        /\ queue = q
        /\ owner = [k \in Conn |-> IF k \in S THEN Pool ELSE Closed]
  BY <1>a
<1>2. Cardinality(S) \in Nat /\ IsFiniteSet(S)
  BY FiniteWorld, FS_Subset, FS_CardinalityType
<1>3. \A k \in Conn : InQueue(k) <=> owner[k] = Pool
  BY <1>1, OwnersDiffer DEF InQueue
<1>4. \A i, j \in DOMAIN queue : queue[i] = queue[j] => i = j
  <2>1. q \in Surjection(1..Cardinality(S), S)
    BY <1>1 DEF Surjection
  <2>2. IsFiniteSet(1..Cardinality(S)) /\ Cardinality(1..Cardinality(S)) = Cardinality(S)
    BY <1>2, FS_Interval
  <2>3. q \in Injection(1..Cardinality(S), S)
    BY <1>2, <2>1, <2>2, FS_SurjSameCardinalityImpliesInj
  <2>4. DOMAIN queue = 1..Cardinality(S)
    BY <1>1
  <2>5. \A i, j \in 1..Cardinality(S) : q[i] = q[j] => i = j
    BY <2>3 DEF Injection, IsInjective
  <2> QED
    BY <1>1, <2>4, <2>5
<1>5. \A c \in Client : client[c] = "holding" <=> \E k \in Conn : owner[k] = c
  BY <1>1, OwnersDiffer DEF Init
<1>6. \A k, l \in Conn : owner[k] = owner[l] /\ owner[k] \in Client => k = l
  BY <1>1, OwnersDiffer
<1> QED
  BY <1>3, <1>4, <1>5, <1>6 DEF OneOwner

(* A connection moves between the queue and a client as a whole.           *)
LEMMA OwnTake ==
  ASSUME OwnInv, NEW c \in Client, Take(c)
  PROVE  OneOwner' /\ Head(queue) \in Conn /\ owner[Head(queue)] = Pool
<1> DEFINE h == Head(queue)
<1>1. queue # <<>> /\ queue \in Seq(Conn) /\ queue' = Tail(queue)
  BY DEF Take, OwnInv, TypeOK
<1>2. /\ h = queue[1] /\ h \in Conn /\ 1 \in DOMAIN queue
      /\ DOMAIN queue' = 1..(Len(queue) - 1) /\ DOMAIN queue = 1..Len(queue) /\ Len(queue) \in Nat
      /\ \A i \in 1..(Len(queue) - 1) : queue'[i] = queue[i + 1] /\ i + 1 \in 1..Len(queue)
  BY <1>1, TailShape
<1>3. owner[h] = Pool
  BY <1>2 DEF OwnInv, OneOwner, InQueue
<1>4. /\ owner' \in [Conn -> Client \cup {Pool, Closed}] /\ owner'[h] = c
      /\ \A k \in Conn \ {h} : owner'[k] = owner[k]
  BY <1>2 DEF Take, OwnInv, TypeOK
<1>5. \A k \in Conn : InQueue(k)' <=> InQueue(k) /\ k # h
  <2>1. ASSUME NEW k \in Conn, InQueue(k)' PROVE InQueue(k) /\ k # h
    <3>1. PICK i \in 1..(Len(queue) - 1) : queue[i + 1] = k /\ i + 1 \in DOMAIN queue
      BY <1>2, <2>1 DEF InQueue
    <3>2. k # h
      BY <1>2, <3>1 DEF OwnInv, OneOwner
    <3> QED
      BY <3>1, <3>2 DEF InQueue
  <2>2. ASSUME NEW k \in Conn, InQueue(k), k # h PROVE InQueue(k)'
    <3>1. PICK i \in DOMAIN queue : queue[i] = k
      BY <2>2 DEF InQueue
    <3>2. i # 1
      BY <1>2, <2>2, <3>1
    <3>3. i - 1 \in DOMAIN queue' /\ queue'[i - 1] = k
      BY <1>2, <3>1, <3>2
    <3> QED
      BY <3>3 DEF InQueue
  <2> QED
    BY <2>1, <2>2
<1>6. \A i, j \in DOMAIN queue' : queue'[i] = queue'[j] => i = j
  BY <1>2 DEF OwnInv, OneOwner
<1>7. /\ client'[c] = "holding" /\ \A d \in Client \ {c} : client'[d] = client[d]
      /\ client[c] # "holding"
  BY DEF Take, OwnInv, TypeOK
<1>8. \A k \in Conn : owner[k] # c
  BY <1>7 DEF OwnInv, OneOwner
<1>9. \A k \in Conn : InQueue(k)' <=> owner'[k] = Pool
  BY <1>3, <1>4, <1>5, OwnersDiffer DEF OwnInv, OneOwner
<1>10. \A d \in Client : client'[d] = "holding" <=> \E k \in Conn : owner'[k] = d
  BY <1>2, <1>3, <1>4, <1>7, <1>8, OwnersDiffer DEF OwnInv, OneOwner
<1>11. \A k, l \in Conn : owner'[k] = owner'[l] /\ owner'[k] \in Client => k = l
  BY <1>4, <1>8 DEF OwnInv, OneOwner
<1> QED
  BY <1>2, <1>3, <1>6, <1>9, <1>10, <1>11 DEF OneOwner

(* Pushing a connection the pool does not own yet.                         *)
LEMMA OwnPush ==
  ASSUME OwnInv, NEW k \in Conn, owner[k] # Pool,
         queue' = Append(queue, k), owner' = [owner EXCEPT ![k] = Pool]
  PROVE  /\ \A l \in Conn : InQueue(l)' <=> owner'[l] = Pool
         /\ \A i, j \in DOMAIN queue' : queue'[i] = queue'[j] => i = j
         /\ \A l \in Conn \ {k} : owner'[l] = owner[l]
         /\ owner'[k] = Pool
         /\ ~InQueue(k)
<1>1. /\ DOMAIN queue' = 1..(Len(queue) + 1) /\ DOMAIN queue = 1..Len(queue) /\ Len(queue) \in Nat
      /\ \A i \in 1..Len(queue) : queue'[i] = queue[i]
      /\ queue'[Len(queue) + 1] = k
  BY PushShape DEF OwnInv, TypeOK
<1>2. owner'[k] = Pool /\ \A l \in Conn \ {k} : owner'[l] = owner[l]
  BY DEF OwnInv, TypeOK
<1>3. ~InQueue(k)
  BY DEF OwnInv, OneOwner
<1>4. \A l \in Conn : InQueue(l)' <=> InQueue(l) \/ l = k
  <2>1. ASSUME NEW l \in Conn, InQueue(l)' PROVE InQueue(l) \/ l = k
    BY <1>1, <2>1 DEF InQueue
  <2>2. ASSUME NEW l \in Conn, InQueue(l) PROVE InQueue(l)'
    <3>1. PICK i \in 1..Len(queue) : queue[i] = l
      BY <1>1, <2>2 DEF InQueue
    <3> QED
      BY <1>1, <3>1 DEF InQueue
  <2>3. InQueue(k)'
    BY <1>1 DEF InQueue
  <2> QED
    BY <2>1, <2>2, <2>3
<1>5. \A i, j \in DOMAIN queue' : queue'[i] = queue'[j] => i = j
  <2>1. \A i \in 1..Len(queue) : queue[i] # k
    BY <1>1, <1>3 DEF InQueue
  <2> QED
    BY <1>1, <2>1 DEF OwnInv, OneOwner
<1> QED
  BY <1>2, <1>3, <1>4, <1>5 DEF OwnInv, OneOwner

(* Closing a prefix of the queue.                                          *)
LEMMA OwnDrop ==
  ASSUME OwnInv, NEW n \in 0..Len(queue), queue' = SubSeq(queue, n + 1, Len(queue)),
         owner' = [k \in Conn |-> IF \E i \in 1..n : queue[i] = k THEN Closed ELSE owner[k]]
  PROVE  /\ \A k \in Conn : InQueue(k)' <=> owner'[k] = Pool
         /\ \A i, j \in DOMAIN queue' : queue'[i] = queue'[j] => i = j
         /\ \A k \in Conn : owner'[k] # owner[k] => owner[k] = Pool /\ owner'[k] = Closed
         /\ \A k \in Conn : owner[k] \in Client => owner'[k] = owner[k]
<1>1. /\ DOMAIN queue' = 1..(Len(queue) - n) /\ DOMAIN queue = 1..Len(queue) /\ Len(queue) \in Nat
      /\ \A i \in 1..(Len(queue) - n) : queue'[i] = queue[i + n] /\ i + n \in 1..Len(queue)
  BY DropShape DEF OwnInv, TypeOK
<1>2. \A i, j \in 1..Len(queue) : queue[i] = queue[j] => i = j
  BY <1>1 DEF OwnInv, OneOwner
<1>3. \A k \in Conn : (\E i \in 1..n : queue[i] = k) => owner[k] = Pool
  <2>1. \A i \in 1..n : i \in DOMAIN queue
    BY <1>1
  <2> QED
    BY <2>1 DEF OwnInv, OneOwner, InQueue
<1>4. \A k \in Conn : InQueue(k)' <=> InQueue(k) /\ ~\E i \in 1..n : queue[i] = k
  <2>1. ASSUME NEW k \in Conn, InQueue(k)'
        PROVE InQueue(k) /\ ~\E i \in 1..n : queue[i] = k
    <3>1. PICK j \in 1..(Len(queue) - n) : queue[j + n] = k /\ j + n \in 1..Len(queue)
      BY <1>1, <2>1 DEF InQueue
    <3>2. InQueue(k)
      BY <1>1, <3>1 DEF InQueue
    <3>3. ASSUME NEW i \in 1..n, queue[i] = k PROVE FALSE
      <4>1. i \in 1..Len(queue) /\ i # j + n
        BY <1>1
      <4> QED
        BY <1>2, <3>1, <3>3, <4>1
    <3> QED
      BY <3>2, <3>3
  <2>2. ASSUME NEW k \in Conn, InQueue(k), ~\E i \in 1..n : queue[i] = k
        PROVE InQueue(k)'
    <3>1. PICK i \in 1..Len(queue) : queue[i] = k
      BY <1>1, <2>2 DEF InQueue
    <3>2. i \notin 1..n
      BY <2>2, <3>1
    <3>3. i - n \in 1..(Len(queue) - n) /\ (i - n) + n = i
      BY <1>1, <3>2
    <3>4. i - n \in DOMAIN queue' /\ queue'[i - n] = k
      BY <1>1, <3>1, <3>3
    <3> QED
      BY <3>4 DEF InQueue
  <2> QED
    BY <2>1, <2>2
<1>5. \A k \in Conn : owner'[k] = IF \E i \in 1..n : queue[i] = k THEN Closed ELSE owner[k]
  OBVIOUS
<1>6. \A k \in Conn : InQueue(k)' <=> owner'[k] = Pool
  BY <1>4, <1>5, OwnersDiffer DEF OwnInv, OneOwner
<1>7. \A i, j \in DOMAIN queue' : queue'[i] = queue'[j] => i = j
  <2> SUFFICES ASSUME NEW i \in 1..(Len(queue) - n), NEW j \in 1..(Len(queue) - n),
                      queue'[i] = queue'[j]
               PROVE i = j
    BY <1>1
  <2>1. i + n = j + n
    BY <1>1, <1>2
  <2> QED
    BY <2>1
<1> QED
  BY <1>3, <1>5, <1>6, <1>7, OwnersDiffer

LEMMA OwnStep == OwnInv /\ [Next]_vars => OwnInv'
<1> SUFFICES ASSUME OwnInv, [Next]_vars PROVE OneOwner'
  BY TypeStep DEF OwnInv
<1>0. CASE UNCHANGED vars
  BY <1>0 DEF OwnInv, OneOwner, InQueue, vars
<1>1. ASSUME NEW c \in Client, Wait(c) \/ WaitEnds(c) PROVE OneOwner'
  <2>1. UNCHANGED <<queue, owner>>
    BY <1>1 DEF Wait, WaitEnds
  <2>2. \A d \in Client : client'[d] = "holding" <=> client[d] = "holding"
    BY <1>1 DEF Wait, WaitEnds, OwnInv, TypeOK
  <2> QED
    BY <2>1, <2>2 DEF OwnInv, OneOwner, InQueue
<1>2. ASSUME NEW c \in Client, Take(c) PROVE OneOwner'
  BY <1>2, OwnTake
<1>3. ASSUME NEW c \in Client, NEW k \in Conn, GiveBack(c, k) PROVE OneOwner'
  <2>1. owner[k] = c /\ queue' = Append(queue, k) /\ owner' = [owner EXCEPT ![k] = Pool] /\ owner[k] # Pool
    BY <1>3, OwnersDiffer DEF GiveBack
  <2>2. /\ \A l \in Conn : InQueue(l)' <=> owner'[l] = Pool
        /\ \A i, j \in DOMAIN queue' : queue'[i] = queue'[j] => i = j
        /\ \A l \in Conn \ {k} : owner'[l] = owner[l]
        /\ owner'[k] = Pool
    BY <2>1, OwnPush
  <2>3. client'[c] = "idle" /\ \A d \in Client \ {c} : client'[d] = client[d]
    BY <1>3 DEF GiveBack, OwnInv, TypeOK
  <2>4. \A l \in Conn : owner[l] = c => l = k
    BY <2>1 DEF OwnInv, OneOwner
  <2>5. \A d \in Client : client'[d] = "holding" <=> \E l \in Conn : owner'[l] = d
    BY <2>1, <2>2, <2>3, <2>4, OwnersDiffer DEF OwnInv, OneOwner
  <2>6. \A l, m \in Conn : owner'[l] = owner'[m] /\ owner'[l] \in Client => l = m
    BY <2>2, OwnersDiffer DEF OwnInv, OneOwner
  <2> QED
    BY <2>2, <2>5, <2>6 DEF OneOwner
<1>4. CASE ProducerRests \/ ProducerWakes
  BY <1>4 DEF ProducerRests, ProducerWakes, OwnInv, OneOwner, InQueue
<1>5. CASE ProduceFails
  <2>1. UNCHANGED <<queue, owner>>
    BY <1>5 DEF ProduceFails
  <2>2. \A d \in Client : client'[d] = "holding" <=> client[d] = "holding"
    BY <1>5 DEF ProduceFails, WakeClients
  <2> QED
    BY <2>1, <2>2 DEF OwnInv, OneOwner, InQueue
<1>6. ASSUME NEW k \in Conn, ProduceOne(k) PROVE OneOwner'
  <2>1. owner[k] = Closed /\ queue' = Append(queue, k) /\ owner' = [owner EXCEPT ![k] = Pool] /\ owner[k] # Pool
    BY <1>6, OwnersDiffer DEF ProduceOne
  <2>2. /\ \A l \in Conn : InQueue(l)' <=> owner'[l] = Pool
        /\ \A i, j \in DOMAIN queue' : queue'[i] = queue'[j] => i = j
        /\ \A l \in Conn \ {k} : owner'[l] = owner[l]
        /\ owner'[k] = Pool
    BY <2>1, OwnPush
  <2>3. \A d \in Client : client'[d] = "holding" <=> client[d] = "holding"
    BY <1>6 DEF ProduceOne, WakeClients
  <2>5. \A d \in Client : client'[d] = "holding" <=> \E l \in Conn : owner'[l] = d
    BY <2>1, <2>2, <2>3, OwnersDiffer DEF OwnInv, OneOwner
  <2>6. \A l, m \in Conn : owner'[l] = owner'[m] /\ owner'[l] \in Client => l = m
    BY <2>2, OwnersDiffer DEF OwnInv, OneOwner
  <2> QED
    BY <2>2, <2>5, <2>6 DEF OneOwner
<1>7. CASE Recycle
  <2>1. PICK n \in 0..Len(queue) :
          /\ queue' = SubSeq(queue, n + 1, Len(queue))
          /\ owner' = [k \in Conn |->
                         IF \E i \in 1..n : queue[i] = k THEN Closed ELSE owner[k]]
    BY <1>7 DEF Recycle
  <2>2. /\ \A k \in Conn : InQueue(k)' <=> owner'[k] = Pool
        /\ \A i, j \in DOMAIN queue' : queue'[i] = queue'[j] => i = j
        /\ \A k \in Conn : owner'[k] # owner[k] => owner[k] = Pool /\ owner'[k] = Closed
        /\ \A k \in Conn : owner[k] \in Client => owner'[k] = owner[k]
    BY <2>1, OwnDrop
  <2>3. client' = client
    BY <1>7 DEF Recycle
  <2>5. \A d \in Client : client'[d] = "holding" <=> \E l \in Conn : owner'[l] = d
    BY <2>2, <2>3, OwnersDiffer DEF OwnInv, OneOwner
  <2>6. \A l, m \in Conn : owner'[l] = owner'[m] /\ owner'[l] \in Client => l = m
    BY <2>2, OwnersDiffer DEF OwnInv, OneOwner
  <2> QED
    BY <2>2, <2>5, <2>6 DEF OneOwner
<1>8. CASE Tick
  BY <1>8 DEF Tick, OwnInv, OneOwner, InQueue
<1> QED
  BY <1>0, <1>1, <1>2, <1>3, <1>4, <1>5, <1>6, <1>7, <1>8 DEF Next

LEMMA Owned == Spec => []OwnInv
BY OwnInit, OwnStep, PTL DEF Spec

(* No two threads ever use one MYSQL handle, and no handle is lost.        *)
THEOREM PoolHasOneOwner == Spec => []OneOwner
<1>1. OwnInv => OneOwner
  BY DEF OwnInv
<1> QED
  BY <1>1, Owned, PTL

-----------------------------------------------------------------------------
LEMMA AwakeStep == TypeOK /\ ProducerAwake /\ [Next]_vars => ProducerAwake'
<1> SUFFICES ASSUME TypeOK, ProducerAwake, [Next]_vars PROVE ProducerAwake'
  OBVIOUS
<1> USE SizesAreNat
<1>0. CASE UNCHANGED vars
  BY <1>0 DEF ProducerAwake, vars
<1>1. ASSUME NEW c \in Client, Wait(c) \/ WaitEnds(c) \/ Take(c) PROVE ProducerAwake'
  BY <1>1 DEF ProducerAwake, Wait, WaitEnds, Take
<1>2. ASSUME NEW c \in Client, NEW k \in Conn, GiveBack(c, k) PROVE ProducerAwake'
  <2>1. Len(queue') = Len(queue) + 1 /\ Len(queue) \in Nat /\ producer' = producer
    BY <1>2, PushShape DEF GiveBack, TypeOK
  <2> QED
    BY <2>1 DEF ProducerAwake
<1>3. CASE ProducerRests \/ ProducerWakes \/ ProduceFails \/ Tick
  BY <1>3 DEF ProducerAwake, ProducerRests, ProducerWakes, ProduceFails, Tick
<1>4. ASSUME NEW k \in Conn, ProduceOne(k) PROVE ProducerAwake'
  BY <1>4 DEF ProducerAwake, ProduceOne
<1>5. CASE Recycle
  <2>1. PICK n \in 0..Len(queue) : n \in 0..Surplus /\ queue' = SubSeq(queue, n + 1, Len(queue))
    BY <1>5 DEF Recycle, IsRecycled
  <2>2. Len(queue') = Len(queue) - n /\ Len(queue) \in Nat
    BY <2>1, DropShape DEF TypeOK
  <2>3. Surplus = IF Len(queue) > MinSize THEN Len(queue) - MinSize ELSE 0
    BY DEF Surplus
  <2>4. Len(queue) >= MinSize => Len(queue') >= MinSize
    BY <2>1, <2>2, <2>3
  <2> QED
    BY <1>5, <2>4 DEF ProducerAwake, Recycle
<1> QED
  BY <1>0, <1>1, <1>2, <1>3, <1>4, <1>5 DEF Next

(* The producer never sleeps while the pool is short of connections.       *)
THEOREM ProducerStaysAwake == Spec => []ProducerAwake
<1>1. Init => ProducerAwake
  BY DEF Init, ProducerAwake
<1> QED
  BY <1>1, AwakeStep, PoolIsTyped, PTL DEF Spec

-----------------------------------------------------------------------------
(* The open connections are the queued ones and at most one per client.    *)
LEMMA OpenCount ==
  OwnInv => IsFiniteSet(Open) /\ Cardinality(Open) \in Nat
            /\ Cardinality(Open) <= Len(queue) + Cardinality(Client)
<1> SUFFICES ASSUME OwnInv
             PROVE IsFiniteSet(Open) /\ Cardinality(Open) \in Nat
                   /\ Cardinality(Open) <= Len(queue) + Cardinality(Client)
  OBVIOUS
<1> DEFINE Queued == {k \in Conn : owner[k] = Pool}
           Held == {k \in Conn : owner[k] \in Client}
           f == [k \in Held |-> owner[k]]
<1>1. queue \in Seq(Conn) /\ Len(queue) \in Nat /\ DOMAIN queue = 1..Len(queue)
  BY DEF OwnInv, TypeOK
<1>2. IsFiniteSet(Queued) /\ Cardinality(Queued) <= Len(queue)
  <2>1. \A i \in 1..Len(queue) : queue[i] \in Queued
    BY <1>1 DEF OwnInv, OneOwner, InQueue
  <2>2. \A k \in Queued : \E i \in 1..Len(queue) : queue[i] = k
    BY <1>1 DEF OwnInv, OneOwner, InQueue
  <2>3. queue = [i \in 1..Len(queue) |-> queue[i]]
    BY <1>1
  <2>4. queue \in [1..Len(queue) -> Queued]
    BY <2>1, <2>3
  <2>5. queue \in Surjection(1..Len(queue), Queued)
    BY <2>2, <2>4 DEF Surjection
  <2>6. IsFiniteSet(1..Len(queue)) /\ Cardinality(1..Len(queue)) = Len(queue)
    BY <1>1, FS_Interval
  <2> HIDE DEF Queued
  <2> QED
    BY <2>5, <2>6, FS_Surjection
<1>3. IsFiniteSet(Held) /\ Cardinality(Held) <= Cardinality(Client)
  <2>1. f \in [Held -> Client]
    OBVIOUS
  <2>2. \A k, l \in Held : f[k] = f[l] => k = l
    BY DEF OwnInv, OneOwner
  <2>3. f \in Injection(Held, Client)
    BY <2>1, <2>2 DEF Injection, IsInjective
  <2> HIDE DEF f, Held
  <2> QED
    BY <2>3, FiniteWorld, FS_Injection
<1>4. Open = Queued \cup Held
  BY OwnersDiffer DEF Open, OwnInv, TypeOK
<1> HIDE DEF Queued, Held
<1>5. /\ IsFiniteSet(Queued \cup Held)
      /\ Cardinality(Queued \cup Held) = Cardinality(Queued) + Cardinality(Held) - Cardinality(Queued \cap Held)
  BY <1>2, <1>3, FS_Union
<1>6. /\ Cardinality(Queued) \in Nat /\ Cardinality(Held) \in Nat /\ Cardinality(Client) \in Nat
      /\ Cardinality(Queued \cap Held) \in Nat /\ Cardinality(Queued \cup Held) \in Nat
  <2>1. IsFiniteSet(Queued \cap Held)
    BY <1>2, FS_Subset, Queued \cap Held \in SUBSET Queued
  <2> QED
    BY <1>2, <1>3, <1>5, <2>1, FiniteWorld, FS_CardinalityType
<1> QED
  BY <1>1, <1>2, <1>3, <1>4, <1>5, <1>6

LEMMA BoundInit == Init => TotalBound
<1> SUFFICES ASSUME Init PROVE TotalBound
  OBVIOUS
<1> USE SizesAreNat
<1>1. PICK S \in SUBSET Conn : /\ Cardinality(S) <= MinSize
                               /\ owner = [k \in Conn |-> IF k \in S THEN Pool ELSE Closed]
  BY DEF Init
<1>2. Open = S
  BY <1>1, OwnersDiffer DEF Open
<1>3. Cardinality(S) \in Nat /\ Cardinality(Client) \in Nat
  BY FiniteWorld, FS_Subset, FS_CardinalityType
<1> QED
  BY <1>1, <1>2, <1>3 DEF TotalBound

LEMMA BoundStep == OwnInv /\ TotalBound /\ [Next]_vars => TotalBound'
<1> SUFFICES ASSUME OwnInv, TotalBound, [Next]_vars PROVE TotalBound'
  OBVIOUS
<1>a. IsFiniteSet(Open) /\ Cardinality(Open) \in Nat
      /\ Cardinality(Open) <= Len(queue) + Cardinality(Client)
  BY OpenCount
<1>b. Len(queue) \in Nat /\ Cardinality(Client) \in Nat /\ MinSize \in Nat
  BY SizesAreNat, FiniteWorld, FS_CardinalityType DEF OwnInv, TypeOK
<1>c. ASSUME Open' \in SUBSET Open PROVE TotalBound'
  <2>1. IsFiniteSet(Open') /\ Cardinality(Open') <= Cardinality(Open)
    BY <1>a, <1>c, FS_Subset
  <2>2. Cardinality(Open') \in Nat
    BY <2>1, FS_CardinalityType
  <2> QED
    BY <1>a, <1>b, <2>1, <2>2 DEF TotalBound
<1>1. CASE owner' = owner
  BY <1>1, <1>c DEF Open
<1>2. ASSUME NEW c \in Client, Take(c) PROVE TotalBound'
  <2>1. Head(queue) \in Conn /\ owner[Head(queue)] = Pool
    BY <1>2, OwnTake
  <2>2. \A k \in Conn : owner'[k] # Closed => owner[k] # Closed
    BY <1>2, <2>1, OwnersDiffer DEF Take, OwnInv, TypeOK
  <2> QED
    BY <1>c, <2>2 DEF Open
<1>3. ASSUME NEW c \in Client, NEW k \in Conn, GiveBack(c, k) PROVE TotalBound'
  <2>1. \A l \in Conn : owner'[l] # Closed => owner[l] # Closed
    BY <1>3, OwnersDiffer DEF GiveBack, OwnInv, TypeOK
  <2> QED
    BY <1>c, <2>1 DEF Open
<1>4. ASSUME NEW k \in Conn, ProduceOne(k) PROVE TotalBound'
  <2>1. Len(queue) < MinSize /\ owner' = [owner EXCEPT ![k] = Pool] /\ k \notin Open
    BY <1>4 DEF ProduceOne, Open
  <2>2. Open' = Open \cup {k}
    BY <2>1, OwnersDiffer DEF Open, OwnInv, TypeOK
  <2>3. Cardinality(Open') = Cardinality(Open) + 1
    BY <1>a, <2>1, <2>2, FS_AddElement
  <2> QED
    BY <1>a, <1>b, <2>1, <2>3 DEF TotalBound
<1>5. CASE Recycle
  <2>1. PICK n \in 0..Len(queue) :
          /\ queue' = SubSeq(queue, n + 1, Len(queue))
          /\ owner' = [k \in Conn |->
                         IF \E i \in 1..n : queue[i] = k THEN Closed ELSE owner[k]]
    BY <1>5 DEF Recycle
  <2>2. \A k \in Conn : owner'[k] # Closed => owner[k] # Closed
    BY <2>1
  <2> QED
    BY <1>c, <2>2 DEF Open
<1>6. owner' = owner \/ Recycle \/ (\E k \in Conn : ProduceOne(k))
      \/ \E c \in Client : Take(c) \/ \E k \in Conn : GiveBack(c, k)
  BY DEF Next, Wait, WaitEnds, ProducerRests, ProducerWakes, ProduceFails, Tick, vars
<1> QED
  BY <1>1, <1>2, <1>3, <1>4, <1>5, <1>6

(* No more than MinSize + the number of clients are ever open.             *)
THEOREM PoolIsBounded == Spec => []TotalBound
BY BoundInit, BoundStep, Owned, PTL DEF Spec

-----------------------------------------------------------------------------
LEMMA OrderStep == OwnInv /\ OldestFirst /\ [Next]_vars => OldestFirst'
<1> SUFFICES ASSUME OwnInv, OldestFirst, [Next]_vars PROVE OldestFirst'
  OBVIOUS
<1> USE SizesAreNat
<1>t. /\ queue \in Seq(Conn) /\ Len(queue) \in Nat /\ DOMAIN queue = 1..Len(queue)
      /\ \A i \in 1..Len(queue) : queue[i] \in Conn
      /\ age \in [Conn -> 0..MaxIdleTime]
  BY DEF OwnInv, TypeOK
<1>0. CASE UNCHANGED <<queue, age>>
  BY <1>0 DEF OldestFirst
<1>1. ASSUME NEW c \in Client, Take(c) PROVE OldestFirst'
  <2>1. /\ DOMAIN queue' = 1..(Len(queue) - 1) /\ age' = age
        /\ \A i \in 1..(Len(queue) - 1) : queue'[i] = queue[i + 1] /\ i + 1 \in 1..Len(queue)
    BY <1>1, <1>t, TailShape DEF Take
  <2> SUFFICES ASSUME NEW i \in 1..(Len(queue) - 1), NEW j \in 1..(Len(queue) - 1), i < j
               PROVE age'[queue'[i]] >= age'[queue'[j]]
    BY <2>1 DEF OldestFirst
  <2>2. i + 1 < j + 1
    OBVIOUS
  <2> QED
    BY <1>t, <2>1, <2>2 DEF OldestFirst
<1>2. ASSUME NEW k \in Conn, ~InQueue(k), queue' = Append(queue, k), age' = [age EXCEPT ![k] = 0]
      PROVE OldestFirst'
  <2>1. /\ DOMAIN queue' = 1..(Len(queue) + 1)
        /\ \A i \in 1..Len(queue) : queue'[i] = queue[i]
        /\ queue'[Len(queue) + 1] = k
    BY <1>2, <1>t, PushShape
  <2>2. age'[k] = 0 /\ \A l \in Conn \ {k} : age'[l] = age[l]
    BY <1>2, <1>t
  <2>3. \A i \in 1..Len(queue) : queue[i] # k
    BY <1>2, <1>t DEF InQueue
  <2> SUFFICES ASSUME NEW i \in 1..(Len(queue) + 1), NEW j \in 1..(Len(queue) + 1), i < j
               PROVE age'[queue'[i]] >= age'[queue'[j]]
    BY <2>1 DEF OldestFirst
  <2>4. i \in 1..Len(queue) /\ age'[queue'[i]] = age[queue[i]] /\ age[queue[i]] \in 0..MaxIdleTime
    BY <1>t, <2>1, <2>2, <2>3
  <2>5. CASE j = Len(queue) + 1
    BY <2>1, <2>2, <2>4, <2>5
  <2>6. CASE j # Len(queue) + 1
    <3>1. j \in 1..Len(queue) /\ age'[queue'[j]] = age[queue[j]]
      BY <1>t, <2>1, <2>2, <2>3, <2>6
    <3> QED
      BY <1>t, <2>4, <3>1 DEF OldestFirst
  <2> QED
    BY <2>5, <2>6
<1>3. CASE Recycle
  <2>1. PICK n \in 0..Len(queue) : queue' = SubSeq(queue, n + 1, Len(queue))
    BY <1>3 DEF Recycle
  <2>2. /\ DOMAIN queue' = 1..(Len(queue) - n)
        /\ \A i \in 1..(Len(queue) - n) : queue'[i] = queue[i + n] /\ i + n \in 1..Len(queue)
    BY <1>t, <2>1, DropShape
  <2>3. age' = age
    BY <1>3 DEF Recycle
  <2> SUFFICES ASSUME NEW i \in 1..(Len(queue) - n), NEW j \in 1..(Len(queue) - n), i < j
               PROVE age'[queue'[i]] >= age'[queue'[j]]
    BY <2>2 DEF OldestFirst
  <2>4. i + n < j + n
    OBVIOUS
  <2> QED
    BY <1>t, <2>2, <2>3, <2>4 DEF OldestFirst
<1>4. CASE Tick
  <2>1. queue' = queue /\ age' = [k \in Conn |-> IF InQueue(k) /\ ~Expired(k) THEN age[k] + 1 ELSE age[k]]
    BY <1>4 DEF Tick
  <2> SUFFICES ASSUME NEW i \in 1..Len(queue), NEW j \in 1..Len(queue), i < j
               PROVE age'[queue[i]] >= age'[queue[j]]
    BY <1>t, <2>1 DEF OldestFirst
  <2>2. InQueue(queue[i]) /\ InQueue(queue[j])
    BY <1>t DEF InQueue
  <2>3. age[queue[i]] >= age[queue[j]] /\ age[queue[i]] \in 0..MaxIdleTime /\ age[queue[j]] \in 0..MaxIdleTime
    BY <1>t DEF OldestFirst
  <2>4. \A k \in {queue[i], queue[j]} : age'[k] = IF age[k] >= MaxIdleTime THEN age[k] ELSE age[k] + 1
    BY <1>t, <2>1, <2>2 DEF Expired
  <2> QED
    BY <2>3, <2>4
<1>5. ASSUME NEW c \in Client, NEW k \in Conn, GiveBack(c, k) PROVE OldestFirst'
  BY <1>2, <1>5, OwnersDiffer DEF GiveBack, OwnInv, OneOwner
<1>6. ASSUME NEW k \in Conn, ProduceOne(k) PROVE OldestFirst'
  BY <1>2, <1>6, OwnersDiffer DEF ProduceOne, OwnInv, OneOwner
<1>7. UNCHANGED <<queue, age>> \/ Recycle \/ Tick \/ (\E k \in Conn : ProduceOne(k))
      \/ \E c \in Client : Take(c) \/ \E k \in Conn : GiveBack(c, k)
  BY DEF Next, Wait, WaitEnds, ProducerRests, ProducerWakes, ProduceFails, vars
<1> QED
  BY <1>0, <1>1, <1>3, <1>4, <1>5, <1>6, <1>7

LEMMA OrderInit == Init => OldestFirst
<1> SUFFICES ASSUME Init, NEW i \in DOMAIN queue, NEW j \in DOMAIN queue
             PROVE age[queue[i]] >= age[queue[j]]
  BY DEF OldestFirst
<1>1. queue \in Seq(Conn) /\ age = [k \in Conn |-> 0]
  BY TypeInit DEF TypeOK, Init
<1>2. queue[i] \in Conn /\ queue[j] \in Conn
  BY <1>1
<1> QED
  BY <1>1, <1>2

(* The queue stays ordered by idle time.                                   *)
THEOREM QueueStaysOrdered == Spec => []OldestFirst
BY OrderInit, OrderStep, Owned, PTL DEF Spec

LEMMA RecycleStep ==
  OwnInv /\ OldestFirst /\ Recycle =>
    Len(queue') <= MinSize \/ \A i \in DOMAIN queue' : ~Expired(queue'[i])
<1> SUFFICES ASSUME OwnInv, OldestFirst, Recycle, ~(Len(queue') <= MinSize), NEW i \in DOMAIN queue'
             PROVE ~Expired(queue'[i])
  OBVIOUS
<1> USE SizesAreNat
<1>1. /\ queue \in Seq(Conn) /\ Len(queue) \in Nat /\ DOMAIN queue = 1..Len(queue)
      /\ \A j \in 1..Len(queue) : queue[j] \in Conn
      /\ age \in [Conn -> 0..MaxIdleTime]
  BY DEF OwnInv, TypeOK
<1>2. PICK n \in 0..Len(queue) : IsRecycled(n) /\ queue' = SubSeq(queue, n + 1, Len(queue))
  BY DEF Recycle
<1>3. /\ DOMAIN queue' = 1..(Len(queue) - n) /\ Len(queue') = Len(queue) - n
      /\ \A j \in 1..(Len(queue) - n) : queue'[j] = queue[j + n] /\ j + n \in 1..Len(queue)
  BY <1>1, <1>2, DropShape
<1>4. n < Surplus /\ n + 1 \in 1..Len(queue)
  <2>1. Len(queue) - n > MinSize
    BY <1>1, <1>3
  <2>2. Len(queue) > MinSize
    BY <1>1, <2>1
  <2>3. Surplus = Len(queue) - MinSize
    BY <2>2 DEF Surplus
  <2> QED
    BY <1>1, <2>1, <2>2, <2>3
<1>5. ~Expired(queue[n + 1])
  BY <1>2, <1>4 DEF IsRecycled
<1>6. queue'[i] = queue[i + n] /\ i + n \in 1..Len(queue) /\ i \in Nat /\ i >= 1
  BY <1>1, <1>3
<1>7. age[queue[n + 1]] >= age[queue[i + n]]
  <2>1. CASE i = 1
    BY <1>1, <1>4, <2>1
  <2>2. CASE i # 1
    <3>1. n + 1 < i + n
      BY <1>6, <2>2
    <3> QED
      BY <1>1, <1>4, <1>6, <3>1 DEF OldestFirst
  <2> QED
    BY <2>1, <2>2
<1> QED
  BY <1>1, <1>4, <1>5, <1>6, <1>7 DEF Expired

(* After the recycler has run, what is queued beyond MinSize is young.     *)
THEOREM RecyclerFinishes == Spec => RecycleLeavesNoOldSurplus
<1>1. OwnInv /\ OldestFirst =>
        [Recycle => (Len(queue') <= MinSize \/ \A i \in DOMAIN queue' : ~Expired(queue'[i]))]_vars
  BY RecycleStep
<1> QED
  BY <1>1, Owned, QueueStaysOrdered, PTL DEF RecycleLeavesNoOldSurplus

-----------------------------------------------------------------------------
LEMMA OwnershipInit == Init => Ownership!Init
BY DEF Init, Ownership!Init

LEMMA OwnershipStep == OwnInv /\ [Next]_vars => [Ownership!Next]_owner
<1> SUFFICES ASSUME OwnInv, [Next]_vars PROVE [Ownership!Next]_owner
  OBVIOUS
<1>1. ASSUME NEW c \in Client, Take(c) PROVE Ownership!Next
  <2>1. Head(queue) \in Conn /\ owner[Head(queue)] = Pool
    BY <1>1, OwnTake
  <2>2. Ownership!Acquire(c, Head(queue))
    BY <1>1, <2>1 DEF Take, Ownership!Acquire, Ownership!Pass
  <2> QED
    BY <2>1, <2>2 DEF Ownership!Next
<1>2. ASSUME NEW c \in Client, NEW k \in Conn, GiveBack(c, k) PROVE Ownership!Next
  <2>1. Ownership!Release(c, k)
    BY <1>2 DEF GiveBack, Ownership!Release, Ownership!Pass
  <2> QED
    BY <2>1 DEF Ownership!Next
<1>3. ASSUME NEW k \in Conn, ProduceOne(k) PROVE Ownership!Next
  <2>1. Ownership!Open(k)
    BY <1>3 DEF ProduceOne, Ownership!Open, Ownership!Pass
  <2> QED
    BY <2>1 DEF Ownership!Next
<1>4. CASE Recycle
  <2>1. PICK n \in 0..Len(queue) :
          /\ queue' = SubSeq(queue, n + 1, Len(queue))
          /\ owner' = [k \in Conn |->
                         IF \E i \in 1..n : queue[i] = k THEN Closed ELSE owner[k]]
    BY <1>4 DEF Recycle
  <2> DEFINE S == {k \in Conn : \E i \in 1..n : queue[i] = k}
  <2>2. \A i \in 1..n : i \in DOMAIN queue
    BY <2>1 DEF OwnInv, TypeOK
  <2>3. \A k \in S : owner[k] = Pool
    BY <2>2 DEF OwnInv, OneOwner, InQueue
  <2>4. owner' = [k \in Conn |-> IF k \in S THEN Closed ELSE owner[k]]
    BY <2>1
  <2>5. Ownership!Close(S)
    BY <2>3, <2>4 DEF Ownership!Close
  <2>6. S \in SUBSET Conn
    OBVIOUS
  <2> QED
    BY <2>5, <2>6 DEF Ownership!Next
<1>5. owner' = owner \/ Recycle \/ (\E k \in Conn : ProduceOne(k))
      \/ \E c \in Client : Take(c) \/ \E k \in Conn : GiveBack(c, k)
  BY DEF Next, Wait, WaitEnds, ProducerRests, ProducerWakes, ProduceFails, Tick, vars
<1> QED
  BY <1>1, <1>2, <1>3, <1>4, <1>5

(* Every run of the pool is a run of the exclusive ownership of            *)
(* connections that ResourcePool specifies.                                *)
THEOREM PoolImplementsOwnership == Spec => OwnershipSpec
BY OwnershipInit, OwnershipStep, Owned, PTL DEF Spec, OwnershipSpec, Ownership!Spec
=============================================================================
