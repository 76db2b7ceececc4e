----------------------------- MODULE ByteArray -----------------------------
(***************************************************************************)
(* The buffer of the streams (src/lyserver/src/bytearray.cpp): bytes in a  *)
(* chain of nodes of one size, a position, and a pointer to the node of    *)
(* the position, which is NULL when the position is at the end of the      *)
(* chain.  SocketStream (streams/socket_stream.cpp) lets the socket read   *)
(* into the nodes and write from them.                                     *)
(*                                                                         *)
(* The loops of write, read and the two ...Buffers functions go through    *)
(* the same bytes, Walk, from m_cur on.                                    *)
(***************************************************************************)
EXTENDS Integers, Sequences

CONSTANTS
  Byte,
  Raw,          \* what new char[] holds
  m_baseSize,
  MaxSize,      \* bound: bytes of one call
  MaxNodes      \* bound: nodes of the chain

VARIABLES
  nodes,        \* the chain from m_root on: each a function from offsets to bytes
  m_cur,        \* the number of a node, or NULL
  m_position, m_size,
  passed,       \* the bytes the last operation was given or has returned
  crashed       \* the process has looked behind NULL

vars == <<nodes, m_cur, m_position, m_size, passed, crashed>>

NULL == 0
Fresh == [o \in 0..m_baseSize - 1 |-> Raw]
Data == UNION {[1..n -> Byte] : n \in 1..MaxSize}
m_capacity == Len(nodes) * m_baseSize
getCapacity == m_capacity - m_position
getReadSize == m_size - m_position
Larger(a, b) == IF a > b THEN a ELSE b

Init ==
  /\ nodes = <<Fresh>> /\ m_cur = 1
  /\ m_position = 0 /\ m_size = 0 /\ passed = << >> /\ crashed = FALSE

-----------------------------------------------------------------------------
\* Mutant: the pointer that was NULL is left alone.
StaysWhere(cur, size) == cur
\* addCapacity: the nodes it adds, and m_cur after it.
Added(size) ==
  IF getCapacity >= size THEN 0 ELSE (size - getCapacity + m_baseSize - 1) \div m_baseSize
CurAfter(cur, size) == IF Added(size) > 0 /\ getCapacity = 0 THEN Len(nodes) + 1 ELSE cur
Grown(size) == nodes \o [i \in 1..Added(size) |-> Fresh]

\* Where the i-th byte from m_cur and the position on is: a node and an offset.
npos == m_position % m_baseSize
Walk(cur, i) == <<cur + (npos + i - 1) \div m_baseSize, (npos + i - 1) % m_baseSize>>

Stored(chain, cur, data) ==
  [k \in DOMAIN chain |-> [o \in 0..m_baseSize - 1 |->
     IF \E i \in DOMAIN data : Walk(cur, i) = <<k, o>>
     THEN data[CHOOSE i \in DOMAIN data : Walk(cur, i) = <<k, o>>]
     ELSE chain[k][o]]]
Bytes(n) == [i \in 1..n |-> nodes[Walk(m_cur, i)[1]][Walk(m_cur, i)[2]]]

\* Mutant: the pointer stays in a node that is full.
StaysInFull(cur, n, chain) == Walk(cur, n)[1]
\* m_cur after n bytes: behind the last byte of a node is the next node.
CurBehind(cur, n, chain) ==
  LET k == Walk(cur, n + 1)[1] IN IF k > Len(chain) THEN NULL ELSE k

write(data) ==
  LET n == Len(data)
      cur == CurAfter(m_cur, n)
  IN
  /\ Len(nodes) + Added(n) <= MaxNodes
  /\ nodes' = Stored(Grown(n), cur, data)
  /\ m_cur' = CurBehind(cur, n, Grown(n))
  /\ m_position' = m_position + n
  /\ m_size' = Larger(m_size, m_position + n)
  /\ passed' = data

\* More than there is throws.
read(n) ==
  /\ n <= getReadSize /\ m_cur # NULL
  /\ passed' = Bytes(n)
  /\ m_cur' = CurBehind(m_cur, n, nodes)
  /\ m_position' = m_position + n
  /\ UNCHANGED <<nodes, m_size>>

\* m_cur->size is looked at even for no bytes, as at the end of the chain.
readBehindNull(n) ==
  /\ n <= getReadSize /\ m_cur = NULL
  /\ crashed' = TRUE
  /\ UNCHANGED <<nodes, m_cur, m_position, m_size, passed>>

toString ==
  /\ getReadSize > 0
  /\ passed' = Bytes(getReadSize)
  /\ UNCHANGED <<nodes, m_cur, m_position, m_size>>

\* The node of a position, counted from m_root.
NodeOf(v, chain) == IF v \div m_baseSize < Len(chain) THEN v \div m_baseSize + 1 ELSE NULL

MoveTo(v, chain) ==
  /\ m_position' = v /\ m_size' = Larger(m_size, v)
  /\ m_cur' = NodeOf(v, chain)

setPosition(v) ==
  /\ v <= m_capacity
  /\ MoveTo(v, nodes)
  /\ UNCHANGED <<nodes, passed>>

\* SocketStream::read of up to length bytes: getWriteBuffers makes room for all
\* of them, recv brings some or none, setPosition takes those in.
Receive(length, data) ==
  LET cur == CurAfter(m_cur, length) IN
  /\ Len(data) <= length /\ Len(nodes) + Added(length) <= MaxNodes
  /\ nodes' = Stored(Grown(length), cur, data)
  /\ IF data = << >> THEN m_cur' = cur /\ UNCHANGED <<m_position, m_size, passed>>
     ELSE MoveTo(m_position + Len(data), Grown(length)) /\ passed' = data

\* SocketStream::write: getReadBuffers, send takes n bytes, setPosition.
Send(n) ==
  /\ n \in 1..getReadSize
  /\ passed' = Bytes(n)
  /\ MoveTo(m_position + n, nodes)
  /\ UNCHANGED nodes

clear ==
  /\ m_position' = 0 /\ m_size' = 0 /\ m_cur' = 1
  /\ nodes' = <<nodes[1]>>
  /\ UNCHANGED passed

Next ==
  /\ ~crashed
  /\ \/ /\ UNCHANGED crashed
        /\ \/ \E data \in Data : write(data)
           \/ \E n \in 0..MaxSize : read(n) \/ Send(n)
           \/ toString \/ clear
           \/ \E v \in 0..m_capacity : setPosition(v)
           \/ \E length \in 1..MaxSize : \E data \in Data \cup {<< >>} : Receive(length, data)
     \/ \E n \in 0..MaxSize : readBehindNull(n)

Spec == Init /\ [][Next]_vars

-----------------------------------------------------------------------------
TypeOK ==
  /\ nodes \in Seq([0..m_baseSize - 1 -> Byte \cup {Raw}]) /\ Len(nodes) >= 1
  /\ m_cur \in 0..Len(nodes) /\ m_position \in Nat /\ m_size \in Nat
  /\ passed \in Seq(Byte \cup {Raw}) /\ crashed \in BOOLEAN

\* Position, size and m_cur, which each operation moves in its own way, agree:
\* m_cur is the node of the position, NULL just when no node has it.
PointerFits ==
  /\ m_position <= m_size /\ m_size <= m_capacity
  /\ m_cur = NodeOf(m_position, nodes)

\* The chain is a string of bytes with a position: bytes come back as they were
\* written, however the calls fall on the ends of nodes and of the chain, up to
\* a call that ends the process.
Flat == INSTANCE FlatBytes WITH
  bytes <- [i \in 1..m_size |-> nodes[(i - 1) \div m_baseSize + 1][(i - 1) % m_baseSize]],
  position <- m_position
FlatSpec == Flat!Spec
=============================================================================
