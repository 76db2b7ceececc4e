--------------------------- MODULE HttpPoolProofs ---------------------------
(***************************************************************************)
(* For any callers, requests, connections and workers: the pool of HTTP    *)
(* connections lends clean connections only, keeps no more of them than    *)
(* there are callers, and every caller gets its own answer.                *)
(*                                                                         *)
(* At any time a connection is quiet or carries one request, which waits   *)
(* to be read, is being answered or has been replied to (OneRequest).      *)
(* Server steps are steps from one of these to another (ServerShape); all  *)
(* else follows from whose request it is.                                  *)
(***************************************************************************)
EXTENDS HttpPool, FiniteSetTheorems, TLAPS

\* The server has nothing of k left to read or to answer.
Idle(k) == Len(up[k]) = 0 /\ late[k] = None /\ head[k] = None /\ server[k] # "answering"

Still(k) == Idle(k) /\ Len(down[k]) = 0

\* The tail of r has not been read yet.
Waiting(k, r) ==
  /\ r \in Request /\ Len(down[k]) = 0 /\ server[k] # "answering"
  /\ \/ /\ Len(up[k]) = 2 /\ up[k][1] = <<r, "head">> /\ up[k][2] = <<r, "tail">>
        /\ late[k] = None /\ head[k] = None
     \/ /\ Len(up[k]) = 1 /\ up[k][1] = <<r, "head">>
        /\ late[k] = r /\ head[k] = None
     \/ Len(up[k]) = 0 /\ late[k] = r /\ head[k] \in {r, None}
     \/ Len(up[k]) = 1 /\ up[k][1] = <<r, "tail">> /\ late[k] = None /\ head[k] \in {r, None}

Answering(k, r) ==
  /\ r \in Request /\ Len(down[k]) = 0 /\ server[k] = "answering"
  /\ Len(up[k]) = 0 /\ late[k] = None /\ head[k] = r

Replied(k, r) == r \in Request /\ Idle(k) /\ Len(down[k]) = 1 /\ down[k][1][1] = r

On(k, r) == Waiting(k, r) \/ Answering(k, r)

-----------------------------------------------------------------------------
(* Shapes. *)

LEMMA Exclusive ==
  ASSUME NEW k \in Conn, NEW r, NEW q
  PROVE  /\ Still(k) => ~On(k, r) /\ ~Replied(k, r)
         /\ Replied(k, r) => ~On(k, q)
         /\ On(k, r) /\ On(k, q) => r = q
         /\ Replied(k, r) /\ Replied(k, q) => r = q
         /\ Answering(k, r) => ~Waiting(k, q)
BY NoneIsNone DEF Still, Idle, On, Waiting, Answering, Replied

Same(k) ==
  /\ up'[k] = up[k] /\ late'[k] = late[k] /\ down'[k] = down[k]
  /\ server'[k] = server[k] /\ head'[k] = head[k]

LEMMA SameShape ==
  ASSUME NEW k \in Conn, Same(k)
  PROVE  /\ Still(k)' <=> Still(k)
         /\ \A r : /\ Waiting(k, r)' <=> Waiting(k, r)
                   /\ Answering(k, r)' <=> Answering(k, r)
                   /\ Replied(k, r)' <=> Replied(k, r)
                   /\ On(k, r)' <=> On(k, r)
BY DEF Same, Still, Idle, Waiting, Answering, Replied, On

WireTyped ==
  /\ up \in [Conn -> Seq(Part)] /\ late \in [Conn -> Request \cup {None}]
  /\ down \in [Conn -> Seq(Request \X BOOLEAN)] /\ hungUp \subseteq Conn
  /\ server \in [Conn -> {"none", "armed", "reading", "answering", "freed"}]
  /\ head \in [Conn -> Request \cup {None}] /\ handled \in [Request -> Nat]

LEMMA ServerFrame ==
  ASSUME WireTyped, NEW k \in Conn, ServerStep(k), NEW j \in Conn, j # k
  PROVE  Same(j)
BY DEF WireTyped, Same, ServerStep, Arrive, Event, ReadHead, ReadTail, ReadJunk, ReadDry, ReadEnd,
   Answer, Take, Leave, wire, serverVars

LEMMA PartIsPair ==
  ASSUME WireTyped, NEW k \in Conn
  PROVE  /\ Len(up[k]) \in Nat /\ up[k] \in Seq(Part)
         /\ up[k] # << >> => Len(up[k]) > 0 /\ Head(up[k]) = up[k][1]
                               /\ Tail(up[k]) \in Seq(Part)
                               /\ Len(Tail(up[k])) = Len(up[k]) - 1
                               /\ \A i \in 1..Len(up[k]) - 1 : Tail(up[k])[i] = up[k][i + 1]
         /\ up[k] = << >> => Len(up[k]) = 0
<1>1. up[k] \in Seq(Part)
  BY DEF WireTyped
<1> QED
  BY <1>1

\* What a server step does to the request on its connection.
Shape(k) ==
  /\ Still(k) => Still(k)' /\ handled' = handled
  /\ \A r : Waiting(k, r) =>
       handled' = handled /\ (Waiting(k, r)' \/ Answering(k, r)' \/ Still(k)')
  /\ \A r : Answering(k, r) => Replied(k, r)' /\ handled' = [handled EXCEPT ![r] = @ + 1]
  /\ \A r : Replied(k, r) => Replied(k, r)' /\ handled' = handled
  /\ server'[k] = "none" <=> server[k] = "none"

LEMMA ReadHeadShape == ASSUME WireTyped, NEW k \in Conn, ReadHead(k) PROVE Shape(k)
<1>1. /\ up[k] # << >> /\ head[k] = None /\ server[k] = "reading" /\ Head(up[k])[2] = "head"
      /\ up'[k] = Tail(up[k]) /\ head'[k] = Head(up[k])[1]
      /\ late'[k] = late[k] /\ down'[k] = down[k] /\ server'[k] = server[k] /\ handled' = handled
  BY DEF ReadHead, WireTyped, Take, HasHead
<1>2. /\ Len(up[k]) \in Nat /\ Len(up[k]) > 0 /\ Head(up[k]) = up[k][1]
      /\ Len(up'[k]) = Len(up[k]) - 1
      /\ Len(up[k]) > 1 => up'[k][1] = up[k][2]
  BY <1>1, PartIsPair
<1>3. ASSUME NEW r, Waiting(k, r) PROVE Waiting(k, r)'
  <2>1. CASE Len(up[k]) = 2 /\ up[k][1] = <<r, "head">> /\ up[k][2] = <<r, "tail">> /\ late[k] = None
    BY <1>1, <1>2, <1>3, <2>1 DEF Waiting
  <2>2. CASE Len(up[k]) = 1 /\ up[k][1] = <<r, "head">> /\ late[k] = r
    BY <1>1, <1>2, <1>3, <2>2 DEF Waiting
  <2> QED
    BY <1>1, <1>2, <1>3, <2>1, <2>2 DEF Waiting
<1> QED
  BY <1>1, <1>2, <1>3 DEF Shape, Still, Idle, Answering, Replied

LEMMA ReadTailShape == ASSUME WireTyped, NEW k \in Conn, ReadTail(k) PROVE Shape(k)
<1>1. /\ up[k] # << >> /\ head[k] # None /\ server[k] = "reading"
      /\ up'[k] = Tail(up[k]) /\ server'[k] = "answering"
      /\ late'[k] = late[k] /\ down'[k] = down[k] /\ head'[k] = head[k] /\ handled' = handled
  BY DEF ReadTail, WireTyped, Take, HasHead
<1>2. Len(up[k]) \in Nat /\ Len(up[k]) > 0 /\ Len(up'[k]) = Len(up[k]) - 1
  BY <1>1, PartIsPair
<1>3. ASSUME NEW r, Waiting(k, r) PROVE Answering(k, r)'
  BY <1>1, <1>2, <1>3 DEF Waiting, Answering
<1> QED
  BY <1>1, <1>2, <1>3 DEF Shape, Still, Idle, Answering, Replied

LEMMA ReadJunkShape == ASSUME WireTyped, NEW k \in Conn, ReadJunk(k) PROVE Shape(k)
<1>1. /\ up[k] # << >> /\ head[k] = None /\ server[k] = "reading" /\ Head(up[k])[2] = "tail"
      /\ up'[k] = Tail(up[k]) /\ head'[k] = None /\ server'[k] \in {"armed", "freed"}
      /\ late'[k] = late[k] /\ down'[k] = down[k] /\ handled' = handled
  BY DEF ReadJunk, WireTyped, Take, HasHead, Leave
<1>2. /\ Len(up[k]) \in Nat /\ Len(up[k]) > 0 /\ Head(up[k]) = up[k][1]
      /\ Len(up'[k]) = Len(up[k]) - 1
  BY <1>1, PartIsPair
<1>3. ASSUME NEW r, Waiting(k, r) PROVE Still(k)'
  BY <1>1, <1>2, <1>3 DEF Waiting, Still, Idle
<1> QED
  BY <1>1, <1>2, <1>3 DEF Shape, Still, Idle, Answering, Replied

\* A read that finds nothing: what is left is a tail on its way.
LEMMA ReadNothingShape ==
  ASSUME WireTyped, NEW k \in Conn, ReadDry(k) \/ ReadEnd(k)
  PROVE  Shape(k)
<1>1. /\ up[k] = << >> /\ server[k] = "reading" /\ server'[k] \in {"reading", "armed", "freed"}
      /\ up'[k] = up[k] /\ head'[k] = None
      /\ late'[k] = late[k] /\ down'[k] = down[k] /\ handled' = handled
  BY DEF ReadDry, ReadEnd, WireTyped, Leave, wire
<1>2. Len(up[k]) = 0
  BY <1>1, PartIsPair
<1>3. ASSUME NEW r, Waiting(k, r) PROVE Waiting(k, r)'
  BY <1>1, <1>2, <1>3 DEF Waiting
<1> QED
  BY <1>1, <1>2, <1>3 DEF Shape, Still, Idle, Answering, Replied

LEMMA AnswerShape == ASSUME WireTyped, NEW k \in Conn, Answer(k) PROVE Shape(k)
<1>1. PICK whole \in BOOLEAN : down' = [down EXCEPT ![k] = Append(@, <<head[k], whole>>)]
  BY DEF Answer
<1>2. /\ server[k] = "answering" /\ handled' = [handled EXCEPT ![head[k]] = @ + 1]
      /\ head'[k] = None /\ server'[k] \in {"reading", "freed"}
      /\ up'[k] = up[k] /\ late'[k] = late[k]
  BY DEF Answer, WireTyped
<1>3. ASSUME NEW r, Answering(k, r) PROVE Replied(k, r)'
  <2>1. down[k] \in Seq(Request \X BOOLEAN) /\ Len(down[k]) = 0 /\ <<head[k], whole>> \in Request \X BOOLEAN
    BY <1>3 DEF WireTyped, Answering
  <2>2. down'[k] = Append(down[k], <<head[k], whole>>)
    BY <1>1 DEF WireTyped
  <2>3. Len(down'[k]) = 1 /\ down'[k][1] = <<head[k], whole>>
    BY <2>1, <2>2
  <2> QED
    BY <1>2, <1>3, <2>3 DEF Answering, Replied, Idle
<1>4. ASSUME NEW r, Answering(k, r) PROVE handled' = [handled EXCEPT ![r] = @ + 1]
  BY <1>2, <1>4 DEF Answering
<1> QED
  BY <1>2, <1>3, <1>4 DEF Shape, Still, Idle, Waiting, Replied

LEMMA ArriveShape == ASSUME WireTyped, NEW k \in Conn, Arrive(k) PROVE Shape(k)
<1>1. /\ late[k] # None /\ late'[k] = None
      /\ up'[k] = Append(up[k], <<late[k], "tail">>)
      /\ server'[k] = server[k] /\ down'[k] = down[k] /\ head'[k] = head[k] /\ handled' = handled
  BY DEF Arrive, WireTyped, serverVars
<1>2. up[k] \in Seq(Part) /\ <<late[k], "tail">> \in Part
  BY <1>1 DEF WireTyped, Part
<1>3. /\ Len(up[k]) \in Nat /\ Len(up'[k]) = Len(up[k]) + 1
      /\ up'[k][Len(up[k]) + 1] = <<late[k], "tail">>
      /\ \A i \in 1..Len(up[k]) : up'[k][i] = up[k][i]
  BY <1>1, <1>2
<1>4. ASSUME NEW r, Waiting(k, r) PROVE Waiting(k, r)'
  BY <1>1, <1>3, <1>4, NoneIsNone DEF Waiting
<1> QED
  BY <1>1, <1>4 DEF Shape, Still, Idle, Answering, Replied

LEMMA EventShape == ASSUME WireTyped, NEW k \in Conn, Event(k) PROVE Shape(k)
<1>1. /\ server[k] = "armed" /\ server'[k] = "reading" /\ up'[k] = up[k] /\ late'[k] = late[k]
      /\ down'[k] = down[k] /\ head'[k] = head[k] /\ handled' = handled
  BY DEF Event, WireTyped, wire
<1> QED
  BY <1>1 DEF Shape, Still, Idle, Waiting, Answering, Replied

LEMMA ServerShape == ASSUME WireTyped, NEW k \in Conn, ServerStep(k) PROVE Shape(k)
BY ReadHeadShape, ReadTailShape, ReadJunkShape, ReadNothingShape, AnswerShape, ArriveShape, EventShape
   DEF ServerStep

-----------------------------------------------------------------------------
(* The invariant. *)

Uses(c) == caller[c] \in {"sending", "receiving", "done"}

\* A worker that answers has a request; a caller that is in a call is at a
\* request of its own, and holds a connection exactly when it uses one; the
\* connections held or pooled have been opened.
Typed ==
  /\ TypeOK
  /\ \A k \in Conn : server[k] = "answering" => head[k] \in Request
  /\ \A c \in Caller : caller[c] # "idle" => turn[c] >= 1
  /\ \A c \in Caller : IF Uses(c) THEN mine[c] \in 1..opened ELSE mine[c] = None
  /\ \A i \in 1..Len(m_conns) : m_conns[i] \in 1..opened

OneRequest == \A k \in Conn : Still(k) \/ \E r \in Request : On(k, r) \/ Replied(k, r)

Unopened == \A k \in Conn : k > opened => Still(k)

Handling ==
  \A r \in Request :
    /\ handled[r] \in {0, 1} /\ (outcome[r] = "new" => handled[r] = 0)
    /\ \A k \in Conn : On(k, r) => handled[r] = 0 /\ outcome[r] # "new"
    /\ \A k \in Conn : Replied(k, r) => handled[r] = 1
    /\ \A j, k \in Conn : On(j, r) /\ On(k, r) => j = k

Lending ==
  /\ \A c, d \in Caller : Uses(c) /\ Uses(d) /\ mine[c] = mine[d] => c = d
  /\ \A c \in Caller, i \in 1..Len(m_conns) : mine[c] # m_conns[i]
  /\ \A i, j \in 1..Len(m_conns) : m_conns[i] = m_conns[j] => i = j
  /\ \A i \in 1..Len(m_conns), k \in Conn : m_conns[i] = k => k \in connected /\ Still(k)

\* What a caller knows of its request and of its connection.
CallOf(c) ==
  /\ \A i \in 1..Len(Asks[c]) : i > turn[c] => outcome[Asks[c][i]] = "new"
  /\ \A r \in Request : caller[c] # "idle" /\ r = Now(c) =>
       /\ caller[c] \in {"asking", "connecting", "sending", "receiving"} => outcome[r] = "asked"
       /\ caller[c] \in {"asking", "connecting", "sending"} =>
            handled[r] = 0 /\ \A k \in Conn : ~On(k, r)
  /\ \A k \in Conn : k = mine[c] =>
       /\ caller[c] = "sending" => Still(k)
       /\ caller[c] \in {"sending", "receiving"} => k \in connected
       /\ caller[c] = "receiving" =>
            \A r \in Request : On(k, r) \/ Replied(k, r) => r = Now(c)
       /\ caller[c] = "done" /\ k \in connected => Still(k)

Calls == \A c \in Caller : CallOf(c)

HttpInv ==
  Typed /\ OneRequest /\ Unopened /\ Handling /\ Lending /\ Calls /\ NoMoreThanCallers

-----------------------------------------------------------------------------
(* Types. *)

LEMMA AsksAreRequests ==
  ASSUME NEW c \in Caller
  PROVE  /\ Asks[c] \in Seq(Request) /\ Len(Asks[c]) \in Nat
         /\ \A i \in 1..Len(Asks[c]) : Asks[c][i] \in Request
BY AsksDiffer

LEMMA NowIsRequest ==
  ASSUME Typed, NEW c \in Caller, caller[c] # "idle"
  PROVE  turn[c] \in 1..Len(Asks[c]) /\ Now(c) \in Request
<1>1. turn[c] \in Nat /\ turn[c] >= 1 /\ turn[c] <= Len(Asks[c])
  BY DEF Typed, TypeOK
<1>2. turn[c] \in 1..Len(Asks[c])
  BY <1>1, AsksAreRequests
<1> QED
  BY <1>2, AsksAreRequests DEF Now

LEMMA OwnRequest ==
  ASSUME Typed, NEW c \in Caller, caller[c] # "idle",
         NEW d \in Caller, NEW i \in 1..Len(Asks[d]), Asks[d][i] = Now(c)
  PROVE  d = c /\ i = turn[c]
<1>1. turn[c] \in 1..Len(Asks[c])
  BY NowIsRequest
<1>2. turn[c] \in DOMAIN Asks[c] /\ i \in DOMAIN Asks[d]
  BY <1>1, AsksAreRequests
<1> QED
  BY <1>2, AsksDiffer DEF Now

\* The connection that a caller uses.
LEMMA MineIsConn ==
  ASSUME Typed, NEW c \in Caller, Uses(c)
  PROVE  mine[c] \in Conn /\ mine[c] \in 1..opened
BY Bounds DEF Typed, TypeOK, Conn

LEMMA PoolIsSeq ==
  ASSUME Typed
  PROVE  /\ Len(m_conns) \in Nat /\ DOMAIN m_conns = 1..Len(m_conns)
         /\ \A i \in 1..Len(m_conns) : m_conns[i] \in Conn
BY DEF Typed, TypeOK

LEMMA CallTyped == ASSUME Typed, NEW c \in Caller, Call(c) PROVE Typed'
<1>1. /\ turn' = [turn EXCEPT ![c] = @ + 1] /\ caller' = [caller EXCEPT ![c] = "asking"]
      /\ outcome' = [outcome EXCEPT ![Asks[c][turn[c] + 1]] = "asked"]
      /\ caller[c] = "idle" /\ turn[c] < Len(Asks[c])
  BY DEF Call, Goto
<1>2. UNCHANGED <<up, late, down, hungUp, server, head, handled, m_conns, connected, m_request, opened, mine>>
  BY DEF Call, wire, serverVars, poolVars
<1>3. /\ turn' \in [Caller -> Nat]
      /\ outcome' \in [Request -> {"new", "asked", "failed"} \cup Request]
      /\ caller' \in [Caller -> {"idle", "asking", "connecting", "sending", "receiving", "done"}]
  <2>1. turn' \in [Caller -> Nat]
    BY <1>1 DEF Typed, TypeOK
  <2>2. outcome' \in [Request -> {"new", "asked", "failed"} \cup Request]
    BY <1>1 DEF Typed, TypeOK
  <2>3. caller' \in [Caller -> {"idle", "asking", "connecting", "sending", "receiving", "done"}]
    BY <1>1 DEF Typed, TypeOK
  <2> QED
    BY <2>1, <2>2, <2>3
<1>4. \A d \in Caller : turn'[d] <= Len(Asks[d]) /\ (caller'[d] # "idle" => turn'[d] >= 1)
  BY <1>1, AsksAreRequests DEF Typed, TypeOK
<1>5. \A d \in Caller : Uses(d)' <=> Uses(d)
  BY <1>1 DEF Uses, Typed, TypeOK
<1> QED
  BY <1>2, <1>3, <1>4, <1>5 DEF Typed, TypeOK

LEMMA DropShape ==
  ASSUME NEW q \in Seq(Conn), NEW n \in 0..Len(q)
  PROVE  LET rest == SubSeq(q, n + 1, Len(q)) IN
         /\ rest \in Seq(Conn) /\ Len(rest) = Len(q) - n
         /\ \A i \in 1..Len(rest) : rest[i] = q[i + n]
OBVIOUS

\* The connection that getConnection takes from the pool is the n-th of it.
LEMMA Popped ==
  ASSUME Typed, NEW c \in Caller, PopConnection(c)
  PROVE  \E n \in 0..Len(m_conns) :
           /\ m_conns' \in Seq(Conn) /\ Len(m_conns') = Len(m_conns) - n
           /\ \A i \in 1..Len(m_conns') : m_conns'[i] = m_conns[i + n]
           /\ \/ n = Len(m_conns) /\ caller' = [caller EXCEPT ![c] = "connecting"] /\ mine' = mine
              \/ /\ n >= 1 /\ caller' = [caller EXCEPT ![c] = "sending"]
                 /\ mine' = [mine EXCEPT ![c] = m_conns[n]] /\ m_conns[n] \in connected
<1>1. m_conns \in Seq(Conn) /\ Len(m_conns) \in Nat /\ DOMAIN m_conns = 1..Len(m_conns)
  BY DEF Typed, TypeOK
<1>2. \E n \in 0..Len(m_conns) :
        /\ m_conns' = SubSeq(m_conns, n + 1, Len(m_conns))
        /\ \/ n = Len(m_conns) /\ caller' = [caller EXCEPT ![c] = "connecting"] /\ mine' = mine
           \/ /\ n >= 1 /\ caller' = [caller EXCEPT ![c] = "sending"]
              /\ mine' = [mine EXCEPT ![c] = m_conns[n]] /\ m_conns[n] \in connected
  <2>1. CASE \E n \in DOMAIN m_conns :
               /\ m_conns[n] \in connected /\ m_conns' = AfterPop(n)
               /\ mine' = [mine EXCEPT ![c] = m_conns[n]] /\ Goto(c, "sending")
    <3>1. PICK n \in DOMAIN m_conns :
               /\ m_conns[n] \in connected /\ m_conns' = AfterPop(n)
               /\ mine' = [mine EXCEPT ![c] = m_conns[n]] /\ Goto(c, "sending")
      BY <2>1
    <3>2. n \in 0..Len(m_conns) /\ n >= 1
      BY <1>1
    <3> QED
      BY <3>1, <3>2 DEF AfterPop, Goto
  <2>2. CASE m_conns' = AfterPop(Len(m_conns)) /\ Goto(c, "connecting") /\ UNCHANGED mine
    <3>1. Len(m_conns) \in 0..Len(m_conns)
      BY <1>1
    <3> QED
      BY <2>2, <3>1 DEF AfterPop, Goto
  <2> QED
    BY <2>1, <2>2 DEF PopConnection
<1>3. PICK n \in 0..Len(m_conns) :
        /\ m_conns' = SubSeq(m_conns, n + 1, Len(m_conns))
        /\ \/ n = Len(m_conns) /\ caller' = [caller EXCEPT ![c] = "connecting"] /\ mine' = mine
           \/ /\ n >= 1 /\ caller' = [caller EXCEPT ![c] = "sending"]
              /\ mine' = [mine EXCEPT ![c] = m_conns[n]] /\ m_conns[n] \in connected
  BY <1>2
<1>4. /\ m_conns' \in Seq(Conn) /\ Len(m_conns') = Len(m_conns) - n
      /\ \A i \in 1..Len(m_conns') : m_conns'[i] = m_conns[i + n]
  BY <1>1, <1>3, DropShape
<1> QED
  BY <1>3, <1>4

LEMMA PopTyped == ASSUME Typed, NEW c \in Caller, PopConnection(c) PROVE Typed'
<1>1. PICK n \in 0..Len(m_conns) :
        /\ m_conns' \in Seq(Conn) /\ Len(m_conns') = Len(m_conns) - n
        /\ \A i \in 1..Len(m_conns') : m_conns'[i] = m_conns[i + n]
        /\ \/ n = Len(m_conns) /\ caller' = [caller EXCEPT ![c] = "connecting"] /\ mine' = mine
           \/ /\ n >= 1 /\ caller' = [caller EXCEPT ![c] = "sending"]
              /\ mine' = [mine EXCEPT ![c] = m_conns[n]] /\ m_conns[n] \in connected
  BY Popped
<1>2. \A i \in 1..Len(m_conns') : m_conns'[i] \in 1..opened
  <2>1. \A i \in 1..Len(m_conns') : i + n \in 1..Len(m_conns)
    BY <1>1, PoolIsSeq
  <2>2. \A i \in 1..Len(m_conns') : m_conns'[i] = m_conns[i + n]
    BY <1>1
  <2>3. \A i \in 1..Len(m_conns) : m_conns[i] \in 1..opened
    BY DEF Typed
  <2> QED
    BY <2>1, <2>2, <2>3
<1>3. caller[c] = "asking" /\ UNCHANGED <<up, late, down, hungUp, server, head, handled, connected, m_request, opened, turn, outcome>>
  BY DEF PopConnection, wire, serverVars
<1>4. \A d \in Caller : turn'[d] >= 1 \/ caller'[d] = "idle"
  BY <1>1, <1>3 DEF Typed, TypeOK
<1>5. CASE n = Len(m_conns) /\ caller' = [caller EXCEPT ![c] = "connecting"] /\ mine' = mine
  <2>1. \A d \in Caller : Uses(d)' <=> Uses(d)
    BY <1>3, <1>5 DEF Uses, Typed, TypeOK
  <2>2. caller' \in [Caller -> {"idle", "asking", "connecting", "sending", "receiving", "done"}]
    BY <1>5 DEF Typed, TypeOK
  <2> QED
    BY <1>1, <1>2, <1>3, <1>4, <1>5, <2>1, <2>2 DEF Typed, TypeOK
<1>6. CASE /\ n >= 1 /\ caller' = [caller EXCEPT ![c] = "sending"]
           /\ mine' = [mine EXCEPT ![c] = m_conns[n]]
  <2>1. n \in 1..Len(m_conns) /\ m_conns[n] \in Conn /\ m_conns[n] \in 1..opened
    BY <1>6, PoolIsSeq DEF Typed
  <2>2. mine' \in [Caller -> Conn \cup {None}]
    BY <1>6, <2>1 DEF Typed, TypeOK
  <2>3. caller' \in [Caller -> {"idle", "asking", "connecting", "sending", "receiving", "done"}]
    BY <1>6 DEF Typed, TypeOK
  <2>4. \A d \in Caller : IF Uses(d)' THEN mine'[d] \in 1..opened ELSE mine'[d] = None
    BY <1>6, <2>1 DEF Typed, TypeOK, Uses
  <2> QED
    BY <1>1, <1>2, <1>3, <1>4, <2>2, <2>3, <2>4 DEF Typed, TypeOK
<1> QED
  BY <1>1, <1>5, <1>6

LEMMA ConnectTyped == ASSUME Typed, NEW c \in Caller, Connect(c) PROVE Typed'
<1> DEFINE k == opened + 1
<1>1. /\ k \in Conn /\ opened' = k /\ connected' = connected \cup {k} /\ caller[c] = "connecting"
      /\ mine' = [mine EXCEPT ![c] = k] /\ caller' = [caller EXCEPT ![c] = "sending"]
      /\ server' = [server EXCEPT ![k] = "armed"]
      /\ UNCHANGED <<up, late, down, hungUp, head, handled, m_conns, m_request, turn, outcome>>
  BY DEF Connect, Goto, wire
<1>2. opened \in Nat /\ opened' \in 0..MaxConn /\ k \in 1..opened'
  BY <1>1, Bounds DEF Typed, TypeOK, Conn
<1>3. /\ server' \in [Conn -> {"none", "armed", "reading", "answering", "freed"}]
      /\ \A j \in Conn : server'[j] = "answering" => head'[j] \in Request
  BY <1>1 DEF Typed, TypeOK
<1>4. /\ mine' \in [Caller -> Conn \cup {None}]
      /\ caller' \in [Caller -> {"idle", "asking", "connecting", "sending", "receiving", "done"}]
  BY <1>1 DEF Typed, TypeOK
<1>5. \A d \in Caller : turn'[d] >= 1 \/ caller'[d] = "idle"
  BY <1>1 DEF Typed, TypeOK
<1>6. \A d \in Caller : IF Uses(d)' THEN mine'[d] \in 1..opened' ELSE mine'[d] = None
  BY <1>1, <1>2 DEF Typed, TypeOK, Uses
<1>7. \A i \in 1..Len(m_conns') : m_conns'[i] \in 1..opened'
  <2>1. 1..opened \subseteq 1..opened' /\ m_conns' = m_conns
    BY <1>1, <1>2
  <2> QED
    BY <2>1 DEF Typed
<1> QED
  BY <1>1, <1>2, <1>3, <1>4, <1>5, <1>6, <1>7 DEF Typed, TypeOK

\* A request that fails before or while it is sent.
LEMMA FailsTyped ==
  ASSUME Typed, NEW c \in Caller, ConnectFails(c) \/ SendFails(c)
  PROVE  Typed'
<1>1. /\ caller[c] # "idle" /\ outcome' = [outcome EXCEPT ![Now(c)] = "failed"]
      /\ UNCHANGED <<up, late, down, hungUp, server, head, handled, m_conns, connected, m_request, opened, mine, turn>>
      /\ \/ caller[c] = "connecting" /\ caller' = [caller EXCEPT ![c] = "idle"]
         \/ caller[c] = "sending" /\ caller' = [caller EXCEPT ![c] = "done"]
  BY DEF ConnectFails, SendFails, Ends, Goto, wire, serverVars, poolVars
<1>2. outcome' \in [Request -> {"new", "asked", "failed"} \cup Request]
  BY <1>1, NowIsRequest DEF Typed, TypeOK
<1>3. caller' \in [Caller -> {"idle", "asking", "connecting", "sending", "receiving", "done"}]
  BY <1>1 DEF Typed, TypeOK
<1>4. \A d \in Caller : (Uses(d)' <=> Uses(d)) /\ (caller'[d] # "idle" => caller[d] # "idle")
  BY <1>1 DEF Typed, TypeOK, Uses
<1> QED
  BY <1>1, <1>2, <1>3, <1>4 DEF Typed, TypeOK

LEMMA SendTyped == ASSUME Typed, NEW c \in Caller, SendRequest(c) PROVE Typed'
<1> DEFINE k == mine[c]  r == Now(c)
<1>1. /\ caller[c] = "sending" /\ caller' = [caller EXCEPT ![c] = "receiving"]
      /\ UNCHANGED <<down, hungUp, server, head, handled, m_conns, connected, m_request, opened, mine, turn, outcome>>
  BY DEF SendRequest, Goto, serverVars, poolVars
<1>2. k \in Conn /\ r \in Request /\ up[k] \in Seq(Part)
  BY <1>1, MineIsConn, NowIsRequest DEF Typed, TypeOK, Uses
<1>3. <<r, "head">> \in Part /\ <<r, "tail">> \in Part
  BY <1>2 DEF Part
<1>4. /\ up[k] \o <<<<r, "head">>, <<r, "tail">>>> \in Seq(Part)
      /\ Append(up[k], <<r, "head">>) \in Seq(Part)
  BY <1>2, <1>3
<1>5. /\ \/ up' = up \/ up' = [up EXCEPT ![k] = up[k] \o <<<<r, "head">>, <<r, "tail">>>>]
         \/ up' = [up EXCEPT ![k] = Append(up[k], <<r, "head">>)]
      /\ late' = late \/ late' = [late EXCEPT ![k] = r]
  BY DEF SendRequest
<1>6. up' \in [Conn -> Seq(Part)] /\ late' \in [Conn -> Request \cup {None}]
  <2> HIDE DEF k, r
  <2>1. up' \in [Conn -> Seq(Part)]
    BY <1>2, <1>4, <1>5 DEF Typed, TypeOK
  <2>2. late' \in [Conn -> Request \cup {None}]
    BY <1>2, <1>5 DEF Typed, TypeOK
  <2> QED
    BY <2>1, <2>2
<1>7. /\ caller' \in [Caller -> {"idle", "asking", "connecting", "sending", "receiving", "done"}]
      /\ \A d \in Caller : (Uses(d)' <=> Uses(d)) /\ (caller'[d] # "idle" => caller[d] # "idle")
  BY <1>1 DEF Typed, TypeOK, Uses
<1> QED
  BY <1>1, <1>6, <1>7 DEF Typed, TypeOK

\* What the caller finds when it reads an answer.
LEMMA AnswerFound ==
  ASSUME Typed, NEW k \in Conn, Answered(k)
  PROVE  /\ Len(down[k]) \in Nat /\ Len(down[k]) > 0 /\ Head(down[k]) = down[k][1]
         /\ down[k][1][1] \in Request
<1>1. down[k] \in Seq(Request \X BOOLEAN) /\ down[k] # << >>
  BY DEF Answered, Typed, TypeOK
<1>2. Len(down[k]) \in Nat /\ Len(down[k]) > 0 /\ down[k][1] \in Request \X BOOLEAN /\ Head(down[k]) = down[k][1]
  BY <1>1
<1> QED
  BY <1>2

LEMMA RecvTyped == ASSUME Typed, NEW c \in Caller, RecvResponse(c) PROVE Typed'
<1>1. /\ caller[c] = "receiving" /\ Answered(mine[c]) /\ caller' = [caller EXCEPT ![c] = "done"]
      /\ outcome' = [outcome EXCEPT ![Now(c)] = Head(down[mine[c]])[1]]
      /\ down' = [down EXCEPT ![mine[c]] = << >>]
      /\ UNCHANGED <<up, late, hungUp, server, head, handled, m_conns, connected, m_request, opened, mine, turn>>
  BY DEF RecvResponse, Ends, Goto, serverVars, poolVars
<1>2. Head(down[mine[c]])[1] \in Request
  BY <1>1, MineIsConn, AnswerFound DEF Uses
<1>3. outcome' \in [Request -> {"new", "asked", "failed"} \cup Request]
  BY <1>1, <1>2 DEF Typed, TypeOK
<1>4. down' \in [Conn -> Seq(Request \X BOOLEAN)]
  <2>1. << >> \in Seq(Request \X BOOLEAN) /\ down \in [Conn -> Seq(Request \X BOOLEAN)]
    BY DEF Typed, TypeOK
  <2> QED
    BY <1>1, <2>1
<1>5. /\ caller' \in [Caller -> {"idle", "asking", "connecting", "sending", "receiving", "done"}]
      /\ \A d \in Caller : (Uses(d)' <=> Uses(d)) /\ (caller'[d] # "idle" => caller[d] # "idle")
  BY <1>1 DEF Typed, TypeOK, Uses
<1> QED
  BY <1>1, <1>3, <1>4, <1>5 DEF Typed, TypeOK

LEMMA RecvFailsTyped == ASSUME Typed, NEW c \in Caller, RecvFails(c) PROVE Typed'
<1>1. /\ caller[c] = "receiving" /\ caller' = [caller EXCEPT ![c] = "done"]
      /\ outcome' = [outcome EXCEPT ![Now(c)] = "failed"]
      /\ connected' = connected \ {mine[c]} /\ hungUp' = hungUp \cup {mine[c]}
      /\ UNCHANGED <<up, late, down, server, head, handled, m_conns, m_request, opened, mine, turn>>
  BY DEF RecvFails, Ends, Goto, Close, serverVars
<1>2. mine[c] \in Conn
  BY <1>1, MineIsConn DEF Uses
<1>3. outcome' \in [Request -> {"new", "asked", "failed"} \cup Request]
  BY <1>1 DEF Typed, TypeOK
<1>4. /\ caller' \in [Caller -> {"idle", "asking", "connecting", "sending", "receiving", "done"}]
      /\ \A d \in Caller : (Uses(d)' <=> Uses(d)) /\ (caller'[d] # "idle" => caller[d] # "idle")
  BY <1>1 DEF Typed, TypeOK, Uses
<1> QED
  BY <1>1, <1>2, <1>3, <1>4 DEF Typed, TypeOK

\* What ReleasePtr does to the pool.
LEMMA Released ==
  ASSUME Typed, NEW c \in Caller, Release(c)
  PROVE  /\ caller[c] = "done" /\ caller' = [caller EXCEPT ![c] = "idle"]
         /\ mine' = [mine EXCEPT ![c] = None] /\ mine[c] \in Conn /\ mine[c] \in 1..opened
         /\ UNCHANGED <<up, late, down, server, head, handled, opened, turn, outcome>>
         /\ m_conns' \in Seq(Conn) /\ \A i \in 1..Len(m_conns) : m_conns'[i] = m_conns[i]
         /\ \/ /\ Len(m_conns') = Len(m_conns) + 1 /\ m_conns'[Len(m_conns) + 1] = mine[c]
               /\ mine[c] \in connected /\ connected' = connected
            \/ Len(m_conns') = Len(m_conns) /\ connected' = connected \ {mine[c]}
<1>1. /\ caller[c] = "done" /\ caller' = [caller EXCEPT ![c] = "idle"]
      /\ mine' = [mine EXCEPT ![c] = None]
      /\ UNCHANGED <<up, late, down, server, head, handled, opened, turn, outcome>>
  BY DEF Release, Goto, serverVars
<1>2. mine[c] \in Conn /\ mine[c] \in 1..opened
  BY <1>1, MineIsConn DEF Uses
<1>3. m_conns \in Seq(Conn) /\ Len(m_conns) \in Nat
  BY DEF Typed, TypeOK
<1>4. CASE m_conns' = Append(m_conns, mine[c]) /\ Reusable(mine[c]) /\ connected' = connected
  BY <1>1, <1>2, <1>3, <1>4 DEF Reusable
<1>5. CASE m_conns' = m_conns /\ connected' = connected \ {mine[c]}
  BY <1>1, <1>2, <1>3, <1>5
<1> QED
  BY <1>4, <1>5 DEF Release, Close

LEMMA ReleaseTyped == ASSUME Typed, NEW c \in Caller, Release(c) PROVE Typed'
<1>1. /\ m_conns' \in Seq(Conn) /\ connected' \subseteq Conn /\ hungUp' \subseteq Conn
      /\ m_request' \in [Conn -> Nat]
      /\ UNCHANGED <<up, late, down, server, head, handled, opened, turn, outcome>>
  <2>1. mine[c] \in Conn /\ m_request' = [m_request EXCEPT ![mine[c]] = @ + 1]
    BY Released DEF Release
  <2>2. m_request' \in [Conn -> Nat]
    BY <2>1 DEF Typed, TypeOK
  <2>3. connected' \subseteq Conn /\ hungUp' \subseteq Conn
    BY <2>1 DEF Release, Close, Typed, TypeOK
  <2> QED
    BY <2>2, <2>3, Released
<1>2. \A i \in 1..Len(m_conns') : m_conns'[i] \in 1..opened
  BY Released, PoolIsSeq DEF Typed
<1>3. /\ caller' \in [Caller -> {"idle", "asking", "connecting", "sending", "receiving", "done"}]
      /\ mine' \in [Caller -> Conn \cup {None}]
  BY Released DEF Typed, TypeOK
<1>4. \A d \in Caller : IF Uses(d)' THEN mine'[d] \in 1..opened ELSE mine'[d] = None
  BY Released DEF Typed, TypeOK, Uses
<1>5. \A d \in Caller : caller'[d] # "idle" => caller[d] # "idle"
  BY Released DEF Typed, TypeOK
<1> QED
  BY <1>1, <1>2, <1>3, <1>4, <1>5 DEF Typed, TypeOK

LEMMA ServeTyped == ASSUME Typed, NEW k \in Conn, Serve(k) PROVE Typed'
<1>1. UNCHANGED <<m_conns, connected, m_request, opened, caller, mine, turn, outcome>>
  BY DEF Serve, poolVars, callVars
<1>2. WireTyped /\ ServerStep(k)
  BY DEF Typed, TypeOK, WireTyped, Serve
<1>3. WireTyped' /\ \A j \in Conn : server'[j] = "answering" => head'[j] \in Request
  <2> USE <1>2 DEF WireTyped
  <2>a. \A j \in Conn : server[j] = "answering" => head[j] \in Request
    BY DEF Typed
  <2>b. up[k] # << >> => Tail(up[k]) \in Seq(Part) /\ Head(up[k]) \in Part
    OBVIOUS
  <2>1. CASE Arrive(k)
    <3>1. up[k] \in Seq(Part) /\ late[k] \in Request
      BY <2>1 DEF Arrive
    <3>2. <<late[k], "tail">> \in Part
      BY <3>1 DEF Part
    <3>3. Append(up[k], <<late[k], "tail">>) \in Seq(Part)
      BY <3>1, <3>2
    <3> QED
      BY <2>1, <2>a, <3>3 DEF Arrive, serverVars
  <2>2. CASE Event(k)
    BY <2>2, <2>a DEF Event, wire
  <2>3. CASE ReadHead(k)
    <3>1. up[k] # << >> /\ Head(up[k])[1] \in Request
      BY <2>3, <2>b DEF ReadHead, Part
    <3> QED
      BY <2>3, <2>a, <2>b, <3>1 DEF ReadHead, Take
  <2>4. CASE ReadTail(k)
    BY <2>4, <2>a, <2>b DEF ReadTail, Take, HasHead
  <2>5. CASE ReadJunk(k)
    BY <2>5, <2>a, <2>b DEF ReadJunk, Take, Leave
  <2>6. CASE ReadDry(k)
    BY <2>6, <2>a DEF ReadDry, Leave, wire
  <2>7. CASE ReadEnd(k)
    BY <2>7, <2>a DEF ReadEnd, Leave, wire
  <2>8. CASE Answer(k)
    <3>1. PICK whole \in BOOLEAN : down' = [down EXCEPT ![k] = Append(@, <<head[k], whole>>)]
      BY <2>8 DEF Answer
    <3>2. head[k] \in Request
      BY <2>8, <2>a DEF Answer
    <3>3. Append(down[k], <<head[k], whole>>) \in Seq(Request \X BOOLEAN)
      BY <3>2
    <3>4. down' \in [Conn -> Seq(Request \X BOOLEAN)]
      BY <3>1, <3>3
    <3> QED
      BY <2>8, <2>a, <3>2, <3>4 DEF Answer
  <2> QED
    BY <2>1, <2>2, <2>3, <2>4, <2>5, <2>6, <2>7, <2>8 DEF ServerStep
<1>4. \A d \in Caller : Uses(d)' <=> Uses(d)
  BY <1>1 DEF Uses
<1> QED
  BY <1>1, <1>3, <1>4 DEF Typed, TypeOK, WireTyped

-----------------------------------------------------------------------------
(* Requests: OneRequest, Unopened and Handling. *)

\* A new request is one that no step has touched.
NewStays == \A r \in Request : outcome'[r] = "new" => outcome[r] = "new"

\* These steps leave what is on the connections alone.
LEMMA QuietStep ==
  ASSUME Typed, NEW c \in Caller,
         \/ Call(c) \/ PopConnection(c) \/ ConnectFails(c) \/ SendFails(c)
         \/ RecvFails(c) \/ Release(c)
  PROVE  (\A k \in Conn : Same(k)) /\ handled' = handled /\ opened' = opened /\ NewStays
<1>1. UNCHANGED <<up, late, down, server, head, handled, opened>>
  BY DEF Call, PopConnection, ConnectFails, SendFails, RecvFails, Release, wire, serverVars, poolVars
<1>2. NewStays
  BY DEF Call, PopConnection, ConnectFails, SendFails, RecvFails, Release, Ends, NewStays, Typed, TypeOK
<1> QED
  BY <1>1, <1>2 DEF Same

LEMMA QuietRequests ==
  ASSUME OneRequest, Unopened, Handling, \A k \in Conn : Same(k),
         handled' = handled, opened' = opened, NewStays
  PROVE  (OneRequest /\ Unopened /\ Handling)'
<1>1. \A k \in Conn : /\ Still(k)' <=> Still(k)
                      /\ \A r : (On(k, r)' <=> On(k, r)) /\ (Replied(k, r)' <=> Replied(k, r))
  BY SameShape
<1>2. OneRequest' /\ Unopened'
  BY <1>1 DEF OneRequest, Unopened
<1>3. Handling'
  BY <1>1 DEF Handling, NewStays
<1> QED
  BY <1>2, <1>3

\* The connection is new, and so nothing is on it.
LEMMA ConnectEffect ==
  ASSUME Typed, Unopened, NEW c \in Caller, Connect(c), NEW k \in Conn, k = opened + 1
  PROVE  /\ Still(k) /\ Still(k)' /\ \A j \in Conn : j # k => Same(j)
         /\ opened' = k /\ handled' = handled /\ outcome' = outcome
<1>1. /\ server' = [server EXCEPT ![k] = "armed"] /\ opened' = k
      /\ UNCHANGED <<up, late, down, head, handled, outcome>>
  BY DEF Connect, wire
<1>2. Still(k)
  <2>1. opened \in Nat /\ k > opened
    BY DEF Typed, TypeOK
  <2> QED
    BY <2>1 DEF Unopened
<1>3. Still(k)'
  BY <1>1, <1>2 DEF Still, Idle, Typed, TypeOK
<1> QED
  BY <1>1, <1>2, <1>3 DEF Same, Typed, TypeOK

\* A request goes out on a still connection, or the server has closed it.
LEMMA SendEffect ==
  ASSUME Typed, NEW c \in Caller, SendRequest(c),
         NEW k \in Conn, k = mine[c], Still(k), NEW r \in Request, r = Now(c)
  PROVE  /\ Still(k)' \/ On(k, r)'
         /\ \A j \in Conn : j # k => Same(j)
         /\ UNCHANGED <<opened, handled, outcome>>
<1>1. caller[c] = "sending" /\ UNCHANGED <<down, server, head, opened, handled, outcome>>
  BY DEF SendRequest, serverVars, poolVars
<1>2. up[k] = << >> /\ r # None
  <2>1. up[k] \in Seq(Part) /\ Len(up[k]) = 0
    BY DEF Still, Idle, Typed, TypeOK
  <2> QED
    BY <2>1, NoneIsNone
<1>3. CASE UNCHANGED <<up, late>>
  <2>1. \A j \in Conn : Same(j)
    BY <1>1, <1>3 DEF Same
  <2>2. Still(k)'
    BY <2>1, SameShape
  <2> QED
    BY <1>1, <2>1, <2>2
<1>4. CASE up' = [up EXCEPT ![k] = @ \o <<<<r, "head">>, <<r, "tail">>>>] /\ late' = late
  <2>1. up'[k] = << >> \o <<<<r, "head">>, <<r, "tail">>>>
    BY <1>2, <1>4 DEF Typed, TypeOK
  <2>2. Len(up'[k]) = 2 /\ up'[k][1] = <<r, "head">> /\ up'[k][2] = <<r, "tail">>
    BY <2>1
  <2>3. Waiting(k, r)'
    BY <1>1, <1>2, <1>4, <2>2 DEF Still, Idle, Waiting
  <2>4. \A j \in Conn : j # k => Same(j)
    BY <1>1, <1>4 DEF Same, Typed, TypeOK
  <2> QED
    BY <1>1, <2>3, <2>4 DEF On
<1>5. CASE up' = [up EXCEPT ![k] = Append(@, <<r, "head">>)] /\ late' = [late EXCEPT ![k] = r]
  <2>1. up'[k] = Append(<< >>, <<r, "head">>) /\ late'[k] = r
    BY <1>2, <1>5 DEF Typed, TypeOK
  <2>2. Len(up'[k]) = 1 /\ up'[k][1] = <<r, "head">>
    BY <2>1
  <2>3. Waiting(k, r)'
    BY <1>1, <1>2, <2>1, <2>2 DEF Still, Idle, Waiting
  <2>4. \A j \in Conn : j # k => Same(j)
    BY <1>1, <1>5 DEF Same, Typed, TypeOK
  <2> QED
    BY <1>1, <2>3, <2>4 DEF On
<1> QED
  BY <1>3, <1>4, <1>5 DEF SendRequest

\* The answer that a caller reads is its own.
LEMMA RecvEffect ==
  ASSUME Typed, OneRequest, NEW c \in Caller, CallOf(c), RecvResponse(c),
         NEW k \in Conn, k = mine[c], NEW r \in Request, r = Now(c)
  PROVE  /\ Replied(k, r) /\ Still(k)'
         /\ \A j \in Conn : j # k => Same(j)
         /\ outcome' = [outcome EXCEPT ![r] = r]
         /\ UNCHANGED <<opened, handled>>
<1>1. /\ caller[c] = "receiving" /\ Answered(k)
      /\ down' = [down EXCEPT ![k] = << >>]
      /\ UNCHANGED <<up, late, server, head, opened, handled>>
      /\ outcome' = [outcome EXCEPT ![r] = Head(down[k])[1]]
  BY DEF RecvResponse, serverVars, poolVars, Ends
<1>2. Len(down[k]) \in Nat /\ Len(down[k]) > 0 /\ Head(down[k]) = down[k][1]
  BY <1>1, AnswerFound
<1>3. PICK q \in Request : Replied(k, q)
  BY <1>2 DEF OneRequest, Still, On, Waiting, Answering
<1>4. r = q /\ Head(down[k])[1] = r
  BY <1>1, <1>2, <1>3 DEF CallOf, Replied
<1>5. down'[k] = << >> /\ Len(down'[k]) = 0
  BY <1>1 DEF Typed, TypeOK
<1>6. Still(k)'
  BY <1>1, <1>3, <1>5 DEF Still, Idle, Replied
<1> QED
  BY <1>1, <1>3, <1>4, <1>6 DEF Same, Typed, TypeOK

LEMMA ConnectRequests ==
  ASSUME Typed, OneRequest, Unopened, Handling, NEW c \in Caller, Connect(c)
  PROVE  (OneRequest /\ Unopened /\ Handling)'
<1>1. opened + 1 \in Conn
  BY DEF Connect
<1>2. PICK k \in Conn : k = opened + 1
  BY <1>1
<1>3. /\ Still(k) /\ Still(k)' /\ \A j \in Conn : j # k => Same(j)
      /\ opened' = k /\ handled' = handled /\ outcome' = outcome
  BY <1>2, ConnectEffect
<1>4. \A j \in Conn : /\ Still(j)' <=> Still(j)
                      /\ \A r : (On(j, r)' <=> On(j, r)) /\ (Replied(j, r)' <=> Replied(j, r))
  <2>1. \A r : ~On(k, r) /\ ~Replied(k, r)
    BY <1>3, Exclusive
  <2>2. \A r : ~On(k, r)' /\ ~Replied(k, r)'
    BY <1>3, NoneIsNone DEF Still, Idle, On, Waiting, Answering, Replied
  <2> QED
    BY <1>3, <2>1, <2>2, SameShape
<1>5. OneRequest' /\ Handling'
  BY <1>3, <1>4 DEF OneRequest, Handling
<1>6. Unopened'
  <2>1. opened \in Nat /\ opened' = opened + 1
    BY <1>2, <1>3 DEF Typed, TypeOK
  <2>2. \A j \in Conn : j > opened' => j > opened
    BY <2>1 DEF Conn
  <2> QED
    BY <1>4, <2>2 DEF Unopened
<1> QED
  BY <1>5, <1>6

LEMMA SendRequests ==
  ASSUME Typed, OneRequest, Unopened, Handling, NEW c \in Caller, CallOf(c), SendRequest(c)
  PROVE  (OneRequest /\ Unopened /\ Handling)'
<1>1. caller[c] = "sending"
  BY DEF SendRequest
<1>2. PICK k \in Conn : k = mine[c] /\ k \in 1..opened
  BY <1>1, MineIsConn DEF Uses
<1>3. PICK r \in Request : r = Now(c)
  BY <1>1, NowIsRequest
<1>4. Still(k) /\ outcome[r] = "asked" /\ handled[r] = 0 /\ \A j \in Conn : ~On(j, r)
  BY <1>1, <1>2, <1>3 DEF CallOf
<1>5. /\ Still(k)' \/ On(k, r)'
      /\ \A j \in Conn : j # k => Same(j)
      /\ UNCHANGED <<opened, handled, outcome>>
  BY <1>2, <1>3, <1>4, SendEffect
<1>6. /\ \A j \in Conn : j # k => (Still(j)' <=> Still(j))
      /\ \A j \in Conn : j # k =>
           \A q : (On(j, q)' <=> On(j, q)) /\ (Replied(j, q)' <=> Replied(j, q))
  BY <1>5, SameShape
<1>7. \A q : (On(k, q)' => q = r) /\ ~Replied(k, q)'
  BY <1>5, NoneIsNone DEF Still, Idle, On, Waiting, Answering, Replied
<1>8. OneRequest'
  BY <1>5, <1>6 DEF OneRequest
<1>9. Unopened'
  <2>1. ~(k > opened)
    BY <1>2 DEF Typed, TypeOK
  <2> QED
    BY <1>5, <1>6, <2>1 DEF Unopened
<1>10. Handling'
  BY <1>4, <1>5, <1>6, <1>7 DEF Handling
<1> QED
  BY <1>8, <1>9, <1>10

LEMMA RecvRequests ==
  ASSUME Typed, OneRequest, Unopened, Handling, NEW c \in Caller, CallOf(c), RecvResponse(c)
  PROVE  (OneRequest /\ Unopened /\ Handling)'
<1>1. caller[c] = "receiving"
  BY DEF RecvResponse
<1>2. PICK k \in Conn : k = mine[c] /\ k \in 1..opened
  BY <1>1, MineIsConn DEF Uses
<1>3. PICK r \in Request : r = Now(c)
  BY <1>1, NowIsRequest
<1>4. /\ Replied(k, r) /\ Still(k)'
      /\ \A j \in Conn : j # k => Same(j)
      /\ outcome' = [outcome EXCEPT ![r] = r]
      /\ UNCHANGED <<opened, handled>>
  BY <1>2, <1>3, RecvEffect
<1>5. /\ \A j \in Conn : j # k => (Still(j)' <=> Still(j))
      /\ \A j \in Conn : j # k =>
           \A q : (On(j, q)' <=> On(j, q)) /\ (Replied(j, q)' <=> Replied(j, q))
  BY <1>4, SameShape
<1>6. \A q : ~On(k, q)' /\ ~Replied(k, q)'
  BY <1>4, NoneIsNone DEF Still, Idle, On, Waiting, Answering, Replied
<1>7. OneRequest' /\ Unopened'
  BY <1>4, <1>5 DEF OneRequest, Unopened
<1>8. \A q \in Request : outcome'[q] = "new" <=> outcome[q] = "new" /\ q # r
  BY <1>3, <1>4, RequestsAreNoOutcomes DEF Typed, TypeOK
<1>9. \A j \in Conn, q \in Request : On(j, q)' => q # r
  <2>1. handled[r] = 1
    BY <1>4 DEF Handling
  <2> QED
    BY <1>5, <1>6, <2>1 DEF Handling
<1>10. Handling'
  BY <1>4, <1>5, <1>6, <1>8, <1>9 DEF Handling
<1> QED
  BY <1>7, <1>10

\* What the server does to one connection.
LEMMA ServeEffect ==
  ASSUME Typed, NEW k \in Conn, Serve(k)
  PROVE  /\ Shape(k) /\ \A j \in Conn : j # k => Same(j)
         /\ UNCHANGED <<m_conns, connected, m_request, opened, caller, mine, turn, outcome>>
<1>1. WireTyped /\ ServerStep(k)
  BY DEF Typed, TypeOK, WireTyped, Serve
<1>2. UNCHANGED <<m_conns, connected, m_request, opened, caller, mine, turn, outcome>>
  BY DEF Serve, poolVars, callVars
<1> QED
  BY <1>1, <1>2, ServerShape, ServerFrame

\* Every request moves from one shape to the next, on its connection.
LEMMA ServeMoves ==
  ASSUME Typed, OneRequest, Handling, NEW k \in Conn, Serve(k)
  PROVE  /\ \A j \in Conn : Still(j) => Still(j)'
         /\ \A j \in Conn, r \in Request : On(j, r)' => On(j, r)
         /\ \A j \in Conn, r \in Request : Replied(j, r)' => Replied(j, r) \/ On(j, r)
         /\ \A r \in Request : handled'[r] # handled[r] =>
              On(k, r) /\ ~On(k, r)' /\ Replied(k, r)' /\ handled'[r] = 1
         /\ \A j \in Conn, r \in Request : Replied(j, r)' /\ ~Replied(j, r) => handled'[r] = 1
         /\ OneRequest'
<1>1. Shape(k) /\ \A j \in Conn : j # k => Same(j)
  BY ServeEffect
<1>2. ASSUME NEW j \in Conn, j # k
      PROVE  /\ Still(j)' <=> Still(j)
             /\ \A r : (On(j, r)' <=> On(j, r)) /\ (Replied(j, r)' <=> Replied(j, r))
  BY <1>1, <1>2, SameShape
<1>3. \A r, q : /\ Still(k)' => ~On(k, r)' /\ ~Replied(k, r)'
                /\ Replied(k, r)' => ~On(k, q)'
                /\ On(k, r)' /\ On(k, q)' => r = q
                /\ Replied(k, r)' /\ Replied(k, q)' => r = q
  BY NoneIsNone DEF Still, Idle, On, Waiting, Answering, Replied
<1>4. CASE Still(k)
  BY <1>1, <1>2, <1>3, <1>4 DEF Shape, OneRequest
<1>5. CASE \E r \in Request : Replied(k, r)
  <2>1. PICK r \in Request : Replied(k, r)
    BY <1>5
  <2>2. handled' = handled /\ Replied(k, r)' /\ ~Still(k)
    BY <1>1, <2>1, Exclusive DEF Shape
  <2> QED
    BY <1>2, <1>3, <2>1, <2>2 DEF OneRequest
<1>6. CASE \E r \in Request : Waiting(k, r)
  <2>1. PICK r \in Request : Waiting(k, r)
    BY <1>6
  <2>2. handled' = handled /\ (On(k, r)' \/ Still(k)') /\ On(k, r) /\ ~Still(k)
    BY <1>1, <2>1, Exclusive DEF Shape, On
  <2> QED
    BY <1>2, <1>3, <2>2 DEF OneRequest
<1>7. CASE \E r \in Request : Answering(k, r)
  <2>1. PICK r \in Request : Answering(k, r)
    BY <1>7
  <2>2. /\ handled' = [handled EXCEPT ![r] = @ + 1] /\ Replied(k, r)'
        /\ On(k, r) /\ ~Still(k)
    BY <1>1, <2>1, Exclusive DEF Shape, On
  <2>3. handled[r] = 0 /\ handled'[r] = 1 /\ \A q \in Request : q # r => handled'[q] = handled[q]
    BY <2>2 DEF Handling, Typed, TypeOK
  <2> QED
    BY <1>2, <1>3, <2>2, <2>3 DEF OneRequest
<1> QED
  BY <1>4, <1>5, <1>6, <1>7 DEF OneRequest, On

LEMMA ServeRequests ==
  ASSUME Typed, OneRequest, Unopened, Handling, NEW k \in Conn, Serve(k)
  PROVE  (OneRequest /\ Unopened /\ Handling)'
<1>1. OneRequest'
  BY ServeMoves
<1>2. Unopened'
  BY ServeMoves, ServeEffect DEF Unopened
<1>3. Handling'
  <2> SUFFICES ASSUME NEW r \in Request
               PROVE  /\ handled'[r] \in {0, 1} /\ (outcome'[r] = "new" => handled'[r] = 0)
                      /\ \A j \in Conn : On(j, r)' => handled'[r] = 0 /\ outcome'[r] # "new"
                      /\ \A j \in Conn : Replied(j, r)' => handled'[r] = 1
                      /\ \A i, j \in Conn : On(i, r)' /\ On(j, r)' => i = j
    BY DEF Handling
  <2>1. outcome' = outcome
    BY ServeEffect
  <2>2. CASE handled'[r] = handled[r]
    BY <2>1, <2>2, ServeMoves DEF Handling
  <2>3. CASE handled'[r] # handled[r]
    <3>1. On(k, r) /\ ~On(k, r)' /\ handled'[r] = 1
      BY <2>3, ServeMoves
    <3>2. \A j \in Conn : ~On(j, r)'
      BY <3>1, ServeMoves DEF Handling
    <3> QED
      BY <2>1, <3>1, <3>2 DEF Handling
  <2> QED
    BY <2>2, <2>3
<1> QED
  BY <1>1, <1>2, <1>3

-----------------------------------------------------------------------------
(* The connections of the callers and of the pool: Lending. *)

\* A caller that is not between getConnection and ReleasePtr holds none.
LEMMA OthersConnections ==
  ASSUME Typed, Lending, NEW c \in Caller, Uses(c), NEW d \in Caller, d # c
  PROVE  mine[d] # mine[c]
<1>1. CASE Uses(d)
  BY <1>1 DEF Lending
<1>2. CASE ~Uses(d)
  BY <1>2, MineIsConn, NoneIsNone DEF Typed
<1> QED
  BY <1>1, <1>2

\* Steps that neither lend nor take back a connection.
LEMMA SameLending ==
  ASSUME Typed, Lending, UNCHANGED <<m_conns, mine>>,
         \A d \in Caller : Uses(d)' <=> Uses(d),
         \A i \in 1..Len(m_conns), k \in Conn : m_conns[i] = k => k \in connected' /\ Still(k)'
  PROVE  Lending'
BY DEF Lending

LEMMA UsesAsBefore ==
  ASSUME Typed, NEW c \in Caller,
         \/ Call(c) \/ ConnectFails(c) \/ SendFails(c)
         \/ SendRequest(c) \/ RecvResponse(c) \/ RecvFails(c)
  PROVE  UNCHANGED <<m_conns, mine>> /\ \A d \in Caller : Uses(d)' <=> Uses(d)
<1>1. UNCHANGED <<m_conns, mine>>
  BY DEF Call, ConnectFails, SendFails, SendRequest, RecvResponse, RecvFails, poolVars
<1>2. \E pc \in {"asking", "idle", "sending", "receiving", "done"} :
        /\ caller' = [caller EXCEPT ![c] = pc]
        /\ pc \in {"sending", "receiving", "done"} <=> Uses(c)
  BY DEF Call, ConnectFails, SendFails, SendRequest, RecvResponse, RecvFails, Goto, Uses
<1>3. \A d \in Caller : Uses(d)' <=> Uses(d)
  BY <1>2 DEF Uses, Typed, TypeOK
<1> QED
  BY <1>1, <1>3

\* What is in the pool is still there, connected and quiet, when the step is
\* about another connection.
LEMMA StillPooled ==
  ASSUME Typed, Lending, NEW k,
         \A j \in Conn : j # k => Same(j) /\ (j \in connected => j \in connected')
  PROVE  \A i \in 1..Len(m_conns), j \in Conn :
           m_conns[i] = j /\ j # k => j \in connected' /\ Still(j)'
BY SameShape DEF Lending

LEMMA QuietLending ==
  ASSUME Typed, Lending, NEW c \in Caller,
         Call(c) \/ ConnectFails(c) \/ SendFails(c) \/ RecvFails(c)
  PROVE  Lending'
<1>1. \A k \in Conn : Same(k)
  BY QuietStep
<1>2. connected' = connected \/ connected' = connected \ {mine[c]}
  BY DEF Call, ConnectFails, SendFails, RecvFails, Close, poolVars
<1>3. \A i \in 1..Len(m_conns) : m_conns[i] # mine[c]
  BY DEF Lending
<1>4. \A i \in 1..Len(m_conns), k \in Conn : m_conns[i] = k => k \in connected' /\ Still(k)'
  BY <1>1, <1>2, <1>3, StillPooled
<1> QED
  BY <1>4, SameLending, UsesAsBefore

LEMMA TalkLending ==
  ASSUME Typed, OneRequest, Lending, NEW c \in Caller, CallOf(c),
         SendRequest(c) \/ RecvResponse(c)
  PROVE  Lending'
<1>1. caller[c] \in {"sending", "receiving"} /\ UNCHANGED <<m_conns, connected>>
  BY DEF SendRequest, RecvResponse, poolVars
<1>2. PICK k \in Conn : k = mine[c]
  BY <1>1, MineIsConn DEF Uses
<1>3. PICK r \in Request : r = Now(c)
  BY <1>1, NowIsRequest
<1>4. \A j \in Conn : j # k => Same(j)
  <2>1. CASE SendRequest(c)
    <3>1. Still(k)
      BY <1>2, <2>1 DEF CallOf, SendRequest
    <3> QED
      BY <1>2, <1>3, <2>1, <3>1, SendEffect
  <2>2. CASE RecvResponse(c)
    BY <1>2, <1>3, <2>2, RecvEffect
  <2> QED
    BY <2>1, <2>2
<1>5. \A i \in 1..Len(m_conns) : m_conns[i] # k
  BY <1>2 DEF Lending
<1>6. \A i \in 1..Len(m_conns), j \in Conn : m_conns[i] = j => j \in connected' /\ Still(j)'
  BY <1>1, <1>4, <1>5, StillPooled
<1> QED
  BY <1>6, SameLending, UsesAsBefore

LEMMA ConnectLending ==
  ASSUME Typed, Unopened, Lending, NEW c \in Caller, Connect(c)
  PROVE  Lending'
<1>1. /\ caller[c] = "connecting" /\ opened + 1 \in Conn /\ m_conns' = m_conns
      /\ connected' = connected \cup {opened + 1}
      /\ caller' = [caller EXCEPT ![c] = "sending"] /\ mine' = [mine EXCEPT ![c] = opened + 1]
  BY DEF Connect, Goto
<1>2. PICK k \in Conn : k = opened + 1
  BY <1>1
<1>3. opened \in Nat /\ k \notin 1..opened
  BY <1>2 DEF Typed, TypeOK
<1>4. \A i \in 1..Len(m_conns) : m_conns[i] # k
  BY <1>3 DEF Typed
<1>5. \A d \in Caller : Uses(d) => mine[d] # k
  BY <1>3 DEF Typed
<1>6. \A d \in Caller : d # c => (Uses(d)' <=> Uses(d)) /\ mine'[d] = mine[d]
  BY <1>1 DEF Uses, Typed, TypeOK
<1>7. mine'[c] = k
  BY <1>1, <1>2 DEF Typed, TypeOK
<1>8. \A i \in 1..Len(m_conns), j \in Conn : m_conns[i] = j => j \in connected' /\ Still(j)'
  <2>1. \A j \in Conn : j # k => Same(j)
    BY <1>2, ConnectEffect
  <2> QED
    BY <1>1, <1>4, <2>1, StillPooled
<1> QED
  BY <1>1, <1>4, <1>5, <1>6, <1>7, <1>8 DEF Lending

LEMMA PopLending ==
  ASSUME Typed, Lending, NEW c \in Caller, PopConnection(c)
  PROVE  Lending'
<1>1. PICK n \in 0..Len(m_conns) :
        /\ m_conns' \in Seq(Conn) /\ Len(m_conns') = Len(m_conns) - n
        /\ \A i \in 1..Len(m_conns') : m_conns'[i] = m_conns[i + n]
        /\ \/ n = Len(m_conns) /\ caller' = [caller EXCEPT ![c] = "connecting"] /\ mine' = mine
           \/ /\ n >= 1 /\ caller' = [caller EXCEPT ![c] = "sending"]
              /\ mine' = [mine EXCEPT ![c] = m_conns[n]] /\ m_conns[n] \in connected
  BY Popped
<1>2. caller[c] = "asking" /\ connected' = connected /\ \A k \in Conn : Same(k)
  BY QuietStep DEF PopConnection
<1>3. Len(m_conns) \in Nat /\ \A i \in 1..Len(m_conns') : i + n \in 1..Len(m_conns) /\ i + n # n
  BY <1>1, PoolIsSeq
<1>4. \A i \in 1..Len(m_conns'), k \in Conn : m_conns'[i] = k => k \in connected' /\ Still(k)'
  <2> SUFFICES ASSUME NEW i \in 1..Len(m_conns'), NEW k \in Conn, m_conns'[i] = k
               PROVE  k \in connected' /\ Still(k)'
    OBVIOUS
  <2>1. i + n \in 1..Len(m_conns) /\ m_conns[i + n] = k
    BY <1>1, <1>3
  <2>2. k \in connected /\ Still(k)
    BY <2>1 DEF Lending
  <2> QED
    BY <1>2, <2>2, SameShape
<1>5. \A i, j \in 1..Len(m_conns') : m_conns'[i] = m_conns'[j] => i = j
  <2> TAKE i, j \in 1..Len(m_conns')
  <2>1. m_conns'[i] = m_conns[i + n] /\ m_conns'[j] = m_conns[j + n]
    BY <1>1
  <2>2. i + n \in 1..Len(m_conns) /\ j + n \in 1..Len(m_conns)
    BY <1>3
  <2>3. m_conns[i + n] = m_conns[j + n] => i + n = j + n
    BY <2>2 DEF Lending
  <2>4. i + n = j + n => i = j
    OBVIOUS
  <2> QED
    BY <2>1, <2>3, <2>4
<1>6. \A d \in Caller, i \in 1..Len(m_conns') : mine[d] # m_conns'[i]
  BY <1>1, <1>3 DEF Lending
<1>7. CASE caller' = [caller EXCEPT ![c] = "connecting"] /\ mine' = mine
  <2>1. \A d \in Caller : Uses(d)' <=> Uses(d)
    BY <1>2, <1>7 DEF Uses, Typed, TypeOK
  <2>2. \A d, e \in Caller : Uses(d)' /\ Uses(e)' /\ mine'[d] = mine'[e] => d = e
    BY <1>7, <2>1 DEF Lending
  <2> QED
    BY <1>4, <1>5, <1>6, <1>7, <2>2 DEF Lending
<1>8. CASE /\ n >= 1 /\ caller' = [caller EXCEPT ![c] = "sending"]
           /\ mine' = [mine EXCEPT ![c] = m_conns[n]]
  <2>1. n \in 1..Len(m_conns)
    BY <1>3, <1>8
  <2>2. PICK k \in Conn : k = m_conns[n] /\ mine'[c] = k
    BY <1>8, <2>1, PoolIsSeq DEF Typed, TypeOK
  <2>3. \A d \in Caller : d # c => (Uses(d)' <=> Uses(d)) /\ mine'[d] = mine[d] /\ mine[d] # k
    BY <1>8, <2>1, <2>2 DEF Uses, Lending, Typed, TypeOK
  <2>4. \A i \in 1..Len(m_conns') : m_conns'[i] # k
    <3> TAKE i \in 1..Len(m_conns')
    <3>1. m_conns'[i] = m_conns[i + n] /\ i + n \in 1..Len(m_conns) /\ i + n # n
      BY <1>1, <1>3
    <3> QED
      BY <2>1, <2>2, <3>1 DEF Lending
  <2>5. \A d, e \in Caller : Uses(d)' /\ Uses(e)' /\ mine'[d] = mine'[e] => d = e
    BY <2>2, <2>3 DEF Lending
  <2>6. \A d \in Caller, i \in 1..Len(m_conns') : mine'[d] # m_conns'[i]
    BY <1>6, <2>2, <2>3, <2>4
  <2> QED
    BY <1>4, <1>5, <2>5, <2>6 DEF Lending
<1> QED
  BY <1>1, <1>7, <1>8

LEMMA ReleaseLending ==
  ASSUME Typed, Lending, NEW c \in Caller, CallOf(c), Release(c)
  PROVE  Lending'
<1>1. /\ caller[c] = "done" /\ caller' = [caller EXCEPT ![c] = "idle"]
      /\ mine' = [mine EXCEPT ![c] = None]
      /\ \A i \in 1..Len(m_conns) : m_conns'[i] = m_conns[i]
      /\ \/ /\ Len(m_conns') = Len(m_conns) + 1 /\ m_conns'[Len(m_conns) + 1] = mine[c]
            /\ mine[c] \in connected /\ connected' = connected
         \/ Len(m_conns') = Len(m_conns) /\ connected' = connected \ {mine[c]}
  BY Released
<1>2. PICK k \in Conn : k = mine[c]
  BY <1>1, MineIsConn DEF Uses
<1>3. Len(m_conns) \in Nat /\ \A j \in Conn : Same(j)
  BY QuietStep, PoolIsSeq
<1>4. /\ mine'[c] = None /\ ~Uses(c)'
      /\ \A d \in Caller : d # c => (Uses(d)' <=> Uses(d)) /\ mine'[d] = mine[d] /\ mine[d] # k
  BY <1>1, <1>2, OthersConnections DEF Uses, Typed, TypeOK
<1>5. \A i \in 1..Len(m_conns) : m_conns'[i] # k /\ m_conns'[i] \in Conn
  BY <1>1, <1>2, PoolIsSeq DEF Lending
<1>6. \A i \in 1..Len(m_conns), j \in Conn : m_conns'[i] = j => j \in connected' /\ Still(j)'
  BY <1>1, <1>2, <1>3, <1>5, StillPooled
<1>7. \A i, j \in 1..Len(m_conns) : m_conns'[i] = m_conns'[j] => i = j
  BY <1>1 DEF Lending
<1>8. \A d \in Caller, i \in 1..Len(m_conns) : mine'[d] # m_conns'[i]
  BY <1>1, <1>4, <1>5, NoneIsNone DEF Lending
<1>9. \A d, e \in Caller : Uses(d)' /\ Uses(e)' /\ mine'[d] = mine'[e] => d = e
  BY <1>4 DEF Lending
<1>10. CASE Len(m_conns') = Len(m_conns)
  BY <1>6, <1>7, <1>8, <1>9, <1>10 DEF Lending
<1>11. CASE /\ Len(m_conns') = Len(m_conns) + 1 /\ m_conns'[Len(m_conns) + 1] = mine[c]
            /\ mine[c] \in connected /\ connected' = connected
  <2>1. k \in connected' /\ Still(k)'
    <3>1. Still(k)
      BY <1>1, <1>2, <1>11 DEF CallOf
    <3> QED
      BY <1>2, <1>3, <1>11, <3>1, SameShape
  <2>2. \A i \in 1..Len(m_conns') :
          i \in 1..Len(m_conns) \/ (m_conns'[i] = k /\ i = Len(m_conns) + 1)
    BY <1>2, <1>3, <1>11
  <2>3. \A i \in 1..Len(m_conns'), j \in Conn : m_conns'[i] = j => j \in connected' /\ Still(j)'
    BY <1>6, <2>1, <2>2
  <2>4. \A i, j \in 1..Len(m_conns') : m_conns'[i] = m_conns'[j] => i = j
    BY <1>5, <1>7, <2>2
  <2>5. \A d \in Caller, i \in 1..Len(m_conns') : mine'[d] # m_conns'[i]
    BY <1>4, <1>8, <2>2, NoneIsNone
  <2> QED
    BY <1>9, <2>3, <2>4, <2>5 DEF Lending
<1> QED
  BY <1>1, <1>10, <1>11

LEMMA ServeLending ==
  ASSUME Typed, OneRequest, Handling, Lending, NEW k \in Conn, Serve(k)
  PROVE  Lending'
<1>1. UNCHANGED <<m_conns, mine, connected, caller>>
  BY ServeEffect
<1>2. \A i \in 1..Len(m_conns), j \in Conn : m_conns[i] = j => j \in connected' /\ Still(j)'
  BY <1>1, ServeMoves DEF Lending
<1>3. \A d \in Caller : Uses(d)' <=> Uses(d)
  BY <1>1 DEF Uses
<1> QED
  BY <1>1, <1>2, <1>3, SameLending

-----------------------------------------------------------------------------
(* What each caller knows: Calls. *)

\* A step of another caller: it leaves alone this one's connection and requests.
LEMMA OtherCall ==
  ASSUME Typed, NEW d \in Caller, CallOf(d),
         caller'[d] = caller[d], mine'[d] = mine[d], turn'[d] = turn[d],
         \A i \in 1..Len(Asks[d]) : outcome'[Asks[d][i]] = outcome[Asks[d][i]],
         handled' = handled,
         \A k \in Conn : k = mine[d] => Same(k) /\ (k \in connected' <=> k \in connected),
         \A r \in Request, k \in Conn :
           caller[d] # "idle" /\ r = Now(d) /\ On(k, r)' => On(k, r)
  PROVE  CallOf(d)'
<1>1. Now(d)' = Now(d)
  BY DEF Now
<1>2. \A i \in 1..Len(Asks[d]) : i > turn'[d] => outcome'[Asks[d][i]] = "new"
  BY DEF CallOf
<1>3. ASSUME NEW r \in Request, r = Now(d)
      PROVE  /\ caller'[d] \in {"asking", "connecting", "sending", "receiving"} =>
                  outcome'[r] = "asked"
             /\ caller'[d] \in {"asking", "connecting", "sending"} =>
                  handled'[r] = 0 /\ \A k \in Conn : ~On(k, r)'
  <2>1. caller[d] # "idle" => outcome'[r] = outcome[r]
    BY <1>3, NowIsRequest DEF Now
  <2> QED
    BY <1>3, <2>1 DEF CallOf
<1>4. ASSUME NEW k \in Conn, k = mine[d]
      PROVE  /\ caller'[d] = "sending" => Still(k)'
             /\ caller'[d] \in {"sending", "receiving"} => k \in connected'
             /\ caller'[d] = "receiving" =>
                  \A r \in Request : On(k, r)' \/ Replied(k, r)' => r = Now(d)
             /\ caller'[d] = "done" /\ k \in connected' => Still(k)'
  BY <1>4, SameShape DEF CallOf
<1> QED
  BY <1>1, <1>2, <1>3, <1>4 DEF CallOf

LEMMA CallCalls ==
  ASSUME Typed, Handling, Calls, NEW c \in Caller, Call(c)
  PROVE  Calls'
<1>1. /\ caller[c] = "idle" /\ turn[c] \in Nat /\ turn[c] < Len(Asks[c])
      /\ turn' = [turn EXCEPT ![c] = @ + 1] /\ caller' = [caller EXCEPT ![c] = "asking"]
      /\ UNCHANGED <<connected, mine>>
      /\ outcome' = [outcome EXCEPT ![Asks[c][turn[c] + 1]] = "asked"]
  BY DEF Call, Goto, poolVars, Typed, TypeOK
<1>2. turn[c] + 1 \in 1..Len(Asks[c])
  BY <1>1, AsksAreRequests
<1>3. PICK q \in Request : q = Asks[c][turn[c] + 1]
  BY <1>2, AsksAreRequests
<1>4. (\A k \in Conn : Same(k)) /\ handled' = handled
  BY QuietStep
<1>5. \A d \in Caller : \A i \in 1..Len(Asks[d]) :
        Asks[d][i] = q => d = c /\ i = turn[c] + 1
  <2> TAKE d \in Caller
  <2> TAKE i \in 1..Len(Asks[d])
  <2>1. i \in DOMAIN Asks[d] /\ turn[c] + 1 \in DOMAIN Asks[c]
    BY <1>2, AsksAreRequests
  <2> QED
    BY <1>3, <2>1, AsksDiffer
<1>6. ASSUME NEW d \in Caller, d # c PROVE CallOf(d)'
  <2>1. caller'[d] = caller[d] /\ mine'[d] = mine[d] /\ turn'[d] = turn[d]
    BY <1>1, <1>6 DEF Typed, TypeOK
  <2>2. \A i \in 1..Len(Asks[d]) : outcome'[Asks[d][i]] = outcome[Asks[d][i]]
    BY <1>1, <1>3, <1>5, <1>6, AsksAreRequests DEF Typed, TypeOK
  <2>3. \A r, k : k \in Conn /\ On(k, r)' => On(k, r)
    BY <1>4, SameShape
  <2> QED
    BY <1>1, <1>4, <2>1, <2>2, <2>3, OtherCall DEF Calls
<1>7. CallOf(c)'
  <2>1. turn'[c] = turn[c] + 1 /\ caller'[c] = "asking" /\ Now(c)' = q
    BY <1>1, <1>3 DEF Now, Typed, TypeOK
  <2>2. \A i \in 1..Len(Asks[c]) : i > turn'[c] => outcome'[Asks[c][i]] = "new"
    <3> SUFFICES ASSUME NEW i \in 1..Len(Asks[c]), i > turn'[c]
                 PROVE  outcome'[Asks[c][i]] = "new"
      OBVIOUS
    <3>1. i > turn[c] /\ i # turn[c] + 1 /\ Asks[c][i] \in Request
      BY <1>1, <2>1, AsksAreRequests
    <3>2. Asks[c][i] # q /\ outcome[Asks[c][i]] = "new"
      BY <1>5, <3>1 DEF Calls, CallOf
    <3> QED
      BY <1>1, <1>3, <3>1, <3>2 DEF Typed, TypeOK
  <2>3. outcome'[q] = "asked"
    BY <1>1, <1>3 DEF Typed, TypeOK
  <2>4. outcome[q] = "new"
    <3>1. turn[c] + 1 > turn[c]
      BY <1>1
    <3> QED
      BY <1>2, <1>3, <3>1 DEF Calls, CallOf
  <2>5. handled'[q] = 0 /\ \A k \in Conn : ~On(k, q)'
    BY <1>4, <2>4, SameShape DEF Handling
  <2> QED
    BY <2>1, <2>2, <2>3, <2>5 DEF CallOf
<1> QED
  BY <1>6, <1>7 DEF Calls

\* For the callers that do not move: requests of their own, and connections.
LEMMA OthersCalls ==
  ASSUME Typed, Calls, Lending, NEW c \in Caller, caller[c] # "idle", NEW pc,
         caller' = [caller EXCEPT ![c] = pc], turn' = turn, handled' = handled,
         \A d \in Caller : d # c => mine'[d] = mine[d],
         outcome' = outcome \/ \E x : outcome' = [outcome EXCEPT ![Now(c)] = x],
         \A d \in Caller, k \in Conn : d # c /\ k = mine[d] =>
           Same(k) /\ (k \in connected' <=> k \in connected),
         \A r \in Request, k \in Conn : r # Now(c) /\ On(k, r)' => On(k, r)
  PROVE  \A d \in Caller : d # c => CallOf(d)'
<1> SUFFICES ASSUME NEW d \in Caller, d # c PROVE CallOf(d)'
  OBVIOUS
<1>1. caller'[d] = caller[d] /\ mine'[d] = mine[d] /\ turn'[d] = turn[d]
  BY DEF Typed, TypeOK
<1>2. \A i \in 1..Len(Asks[d]) : outcome'[Asks[d][i]] = outcome[Asks[d][i]]
  <2> TAKE i \in 1..Len(Asks[d])
  <2>1. Asks[d][i] # Now(c) /\ Asks[d][i] \in Request
    BY OwnRequest, AsksAreRequests
  <2> QED
    BY <2>1 DEF Typed, TypeOK
<1>3. \A r \in Request, k \in Conn : caller[d] # "idle" /\ r = Now(d) /\ On(k, r)' => On(k, r)
  <2>1. caller[d] # "idle" => Now(d) # Now(c)
    BY OwnRequest, NowIsRequest DEF Now
  <2> QED
    BY <2>1
<1> QED
  BY <1>1, <1>2, <1>3, OtherCall DEF Calls

\* The requests a caller has not yet come to are not the one it is at.
LEMMA LaterNew ==
  ASSUME Typed, NEW c \in Caller, caller[c] # "idle", CallOf(c), turn' = turn,
         outcome' = outcome \/ \E x : outcome' = [outcome EXCEPT ![Now(c)] = x]
  PROVE  /\ Now(c)' = Now(c)
         /\ \A i \in 1..Len(Asks[c]) : i > turn'[c] => outcome'[Asks[c][i]] = "new"
<1>1. Now(c)' = Now(c)
  BY DEF Now
<1>2. ASSUME NEW i \in 1..Len(Asks[c]), i > turn[c]
      PROVE  outcome'[Asks[c][i]] = "new"
  <2>1. i # turn[c] /\ Asks[c][i] \in Request
    BY <1>2, AsksAreRequests DEF Typed, TypeOK
  <2>2. Asks[c][i] # Now(c)
    BY <2>1, OwnRequest
  <2> QED
    BY <1>2, <2>1, <2>2 DEF CallOf, Typed, TypeOK
<1> QED
  BY <1>1, <1>2

LEMMA PopCalls ==
  ASSUME Typed, Lending, Calls, NEW c \in Caller, PopConnection(c)
  PROVE  Calls'
<1>1. PICK n \in 0..Len(m_conns) :
        \/ n = Len(m_conns) /\ caller' = [caller EXCEPT ![c] = "connecting"] /\ mine' = mine
        \/ /\ n >= 1 /\ caller' = [caller EXCEPT ![c] = "sending"]
           /\ mine' = [mine EXCEPT ![c] = m_conns[n]] /\ m_conns[n] \in connected
  BY Popped
<1>2. /\ caller[c] = "asking" /\ UNCHANGED <<connected, turn, outcome>>
      /\ (\A k \in Conn : Same(k)) /\ handled' = handled
  BY QuietStep DEF PopConnection
<1>3. \A r, k : k \in Conn => (On(k, r)' <=> On(k, r))
  BY <1>2, SameShape
<1>4. \A d \in Caller : d # c => CallOf(d)'
  <2>1. \E pc : caller' = [caller EXCEPT ![c] = pc]
    BY <1>1
  <2>2. \A d \in Caller : d # c => mine'[d] = mine[d]
    BY <1>1 DEF Typed, TypeOK
  <2> QED
    BY <1>2, <1>3, <2>1, <2>2, OthersCalls
<1>5. CallOf(c)'
  <2>1. /\ Now(c)' = Now(c)
        /\ \A i \in 1..Len(Asks[c]) : i > turn'[c] => outcome'[Asks[c][i]] = "new"
    BY <1>2, LaterNew DEF Calls
  <2>2. \A r \in Request : r = Now(c) =>
          outcome'[r] = "asked" /\ handled'[r] = 0 /\ \A k \in Conn : ~On(k, r)'
    BY <1>2, <1>3 DEF Calls, CallOf
  <2>3. caller'[c] \in {"connecting", "sending"}
    BY <1>1 DEF Typed, TypeOK
  <2>4. ASSUME NEW k \in Conn, k = mine'[c], caller'[c] = "sending"
        PROVE  Still(k)' /\ k \in connected'
    <3>1. n \in 1..Len(m_conns) /\ k = m_conns[n]
      BY <1>1, <2>4, PoolIsSeq DEF Typed, TypeOK
    <3>2. Still(k) /\ k \in connected
      BY <3>1 DEF Lending
    <3> QED
      BY <1>2, <3>2, SameShape
  <2> QED
    BY <2>1, <2>2, <2>3, <2>4 DEF CallOf
<1> QED
  BY <1>4, <1>5 DEF Calls

LEMMA ConnectCalls ==
  ASSUME Typed, Unopened, Lending, Calls, NEW c \in Caller, Connect(c)
  PROVE  Calls'
<1>1. /\ caller[c] = "connecting" /\ opened + 1 \in Conn
      /\ connected' = connected \cup {opened + 1} /\ UNCHANGED <<turn, outcome, handled>>
      /\ caller' = [caller EXCEPT ![c] = "sending"] /\ mine' = [mine EXCEPT ![c] = opened + 1]
  BY DEF Connect, Goto
<1>2. PICK k \in Conn : k = opened + 1
  BY <1>1
<1>3. Still(k) /\ Still(k)' /\ \A j \in Conn : j # k => Same(j)
  BY <1>2, ConnectEffect
<1>4. \A r, j : j \in Conn /\ On(j, r)' => On(j, r)
  <2>1. \A r : ~On(k, r)'
    BY <1>3, NoneIsNone DEF Still, Idle, On, Waiting, Answering
  <2> QED
    BY <1>3, <2>1, SameShape
<1>5. \A d \in Caller : mine[d] # k
  <2>1. opened \in Nat /\ k \notin 1..opened
    BY <1>2 DEF Typed, TypeOK
  <2> QED
    BY <2>1, NoneIsNone DEF Typed
<1>6. \A d \in Caller : d # c => CallOf(d)'
  <2>1. \A d \in Caller : d # c => mine'[d] = mine[d]
    BY <1>1 DEF Typed, TypeOK
  <2>2. \A d \in Caller, j \in Conn : d # c /\ j = mine[d] =>
          Same(j) /\ (j \in connected' <=> j \in connected)
    BY <1>1, <1>2, <1>3, <1>5
  <2> QED
    BY <1>1, <1>4, <2>1, <2>2, OthersCalls
<1>7. CallOf(c)'
  <2>1. /\ Now(c)' = Now(c)
        /\ \A i \in 1..Len(Asks[c]) : i > turn'[c] => outcome'[Asks[c][i]] = "new"
    BY <1>1, LaterNew DEF Calls
  <2>2. \A r \in Request : r = Now(c) =>
          outcome'[r] = "asked" /\ handled'[r] = 0 /\ \A j \in Conn : ~On(j, r)'
    BY <1>1, <1>4 DEF Calls, CallOf
  <2>3. caller'[c] = "sending" /\ mine'[c] = k /\ k \in connected'
    BY <1>1, <1>2 DEF Typed, TypeOK
  <2> QED
    BY <1>3, <2>1, <2>2, <2>3 DEF CallOf
<1> QED
  BY <1>6, <1>7 DEF Calls

\* The request ends and the connection, if any, stays as it was or is closed.
LEMMA FailCalls ==
  ASSUME Typed, Lending, Calls, NEW c \in Caller,
         ConnectFails(c) \/ SendFails(c) \/ RecvFails(c) \/ Release(c)
  PROVE  Calls'
<1>1. /\ caller[c] # "idle" /\ turn' = turn
      /\ outcome' = outcome \/ outcome' = [outcome EXCEPT ![Now(c)] = "failed"]
      /\ mine' = mine \/ mine' = [mine EXCEPT ![c] = None]
      /\ \A k : k # mine[c] => (k \in connected' <=> k \in connected)
  BY DEF ConnectFails, SendFails, RecvFails, Release, Ends, Close, poolVars
<1>2. (\A k \in Conn : Same(k)) /\ handled' = handled
  BY QuietStep
<1>3. PICK pc \in {"idle", "done"} : caller' = [caller EXCEPT ![c] = pc]
  BY DEF ConnectFails, SendFails, RecvFails, Release, Goto
<1>4. \A d \in Caller, k \in Conn : d # c /\ k = mine[d] =>
        Same(k) /\ (k \in connected' <=> k \in connected)
  <2>1. CASE Uses(c)
    BY <1>1, <1>2, <2>1, OthersConnections
  <2>2. CASE ~Uses(c)
    <3>1. mine[c] \notin Conn
      BY <2>2, NoneIsNone DEF Typed
    <3> QED
      BY <1>1, <1>2, <3>1
  <2> QED
    BY <2>1, <2>2
<1>5. \A d \in Caller : d # c => CallOf(d)'
  <2>1. \A d \in Caller : d # c => mine'[d] = mine[d]
    BY <1>1 DEF Typed, TypeOK
  <2>2. \A r \in Request, k \in Conn : On(k, r)' => On(k, r)
    BY <1>2, SameShape
  <2> QED
    BY <1>1, <1>2, <1>3, <1>4, <2>1, <2>2, OthersCalls
<1>6. CallOf(c)'
  <2>1. /\ Now(c)' = Now(c)
        /\ \A i \in 1..Len(Asks[c]) : i > turn'[c] => outcome'[Asks[c][i]] = "new"
    BY <1>1, LaterNew DEF Calls
  <2>2. caller'[c] \in {"idle", "done"}
    BY <1>3 DEF Typed, TypeOK
  <2>3. ASSUME NEW k \in Conn, k = mine'[c], caller'[c] = "done", k \in connected'
        PROVE  Still(k)'
    <3>1. ~ConnectFails(c) /\ ~Release(c)
      BY <2>3 DEF ConnectFails, Release, Goto, Typed, TypeOK
    <3>2. CASE SendFails(c)
      <4>1. caller[c] = "sending" /\ mine' = mine
        BY <3>2 DEF SendFails
      <4>2. Still(k)
        BY <2>3, <4>1 DEF Calls, CallOf
      <4> QED
        BY <1>2, <4>2, SameShape
    <3>3. CASE RecvFails(c)
      BY <2>3, <3>3 DEF RecvFails, Close
    <3> QED
      BY <3>1, <3>2, <3>3
  <2> QED
    BY <2>1, <2>2, <2>3 DEF CallOf
<1> QED
  BY <1>5, <1>6 DEF Calls

LEMMA SendCalls ==
  ASSUME Typed, Lending, Calls, NEW c \in Caller, SendRequest(c)
  PROVE  Calls'
<1>1. /\ caller[c] = "sending" /\ caller' = [caller EXCEPT ![c] = "receiving"]
      /\ UNCHANGED <<mine, turn, connected>>
  BY DEF SendRequest, Goto, poolVars
<1>2. PICK k \in Conn : k = mine[c]
  BY <1>1, MineIsConn DEF Uses
<1>3. PICK r \in Request : r = Now(c)
  BY <1>1, NowIsRequest
<1>4. Still(k) /\ k \in connected /\ outcome[r] = "asked"
  BY <1>1, <1>2, <1>3 DEF Calls, CallOf
<1>5. /\ Still(k)' \/ On(k, r)'
      /\ \A j \in Conn : j # k => Same(j)
      /\ UNCHANGED <<opened, handled, outcome>>
  BY <1>2, <1>3, <1>4, SendEffect
<1>6. \A q : On(k, q)' \/ Replied(k, q)' => q = r
  BY <1>5, NoneIsNone DEF Still, Idle, On, Waiting, Answering, Replied
<1>7. \A d \in Caller : d # c => CallOf(d)'
  <2>1. \A q \in Request, j \in Conn : q # Now(c) /\ On(j, q)' => On(j, q)
    BY <1>3, <1>5, <1>6, SameShape
  <2>2. \A d \in Caller, j \in Conn : d # c /\ j = mine[d] => Same(j)
    BY <1>1, <1>2, <1>5, OthersConnections DEF Uses
  <2> QED
    BY <1>1, <1>5, <2>1, <2>2, OthersCalls
<1>8. CallOf(c)'
  <2>1. /\ Now(c)' = Now(c)
        /\ \A i \in 1..Len(Asks[c]) : i > turn'[c] => outcome'[Asks[c][i]] = "new"
    BY <1>1, <1>5, LaterNew DEF Calls
  <2>2. caller'[c] = "receiving"
    BY <1>1 DEF Typed, TypeOK
  <2> QED
    BY <1>1, <1>2, <1>3, <1>4, <1>5, <1>6, <2>1, <2>2 DEF CallOf
<1> QED
  BY <1>7, <1>8 DEF Calls

LEMMA RecvCalls ==
  ASSUME Typed, OneRequest, Lending, Calls, NEW c \in Caller, RecvResponse(c)
  PROVE  Calls'
<1>1. /\ caller[c] = "receiving" /\ caller' = [caller EXCEPT ![c] = "done"]
      /\ UNCHANGED <<mine, turn, connected>>
  BY DEF RecvResponse, Goto, poolVars
<1>2. PICK k \in Conn : k = mine[c]
  BY <1>1, MineIsConn DEF Uses
<1>3. PICK r \in Request : r = Now(c)
  BY <1>1, NowIsRequest
<1>4. /\ Still(k)' /\ \A j \in Conn : j # k => Same(j)
      /\ outcome' = [outcome EXCEPT ![r] = r] /\ handled' = handled
  BY <1>2, <1>3, RecvEffect DEF Calls
<1>5. \A d \in Caller : d # c => CallOf(d)'
  <2>1. \A q \in Request, j \in Conn : On(j, q)' => On(j, q)
    <3>1. \A q : ~On(k, q)'
      BY <1>4, NoneIsNone DEF Still, Idle, On, Waiting, Answering
    <3> QED
      BY <1>4, <3>1, SameShape
  <2>2. \A d \in Caller, j \in Conn : d # c /\ j = mine[d] => Same(j)
    BY <1>1, <1>2, <1>4, OthersConnections DEF Uses
  <2> QED
    BY <1>1, <1>3, <1>4, <2>1, <2>2, OthersCalls
<1>6. CallOf(c)'
  <2>1. /\ Now(c)' = Now(c)
        /\ \A i \in 1..Len(Asks[c]) : i > turn'[c] => outcome'[Asks[c][i]] = "new"
    BY <1>1, <1>3, <1>4, LaterNew DEF Calls
  <2>2. caller'[c] = "done"
    BY <1>1 DEF Typed, TypeOK
  <2> QED
    BY <1>1, <1>2, <1>4, <2>1, <2>2 DEF CallOf
<1> QED
  BY <1>5, <1>6 DEF Calls

LEMMA ServeCalls ==
  ASSUME Typed, OneRequest, Handling, Calls, NEW k \in Conn, Serve(k)
  PROVE  Calls'
<1> SUFFICES ASSUME NEW c \in Caller PROVE CallOf(c)'
  BY DEF Calls
<1>1. UNCHANGED <<connected, caller, mine, turn, outcome>> /\ Now(c)' = Now(c)
  BY ServeEffect DEF Now
<1>2. \A i \in 1..Len(Asks[c]) : i > turn'[c] => outcome'[Asks[c][i]] = "new"
  BY <1>1 DEF Calls, CallOf
<1>3. ASSUME NEW r \in Request, r = Now(c)
      PROVE  /\ caller'[c] \in {"asking", "connecting", "sending", "receiving"} =>
                  outcome'[r] = "asked"
             /\ caller'[c] \in {"asking", "connecting", "sending"} =>
                  handled'[r] = 0 /\ \A j \in Conn : ~On(j, r)'
  BY <1>1, <1>3, ServeMoves DEF Calls, CallOf
<1>4. ASSUME NEW j \in Conn, j = mine[c]
      PROVE  /\ caller'[c] = "sending" => Still(j)'
             /\ caller'[c] \in {"sending", "receiving"} => j \in connected'
             /\ caller'[c] = "receiving" =>
                  \A r \in Request : On(j, r)' \/ Replied(j, r)' => r = Now(c)
             /\ caller'[c] = "done" /\ j \in connected' => Still(j)'
  BY <1>1, <1>4, ServeMoves DEF Calls, CallOf
<1> QED
  BY <1>1, <1>2, <1>3, <1>4 DEF CallOf

-----------------------------------------------------------------------------
(* How many connections there are: NoMoreThanCallers. *)

LEMMA HoldingFinite ==
  /\ IsFiniteSet(Holding) /\ Cardinality(Holding) \in Nat
  /\ Cardinality(Caller) \in Nat /\ Cardinality(Holding) <= Cardinality(Caller)
<1>1. Holding \subseteq Caller
  BY DEF Holding
<1> QED
  BY <1>1, CallersFinite, FS_Subset, FS_CardinalityType

LEMMA SameRoom ==
  ASSUME Typed, NoMoreThanCallers, m_conns' = m_conns, NEW c \in Caller,
         NEW pc, caller' = [caller EXCEPT ![c] = pc],
         pc \in {"idle", "asking"} <=> caller[c] \in {"idle", "asking"}
  PROVE  NoMoreThanCallers'
<1>1. Holding' = Holding
  BY DEF Holding, Typed, TypeOK
<1> QED
  BY <1>1 DEF NoMoreThanCallers

LEMMA PopRoom ==
  ASSUME Typed, NoMoreThanCallers, NEW c \in Caller, PopConnection(c)
  PROVE  NoMoreThanCallers'
<1>1. PICK n \in 0..Len(m_conns) :
        /\ Len(m_conns') = Len(m_conns) - n
        /\ n = Len(m_conns) \/ n >= 1
        /\ \E pc \in {"connecting", "sending"} : caller' = [caller EXCEPT ![c] = pc]
  <2>1. PICK n \in 0..Len(m_conns) :
          /\ Len(m_conns') = Len(m_conns) - n
          /\ \/ n = Len(m_conns) /\ caller' = [caller EXCEPT ![c] = "connecting"] /\ mine' = mine
             \/ /\ n >= 1 /\ caller' = [caller EXCEPT ![c] = "sending"]
                /\ mine' = [mine EXCEPT ![c] = m_conns[n]] /\ m_conns[n] \in connected
    BY Popped
  <2> QED
    BY <2>1
<1>2. Holding' = Holding \cup {c} /\ c \notin Holding
  BY <1>1 DEF Holding, PopConnection, Typed, TypeOK
<1>3. Cardinality(Holding') = Cardinality(Holding) + 1
  BY <1>2, HoldingFinite, FS_AddElement
<1>4. Cardinality(Holding') <= Cardinality(Caller)
  <2>1. Holding' \in SUBSET Caller
    BY <1>2 DEF Holding
  <2> QED
    BY <2>1, CallersFinite, FS_Subset
<1>5. Len(m_conns) \in Nat
  BY PoolIsSeq
<1>6. Len(m_conns') + Cardinality(Holding') <= Cardinality(Caller)
  BY <1>1, <1>3, <1>4, <1>5, HoldingFinite DEF NoMoreThanCallers
<1> QED
  BY <1>6 DEF NoMoreThanCallers

LEMMA LeaveRoom ==
  ASSUME Typed, NoMoreThanCallers, NEW c \in Caller, ConnectFails(c) \/ Release(c)
  PROVE  NoMoreThanCallers'
<1>1. caller[c] \in {"connecting", "done"} /\ caller' = [caller EXCEPT ![c] = "idle"]
  BY DEF ConnectFails, Release, Goto
<1>2. Holding' = Holding \ {c} /\ c \in Holding
  BY <1>1 DEF Holding, Typed, TypeOK
<1>3. Cardinality(Holding') = Cardinality(Holding) - 1
  BY <1>2, HoldingFinite, FS_RemoveElement
<1>4. Len(m_conns) \in Nat /\ (Len(m_conns') = Len(m_conns) + 1 \/ Len(m_conns') = Len(m_conns))
  <2>1. CASE ConnectFails(c)
    BY <2>1, PoolIsSeq DEF ConnectFails, poolVars
  <2>2. CASE Release(c)
    BY <2>2, PoolIsSeq, Released
  <2> QED
    BY <2>1, <2>2
<1>5. Len(m_conns') + Cardinality(Holding') <= Cardinality(Caller)
  BY <1>3, <1>4, HoldingFinite DEF NoMoreThanCallers
<1> QED
  BY <1>5 DEF NoMoreThanCallers

LEMMA OtherRoom ==
  ASSUME Typed, NoMoreThanCallers, NEW c \in Caller,
         Call(c) \/ Connect(c) \/ SendRequest(c) \/ SendFails(c) \/ RecvResponse(c) \/ RecvFails(c)
  PROVE  NoMoreThanCallers'
<1>1. m_conns' = m_conns
  BY DEF Call, Connect, SendRequest, SendFails, RecvResponse, RecvFails, poolVars
<1>2. CASE Call(c)
  <2>1. caller' = [caller EXCEPT ![c] = "asking"] /\ caller[c] = "idle"
    BY <1>2 DEF Call, Goto
  <2> QED
    BY <1>1, <2>1, SameRoom
<1>3. CASE Connect(c)
  <2>1. caller' = [caller EXCEPT ![c] = "sending"] /\ caller[c] \notin {"idle", "asking"}
    BY <1>3 DEF Connect, Goto
  <2> QED
    BY <1>1, <2>1, SameRoom
<1>4. CASE SendRequest(c)
  <2>1. caller' = [caller EXCEPT ![c] = "receiving"] /\ caller[c] \notin {"idle", "asking"}
    BY <1>4 DEF SendRequest, Goto
  <2> QED
    BY <1>1, <2>1, SameRoom
<1>5. CASE SendFails(c)
  <2>1. caller' = [caller EXCEPT ![c] = "done"] /\ caller[c] \notin {"idle", "asking"}
    BY <1>5 DEF SendFails, Goto
  <2> QED
    BY <1>1, <2>1, SameRoom
<1>6. CASE RecvResponse(c)
  <2>1. caller' = [caller EXCEPT ![c] = "done"] /\ caller[c] \notin {"idle", "asking"}
    BY <1>6 DEF RecvResponse, Goto
  <2> QED
    BY <1>1, <2>1, SameRoom
<1>7. CASE RecvFails(c)
  <2>1. caller' = [caller EXCEPT ![c] = "done"] /\ caller[c] \notin {"idle", "asking"}
    BY <1>7 DEF RecvFails, Goto
  <2> QED
    BY <1>1, <2>1, SameRoom
<1> QED
  BY <1>2, <1>3, <1>4, <1>5, <1>6, <1>7

LEMMA ServeRoom ==
  ASSUME Typed, NoMoreThanCallers, NEW k \in Conn, Serve(k)
  PROVE  NoMoreThanCallers'
<1>1. m_conns' = m_conns /\ caller' = caller
  BY ServeEffect
<1> QED
  BY <1>1 DEF NoMoreThanCallers, Holding

-----------------------------------------------------------------------------
(* The invariant holds. *)

LEMMA InvInit == Init => HttpInv
<1> SUFFICES ASSUME Init PROVE HttpInv
  OBVIOUS
<1> USE DEF Init, ServerInit
<1>1. /\ Len(m_conns) = 0 /\ m_conns \in Seq(Conn)
      /\ \A k \in Conn : Len(up[k]) = 0 /\ Len(down[k]) = 0
      /\ up \in [Conn -> Seq(Part)] /\ down \in [Conn -> Seq(Request \X BOOLEAN)]
  OBVIOUS
<1>2. TypeOK
  <2>1. \A c \in Caller : turn[c] <= Len(Asks[c])
    BY AsksAreRequests
  <2>2. opened \in 0..MaxConn
    BY Bounds
  <2> QED
    BY <1>1, <2>1, <2>2 DEF TypeOK
<1>3. Typed
  BY <1>1, <1>2 DEF Typed, Uses
<1>4. \A k \in Conn : Still(k)
  BY <1>1 DEF Still, Idle
<1>5. \A k \in Conn : \A r : ~On(k, r) /\ ~Replied(k, r)
  BY <1>4, Exclusive
<1>6. OneRequest /\ Unopened /\ Handling
  BY <1>4, <1>5 DEF OneRequest, Unopened, Handling
<1>7. Lending
  BY <1>1 DEF Lending, Uses
<1>8. Calls
  BY AsksAreRequests DEF Calls, CallOf
<1>9. NoMoreThanCallers
  <2>1. Holding = {}
    BY DEF Holding
  <2> QED
    BY <1>1, <2>1, HoldingFinite, FS_EmptySet DEF NoMoreThanCallers
<1> QED
  BY <1>3, <1>6, <1>7, <1>8, <1>9 DEF HttpInv

LEMMA CallerInv ==
  ASSUME HttpInv, NEW c \in Caller, Call(c) \/ CallerStep(c)
  PROVE  HttpInv'
<1> USE DEF HttpInv
<1>0. CallOf(c)
  BY DEF Calls
<1>1. CASE Call(c)
  BY <1>1, CallTyped, QuietStep, QuietRequests, QuietLending, CallCalls, OtherRoom
<1>2. CASE PopConnection(c)
  BY <1>2, PopTyped, QuietStep, QuietRequests, PopLending, PopCalls, PopRoom
<1>3. CASE Connect(c)
  BY <1>3, ConnectTyped, ConnectRequests, ConnectLending, ConnectCalls, OtherRoom
<1>4. CASE ConnectFails(c)
  BY <1>4, FailsTyped, QuietStep, QuietRequests, QuietLending, FailCalls, LeaveRoom
<1>5. CASE SendRequest(c)
  BY <1>0, <1>5, SendTyped, SendRequests, TalkLending, SendCalls, OtherRoom
<1>6. CASE SendFails(c)
  BY <1>6, FailsTyped, QuietStep, QuietRequests, QuietLending, FailCalls, OtherRoom
<1>7. CASE RecvResponse(c)
  BY <1>0, <1>7, RecvTyped, RecvRequests, TalkLending, RecvCalls, OtherRoom
<1>8. CASE RecvFails(c)
  BY <1>8, RecvFailsTyped, QuietStep, QuietRequests, QuietLending, FailCalls, OtherRoom
<1>9. CASE Release(c)
  BY <1>0, <1>9, ReleaseTyped, QuietStep, QuietRequests, ReleaseLending, FailCalls, LeaveRoom
<1> QED
  BY <1>1, <1>2, <1>3, <1>4, <1>5, <1>6, <1>7, <1>8, <1>9 DEF CallerStep

LEMMA ServeInv == ASSUME HttpInv, NEW k \in Conn, Serve(k) PROVE HttpInv'
BY ServeTyped, ServeRequests, ServeLending, ServeCalls, ServeRoom DEF HttpInv

LEMMA StutterInv == HttpInv /\ UNCHANGED vars => HttpInv'
<1> SUFFICES ASSUME HttpInv, UNCHANGED vars PROVE HttpInv'
  OBVIOUS
<1>1. UNCHANGED <<up, late, down, hungUp, server, head, handled, m_conns, connected,
                  m_request, opened, caller, mine, turn, outcome>>
  BY DEF vars, wire, serverVars, poolVars, callVars
<1>2. \A k \in Conn : Same(k)
  BY <1>1 DEF Same
<1>3. (OneRequest /\ Unopened /\ Handling)'
  BY <1>1, <1>2, QuietRequests DEF HttpInv, NewStays
<1>4. Typed' /\ Lending'
  <2>1. Typed'
    BY <1>1 DEF HttpInv, Typed, TypeOK, Uses
  <2>2. \A d \in Caller : Uses(d)' <=> Uses(d)
    BY <1>1 DEF Uses
  <2>3. \A i \in 1..Len(m_conns), k \in Conn : m_conns[i] = k => k \in connected' /\ Still(k)'
    BY <1>1, <1>2, SameShape DEF HttpInv, Lending
  <2> QED
    BY <1>1, <2>1, <2>2, <2>3, SameLending DEF HttpInv
<1>5. Calls'
  <2>1. \A k \in Conn : \A r : On(k, r)' => On(k, r)
    BY <1>2, SameShape
  <2> QED
    BY <1>1, <1>2, <2>1, OtherCall DEF HttpInv, Calls
<1>6. NoMoreThanCallers'
  BY <1>1 DEF HttpInv, NoMoreThanCallers, Holding
<1> QED
  BY <1>3, <1>4, <1>5, <1>6 DEF HttpInv

LEMMA InvNext == HttpInv /\ [Next]_vars => HttpInv'
BY CallerInv, ServeInv, StutterInv DEF Next, Done

LEMMA HttpInvariant == Spec => []HttpInv
BY InvInit, InvNext, PTL DEF Spec

(* Connections, requests and calls are always what they are meant to be.   *)
THEOREM HttpTypes == Spec => []TypeOK
<1>1. HttpInv => TypeOK
  BY DEF HttpInv, Typed
<1> QED
  BY <1>1, HttpInvariant, PTL

(* What the pool lends out is connected, lent to one caller only, and free *)
(* of anything an earlier caller has sent or not received.                 *)
THEOREM PoolLendsClean == Spec => []PooledIsClean
<1>1. HttpInv => PooledIsClean
  <2> SUFFICES ASSUME HttpInv PROVE PooledIsClean
    OBVIOUS
  <2>1. DOMAIN m_conns = 1..Len(m_conns) /\ \A i \in 1..Len(m_conns) : m_conns[i] \in Conn
    BY PoolIsSeq DEF HttpInv
  <2>2. ASSUME NEW k \in Pooled PROVE k \in connected /\ Quiet(k)
    <3>1. k \in Conn /\ k \in connected /\ Still(k)
      BY <2>1, <2>2 DEF Pooled, HttpInv, Lending
    <3>2. up[k] \in Seq(Part) /\ down[k] \in Seq(Request \X BOOLEAN)
      BY <3>1 DEF HttpInv, Typed, TypeOK
    <3>3. Len(up[k]) = 0 /\ Len(down[k]) = 0 /\ late[k] = None /\ head[k] = None
      BY <3>1 DEF Still, Idle
    <3>4. up[k] = << >> /\ down[k] = << >>
      BY <3>2, <3>3
    <3> QED
      BY <3>1, <3>3, <3>4 DEF Quiet
  <2> QED
    BY <2>1, <2>2 DEF PooledIsClean, Pooled, HttpInv, Lending
<1> QED
  BY <1>1, HttpInvariant, PTL

(* However many calls are made, the pool never keeps more connections than *)
(* there are callers, although m_maxSize is not looked at.                 *)
THEOREM PoolStaysSmall == Spec => []NoMoreThanCallers
<1>1. HttpInv => NoMoreThanCallers
  BY DEF HttpInv
<1> QED
  BY <1>1, HttpInvariant, PTL

-----------------------------------------------------------------------------
(* The refinement of Exchange. *)

Status(r) == IF outcome[r] = r THEN "answered"
             ELSE IF outcome[r] \in Request THEN "mixed up" ELSE outcome[r]

Stutters == handled' = handled /\ \A r \in Request : Status(r)' = Status(r)

LEMMA Outcomes ==
  ASSUME NEW r \in Request
  PROVE  /\ outcome[r] = "new" => Status(r) = "new"
         /\ outcome[r] = "asked" => Status(r) = "asked"
         /\ outcome[r] = "failed" => Status(r) = "failed"
         /\ outcome[r] = r => Status(r) = "answered"
         /\ outcome'[r] = "asked" => Status(r)' = "asked"
         /\ outcome'[r] = "failed" => Status(r)' = "failed"
         /\ outcome'[r] = r => Status(r)' = "answered"
BY RequestsAreNoOutcomes DEF Status

LEMMA SameOutcomes ==
  ASSUME outcome' = outcome, handled' = handled
  PROVE  Stutters
BY DEF Stutters, Status

\* The outcome of one request is set.
LEMMA OneMoves ==
  ASSUME Typed, NEW q \in Request, NEW x, outcome' = [outcome EXCEPT ![q] = x]
  PROVE  /\ outcome'[q] = x
         /\ [r \in Request |-> Status(r)]' = [[r \in Request |-> Status(r)] EXCEPT ![q] = Status(q)']
<1>1. outcome'[q] = x /\ \A r \in Request : r # q => outcome'[r] = outcome[r]
  BY DEF Typed, TypeOK
<1>2. \A r \in Request : r # q => Status(r)' = Status(r)
  BY <1>1 DEF Status
<1> QED
  BY <1>1, <1>2

LEMMA CallerExchange ==
  ASSUME HttpInv, NEW c \in Caller, Call(c) \/ CallerStep(c)
  PROVE  Promise!Next \/ Stutters
<1> USE DEF HttpInv
<1>1. CASE Call(c)
  <2>1. turn[c] \in Nat /\ turn[c] < Len(Asks[c]) /\ turn[c] + 1 > turn[c]
    BY <1>1 DEF Call, Typed, TypeOK
  <2>2. turn[c] + 1 \in 1..Len(Asks[c])
    BY <2>1, AsksAreRequests
  <2>3. PICK q \in Request : q = Asks[c][turn[c] + 1]
    BY <2>2, AsksAreRequests
  <2>4. outcome' = [outcome EXCEPT ![q] = "asked"] /\ handled' = handled
    BY <1>1, <2>3 DEF Call, serverVars
  <2>5. outcome[q] = "new"
    BY <2>1, <2>2, <2>3 DEF Calls, CallOf
  <2>6. outcome'[q] = "asked"
    BY <2>4, OneMoves
  <2>7. Status(q) = "new" /\ Status(q)' = "asked"
    BY <2>5, <2>6, Outcomes
  <2>8. Promise!Ask(q)
    BY <2>4, <2>7, OneMoves DEF Promise!Ask, Promise!Move, Status
  <2> QED
    BY <2>8 DEF Promise!Next
<1>2. CASE ConnectFails(c) \/ SendFails(c) \/ RecvFails(c)
  <2>1. caller[c] \in {"connecting", "sending", "receiving"}
    BY <1>2 DEF ConnectFails, SendFails, RecvFails
  <2>2. PICK q \in Request : q = Now(c)
    BY <2>1, NowIsRequest
  <2>3. outcome' = [outcome EXCEPT ![q] = "failed"] /\ handled' = handled
    BY <1>2, <2>2 DEF ConnectFails, SendFails, RecvFails, Ends, serverVars
  <2>4. outcome[q] = "asked" /\ outcome'[q] = "failed"
    <3>1. outcome[q] = "asked"
      BY <2>1, <2>2 DEF Calls, CallOf
    <3>2. outcome'[q] = "failed"
      BY <2>3, OneMoves
    <3> QED
      BY <3>1, <3>2
  <2>5. Status(q) = "asked" /\ Status(q)' = "failed"
    BY <2>4, Outcomes
  <2>6. Promise!Fail(q)
    BY <2>3, <2>5, OneMoves DEF Promise!Fail, Promise!Move, Status
  <2> QED
    BY <2>6 DEF Promise!Next
<1>3. CASE RecvResponse(c)
  <2>1. caller[c] = "receiving"
    BY <1>3 DEF RecvResponse
  <2>2. PICK q \in Request : q = Now(c)
    BY <2>1, NowIsRequest
  <2>3. PICK k \in Conn : k = mine[c]
    BY <2>1, MineIsConn DEF Uses
  <2>4. Replied(k, q) /\ outcome' = [outcome EXCEPT ![q] = q] /\ handled' = handled
    BY <1>3, <2>2, <2>3, RecvEffect DEF Calls
  <2>5. outcome[q] = "asked" /\ outcome'[q] = q /\ handled[q] > 0
    <3>1. outcome[q] = "asked"
      BY <2>1, <2>2 DEF Calls, CallOf
    <3>2. outcome'[q] = q
      BY <2>4, OneMoves
    <3>3. handled[q] = 1
      BY <2>4 DEF Handling
    <3> QED
      BY <3>1, <3>2, <3>3
  <2>6. Status(q) = "asked" /\ Status(q)' = "answered"
    BY <2>5, Outcomes
  <2>7. Promise!Answer(q)
    BY <2>4, <2>5, <2>6, OneMoves DEF Promise!Answer, Promise!Move, Status
  <2> QED
    BY <2>7 DEF Promise!Next
<1>4. CASE PopConnection(c) \/ Connect(c) \/ SendRequest(c) \/ Release(c)
  <2>1. outcome' = outcome /\ handled' = handled
    BY <1>4 DEF PopConnection, Connect, SendRequest, Release, serverVars
  <2> QED
    BY <2>1, SameOutcomes
<1> QED
  BY <1>1, <1>2, <1>3, <1>4 DEF CallerStep

LEMMA ServeExchange ==
  ASSUME HttpInv, NEW k \in Conn, Serve(k)
  PROVE  Promise!Next \/ Stutters
<1> USE DEF HttpInv
<1>1. outcome' = outcome /\ \A r \in Request : Status(r)' = Status(r)
  BY ServeEffect DEF Status
<1>2. CASE handled' = handled
  BY <1>1, <1>2, SameOutcomes
<1>3. CASE \E r \in Request : Answering(k, r)
  <2>1. PICK r \in Request : Answering(k, r)
    BY <1>3
  <2>2. On(k, r) /\ handled' = [handled EXCEPT ![r] = @ + 1]
    BY <2>1, ServeEffect DEF Shape, On
  <2>3. handled[r] = 0 /\ outcome[r] # "new"
    BY <2>2 DEF Handling
  <2>4. handled' = [handled EXCEPT ![r] = 1]
    BY <2>2, <2>3
  <2>5. Status(r) # "new"
    BY <2>3 DEF Status
  <2>6. Promise!Handle(r)
    BY <1>1, <2>3, <2>4, <2>5 DEF Promise!Handle, Status
  <2> QED
    BY <2>6 DEF Promise!Next
<1>4. handled' = handled \/ \E r \in Request : Answering(k, r)
  BY ServeEffect DEF OneRequest, Shape, On
<1> QED
  BY <1>2, <1>3, <1>4

(* The pool and the server keep the promises of Exchange: each request is  *)
(* handled at most once and after it was asked, and a caller that gets an  *)
(* answer gets the one to its own request, which has been handled.         *)
THEOREM CallersGetTheirAnswers == Spec => ExchangeSpec
<1>1. Init => Promise!Init
  <2> SUFFICES ASSUME Init PROVE Promise!Init
    OBVIOUS
  <2>1. \A r \in Request : outcome[r] = "new" /\ outcome[r] # r /\ outcome[r] \notin Request
    BY RequestsAreNoOutcomes DEF Init
  <2> QED
    BY <2>1 DEF Init, ServerInit, Promise!Init
<1>2. HttpInv /\ [Next]_vars => [Promise!Next]_(Promise!vars)
  <2> SUFFICES ASSUME HttpInv, [Next]_vars PROVE Promise!Next \/ UNCHANGED Promise!vars
    OBVIOUS
  <2>1. Promise!Next \/ Stutters
    <3>1. CASE UNCHANGED vars
      BY <3>1, SameOutcomes DEF vars, serverVars, callVars
    <3> QED
      BY <3>1, CallerExchange, ServeExchange DEF Next, Done
  <2>2. Stutters => UNCHANGED Promise!vars
    BY DEF Stutters, Status, Promise!vars
  <2> QED
    BY <2>1, <2>2
<1> QED
  BY InvInit, InvNext, <1>1, <1>2, PTL DEF Spec, ExchangeSpec, Promise!Spec
=============================================================================
