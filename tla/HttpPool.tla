------------------------------ MODULE HttpPool ------------------------------
(***************************************************************************)
(* The client's side: HttpConnectionPool and HttpConnection                *)
(* (src/lyserver/src/http/http_connection.cpp), composed with the server.  *)
(* Callers run doRequest, each with a time limit; a connection goes back   *)
(* to the pool when the shared_ptr that lends it out dies.                 *)
(*                                                                         *)
(* m_createTime keeps its initial 0 and the clock counts from 1970, so no  *)
(* connection is ever young or old: both tests of m_maxAliveTime are false *)
(* and are left out.                                                       *)
(***************************************************************************)
EXTENDS HttpServer

CONSTANTS
  Caller,      \* the threads that call doRequest
  Asks,        \* the requests of each, in turn: a function to sequences
  MaxRequest   \* m_maxRequest

ASSUME CallersFinite == IsFiniteSet(Caller)
ASSUME RequestsAreNoOutcomes == Request \cap {"new", "asked", "failed"} = {}
ASSUME AsksDiffer ==
  /\ Asks \in [Caller -> Seq(Request)]
  /\ \A c, d \in Caller : \A i \in DOMAIN Asks[c], j \in DOMAIN Asks[d] :
       Asks[c][i] = Asks[d][j] => c = d /\ i = j

VARIABLES
  m_conns,     \* the idle connections
  connected,   \* those whose own m_isConnected is set
  m_request,   \* how often each has been given back
  opened,      \* connections opened so far
  caller,      \* where each caller is in doRequest
  mine,        \* the connection it holds
  turn,        \* which of its requests it is at
  outcome      \* of each request: "new", "asked", "failed", or what was answered

poolVars == <<m_conns, connected, m_request, opened>>
callVars == <<caller, mine, turn, outcome>>
vars == <<wire, serverVars, poolVars, callVars>>

Holding == {c \in Caller : caller[c] \notin {"idle", "asking"}}
Now(c) == Asks[c][turn[c]]
Goto(c, pc) == caller' = [caller EXCEPT ![c] = pc]
Ends(c, result) == outcome' = [outcome EXCEPT ![Now(c)] = result]

Init ==
  /\ ServerInit
  /\ m_conns = << >> /\ connected = {} /\ opened = 0
  /\ m_request = [k \in Conn |-> 0]
  /\ caller = [c \in Caller |-> "idle"] /\ mine = [c \in Caller |-> None]
  /\ turn = [c \in Caller |-> 0]
  /\ outcome = [r \in Request |-> "new"]

-----------------------------------------------------------------------------
Call(c) ==
  /\ caller[c] = "idle" /\ turn[c] < Len(Asks[c])
  /\ turn' = [turn EXCEPT ![c] = @ + 1]
  /\ outcome' = [outcome EXCEPT ![Asks[c][turn[c] + 1]] = "asked"]
  /\ Goto(c, "asking")
  /\ UNCHANGED <<wire, serverVars, poolVars, mine>>

\* Mutant: pop_front is forgotten.
AfterPeek(n) == m_conns
AfterPop(n) == SubSeq(m_conns, n + 1, Len(m_conns))

\* getConnection, under m_mutex: drop the connections that say they are closed
\* and take the first that is not.
PopConnection(c) ==
  /\ caller[c] = "asking"
  /\ \/ \E n \in DOMAIN m_conns :
          /\ m_conns[n] \in connected /\ \A i \in 1..n - 1 : m_conns[i] \notin connected
          /\ m_conns' = AfterPop(n)
          /\ mine' = [mine EXCEPT ![c] = m_conns[n]] /\ Goto(c, "sending")
     \/ /\ \A i \in DOMAIN m_conns : m_conns[i] \notin connected
        /\ m_conns' = AfterPop(Len(m_conns))
        /\ Goto(c, "connecting") /\ UNCHANGED mine
  /\ UNCHANGED <<wire, serverVars, connected, m_request, opened, turn, outcome>>

\* The rest of getConnection; the server accepts the connection and arms it.
Connect(c) ==
  LET k == opened + 1 IN
  /\ caller[c] = "connecting" /\ k \in Conn
  /\ opened' = k /\ connected' = connected \cup {k}
  /\ mine' = [mine EXCEPT ![c] = k] /\ Goto(c, "sending")
  /\ server' = [server EXCEPT ![k] = "armed"]
  /\ UNCHANGED <<wire, head, handled, m_conns, m_request, turn, outcome>>

\* POOL_GET_CONNECTION: no address, no socket or no server.
ConnectFails(c) ==
  /\ caller[c] = "connecting"
  /\ Ends(c, "failed") /\ Goto(c, "idle")
  /\ UNCHANGED <<wire, serverVars, poolVars, mine, turn>>

\* The whole request is written.  A server that has closed does not read it.
SendRequest(c) ==
  LET k == mine[c] IN
  /\ caller[c] = "sending"
  /\ IF server[k] = "freed" THEN UNCHANGED <<up, late>>
     ELSE \/ /\ up' = [up EXCEPT ![k] = @ \o <<<<Now(c), "head">>, <<Now(c), "tail">>>>]
             /\ UNCHANGED late
          \/ /\ up' = [up EXCEPT ![k] = Append(@, <<Now(c), "head">>)]
             /\ late' = [late EXCEPT ![k] = Now(c)]
  /\ Goto(c, "receiving")
  /\ UNCHANGED <<down, hungUp, serverVars, poolVars, mine, turn, outcome>>

\* SEND_SOCKET_ERROR: the connection stays "connected".
SendFails(c) ==
  /\ caller[c] = "sending" /\ server[mine[c]] = "freed"
  /\ Ends(c, "failed") /\ Goto(c, "done")
  /\ UNCHANGED <<wire, serverVars, poolVars, mine, turn>>

Answered(k) == down[k] # << >> /\ Head(down[k])[2]

\* recvResponse: the first response on the connection, and what follows it in
\* the buffer is dropped.
RecvResponse(c) ==
  LET k == mine[c] IN
  /\ caller[c] = "receiving" /\ Answered(k)
  /\ Ends(c, Head(down[k])[1]) /\ Goto(c, "done")
  /\ down' = [down EXCEPT ![k] = << >>]
  /\ UNCHANGED <<up, late, hungUp, serverVars, poolVars, mine, turn>>

\* Mutant: the connection stays open after a failure.
CloseNothing(k) == UNCHANGED <<connected, hungUp>>
Close(k) == connected' = connected \ {k} /\ hungUp' = hungUp \cup {k}

\* Mutant: no time limit was set.
ServerEnds(k) == server[k] = "freed"
\* A recv that finds nothing ends: by its time limit at the latest.
RecvEnds(k) == ~Answered(k)

\* Time-out, end of the stream or an error: recvResponse closes the connection.
RecvFails(c) ==
  /\ caller[c] = "receiving" /\ RecvEnds(mine[c])
  /\ Close(mine[c])
  /\ Ends(c, "failed") /\ Goto(c, "done")
  /\ UNCHANGED <<up, late, down, serverVars, m_conns, m_request, opened, mine, turn>>

\* Mutant: only the number of requests counts.
ReusableIfFew(k) == m_request[k] + 1 < MaxRequest
Reusable(k) == k \in connected /\ m_request[k] + 1 < MaxRequest

\* ReleasePtr
Release(c) ==
  LET k == mine[c] IN
  /\ caller[c] = "done"
  /\ m_request' = [m_request EXCEPT ![k] = @ + 1]
  /\ IF Reusable(k) THEN m_conns' = Append(m_conns, k) /\ UNCHANGED <<connected, hungUp>>
     ELSE Close(k) /\ UNCHANGED m_conns
  /\ mine' = [mine EXCEPT ![c] = None] /\ Goto(c, "idle")
  /\ UNCHANGED <<up, late, down, serverVars, opened, turn, outcome>>

CallerStep(c) ==
  \/ PopConnection(c) \/ Connect(c) \/ ConnectFails(c)
  \/ SendRequest(c) \/ SendFails(c) \/ RecvResponse(c) \/ RecvFails(c) \/ Release(c)

Serve(k) == ServerStep(k) /\ UNCHANGED <<poolVars, callVars>>

Done == (\A c \in Caller : caller[c] = "idle" /\ turn[c] = Len(Asks[c])) /\ UNCHANGED vars

Next ==
  \/ \E c \in Caller : Call(c) \/ CallerStep(c)
  \/ \E k \in Conn : Serve(k)
  \/ Done

\* A caller goes on, for every call it makes returns: recv has a time limit.
\* A worker that has begun goes on; the network delivers.
Fairness ==
  /\ \A c \in Caller : WF_vars(CallerStep(c))
  /\ \A k \in Conn : WF_vars(Serve(k))

Spec == Init /\ [][Next]_vars
FairSpec == Spec /\ Fairness

-----------------------------------------------------------------------------
Pooled == {m_conns[i] : i \in DOMAIN m_conns}

TypeOK ==
  /\ up \in [Conn -> Seq(Part)] /\ late \in [Conn -> Request \cup {None}]
  /\ down \in [Conn -> Seq(Request \X BOOLEAN)] /\ hungUp \subseteq Conn
  /\ server \in [Conn -> {"none", "armed", "reading", "answering", "freed"}]
  /\ head \in [Conn -> Request \cup {None}] /\ handled \in [Request -> Nat]
  /\ m_conns \in Seq(Conn) /\ connected \subseteq Conn
  /\ m_request \in [Conn -> Nat] /\ opened \in 0..MaxConn
  /\ caller \in [Caller -> {"idle", "asking", "connecting", "sending", "receiving", "done"}]
  /\ mine \in [Caller -> Conn \cup {None}]
  /\ turn \in [Caller -> Nat] /\ \A c \in Caller : turn[c] <= Len(Asks[c])
  /\ outcome \in [Request -> {"new", "asked", "failed"} \cup Request]

\* What is between the two ends of a connection: nothing that its next user
\* could take for his own.  A server that has closed reads nothing any more.
Quiet(k) ==
  /\ down[k] = << >>
  /\ server[k] # "freed" => up[k] = << >> /\ late[k] = None /\ head[k] = None

\* A connection in the pool says it is connected, is lent to nobody and not in
\* the pool twice, and no request and no answer of an earlier caller is on it:
\* one that was given up has been closed (recvResponse closes on every error).
PooledIsClean ==
  /\ \A k \in Pooled : k \in connected /\ Quiet(k)
  /\ \A c \in Caller : mine[c] \notin Pooled
  /\ \A i, j \in DOMAIN m_conns : m_conns[i] = m_conns[j] => i = j

\* m_maxSize is never looked at, yet the connections in the pool and the calls
\* under way are never more than there are callers: one is opened only when the
\* pool was found empty.
NoMoreThanCallers == Len(m_conns) + Cardinality(Holding) <= Cardinality(Caller)

\* Requests are handled once, after they were asked; a caller gets the answer to
\* its own request -- never one that came too late for an earlier caller.
Promise == INSTANCE Exchange WITH
  status <- [r \in Request |->
               IF outcome[r] = r THEN "answered"
               ELSE IF outcome[r] \in Request THEN "mixed up" ELSE outcome[r]]
ExchangeSpec == Promise!Spec

\* Every call of doRequest returns, whatever the server does.
EveryCallReturns == \A c \in Caller : caller[c] # "idle" ~> caller[c] = "idle"

\* A worker that handles a connection comes back to the pool, unless the client
\* has closed it: then handleClient reads the end of the stream for ever.
WorkerReturns ==
  \A k \in Conn : k \in Busy ~> k \notin Busy \/ k \in hungUp
=============================================================================
