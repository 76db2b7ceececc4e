----------------------------- MODULE HttpServer -----------------------------
(***************************************************************************)
(* The server's side of an HTTP connection: HttpServer::handleClient,      *)
(* HttpSession::recvRequest and sendResponse (src/lyserver/src/http/) and  *)
(* Connection::handle_http_event (reactor/reactor.cpp), which a worker     *)
(* runs whenever epoll reports the connection.                             *)
(*                                                                         *)
(* A request comes in two parts, "head" and "tail", which may arrive       *)
(* apart; whether the cut is in the header or in the body is a choice      *)
(* where the code tells them apart.  A peer sends its next request on a    *)
(* connection after the answer to the one before, as HttpPool does.        *)
(***************************************************************************)
EXTENDS Integers, Sequences, FiniteSets

CONSTANTS
  MaxConn,     \* bound: connections opened in all
  Request,     \* the requests
  Closing,     \* those with "connection: close"
  KeepAlive,   \* m_isKeepalive
  Workers,     \* how many threads the pool may have
  None         \* no request

ASSUME KeepAliveIsBool == KeepAlive \in BOOLEAN
ASSUME Bounds == MaxConn \in Nat /\ Workers \in Nat \ {0}

Conn == 1..MaxConn     \* in the order in which they are opened

ASSUME NoneIsNone == None \notin Request \cup Conn

VARIABLES
  up,          \* the parts of requests that have arrived and wait to be read
  late,        \* the request whose tail is still on its way, or None
  down,        \* the answers the server has sent, whole or cut off
  hungUp,      \* connections the client has closed
  server,      \* each connection: "none", "armed", "reading", "answering", "freed"
  head,        \* the request of which recvRequest has read the head, or None
  handled      \* how often a servlet has handled each request

wire == <<up, late, down, hungUp>>
serverVars == <<server, head, handled>>

Part == {<<r, p>> : r \in Request, p \in {"head", "tail"}}
Busy == {k \in Conn : server[k] \in {"reading", "answering"}}
Ended(k) == k \in hungUp /\ late[k] = None     \* recv returns 0 after the last byte

ServerInit ==
  /\ up = [k \in Conn |-> << >>] /\ late = [k \in Conn |-> None]
  /\ down = [k \in Conn |-> << >>] /\ hungUp = {}
  /\ server = [k \in Conn |-> "none"] /\ head = [k \in Conn |-> None]
  /\ handled = [r \in Request |-> 0]

-----------------------------------------------------------------------------
\* The network delivers the tail.
Arrive(k) ==
  /\ late[k] # None
  /\ up' = [up EXCEPT ![k] = Append(@, <<late[k], "tail">>)]
  /\ late' = [late EXCEPT ![k] = None]
  /\ UNCHANGED <<down, hungUp, serverVars>>

\* epoll reports the armed connection and a worker of the pool takes it.
Event(k) ==
  /\ server[k] = "armed" /\ (up[k] # << >> \/ Ended(k))
  /\ Cardinality(Busy) < Workers
  /\ server' = [server EXCEPT ![k] = "reading"]
  /\ UNCHANGED <<wire, head, handled>>

\* handleClient returns -1: armed again when errno is EAGAIN, freed if not.
\* Only a read that ran dry has set errno; else it is what an earlier call left.
Leave(k, ends) ==
  /\ server' = [server EXCEPT ![k] = IF ends THEN "freed" ELSE "armed"]
  /\ head' = [head EXCEPT ![k] = None]

Take(k) == up' = [up EXCEPT ![k] = Tail(@)]

HasHead(k) == head[k] # None

\* recvRequest: the parser has part of a request and wants the rest.
ReadHead(k) ==
  /\ server[k] = "reading" /\ up[k] # << >> /\ ~HasHead(k)
  /\ Head(up[k])[2] = "head"
  /\ head' = [head EXCEPT ![k] = Head(up[k])[1]]
  /\ Take(k)
  /\ UNCHANGED <<late, down, hungUp, server, handled>>

ReadTail(k) ==
  /\ server[k] = "reading" /\ up[k] # << >> /\ HasHead(k)
  /\ Take(k)
  /\ server' = [server EXCEPT ![k] = "answering"]
  /\ UNCHANGED <<late, down, hungUp, head, handled>>

\* The tail of a request whose head an earlier call has dropped does not parse.
ReadJunk(k) ==
  /\ server[k] = "reading" /\ up[k] # << >> /\ ~HasHead(k)
  /\ Head(up[k])[2] = "tail"
  /\ Take(k) /\ \E ends \in BOOLEAN : Leave(k, ends)
  /\ UNCHANGED <<late, down, hungUp, handled>>

\* Mutant: EAGAIN is answered by another read.
ReadDryAgain(k) ==
  /\ server[k] = "reading" /\ up[k] = << >> /\ ~Ended(k)
  /\ head' = [head EXCEPT ![k] = None]
  /\ UNCHANGED <<wire, server, handled>>

\* EAGAIN: what has been read of the request is lost with recvRequest's buffer.
ReadDry(k) ==
  /\ server[k] = "reading" /\ up[k] = << >> /\ ~Ended(k)
  /\ Leave(k, FALSE)
  /\ UNCHANGED <<wire, handled>>

\* End of the stream: in a header recvRequest returns 0, and handleClient
\* calls it again, and again; in a body it returns -1.
ReadEnd(k) ==
  /\ server[k] = "reading" /\ up[k] = << >> /\ Ended(k)
  /\ \/ head' = [head EXCEPT ![k] = None] /\ UNCHANGED server
     \/ HasHead(k) /\ \E ends \in BOOLEAN : Leave(k, ends)
  /\ UNCHANGED <<wire, handled>>

\* The servlet runs and the response is written, as far as the socket takes it
\* (nobody looks at what sendResponse returns).
Answer(k) ==
  LET r == head[k] IN
  /\ server[k] = "answering"
  /\ handled' = [handled EXCEPT ![r] = @ + 1]
  /\ \E whole \in BOOLEAN : down' = [down EXCEPT ![k] = Append(@, <<r, whole>>)]
  /\ head' = [head EXCEPT ![k] = None]
  /\ server' = [server EXCEPT ![k] = IF ~KeepAlive \/ r \in Closing THEN "freed" ELSE "reading"]
  /\ UNCHANGED <<up, late, hungUp>>

ServerStep(k) ==
  \/ Arrive(k) \/ Event(k)
  \/ ReadHead(k) \/ ReadTail(k) \/ ReadJunk(k) \/ ReadDry(k) \/ ReadEnd(k)
  \/ Answer(k)
=============================================================================
