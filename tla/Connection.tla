----------------------------- MODULE Connection -----------------------------
(***************************************************************************)
(* The life of a client's connection: Acceptor, SubReactor, Connection     *)
(* (src/lyserver/src/reactor/reactor.cpp), its slot of class My_events     *)
(* (reactor/My_events.cpp), Epollmanager (epollmanager.cpp) and the part   *)
(* of Fdmanager (fdmanager.cpp) that frees it and knows it by its ID.      *)
(*                                                                         *)
(* A slot belongs to a file descriptor and is used again with it.  Nobody  *)
(* locks it: EPOLLONESHOT is to keep every thread but one away, and the    *)
(* steps of that one, between which the others run, are the actions.       *)
(* Where recvdata arms a slot with a mask it never set, or arms it and     *)
(* reads on, that protection ends: the descriptor is "astray".             *)
(***************************************************************************)
EXTENDS Integers, FiniteSets

CONSTANTS
  Client,      \* the peers
  Fd,          \* the descriptors accept may return
  Worker,      \* the threads of the pool
  ID,          \* userID: the names the server knows
  MaxUnread,   \* bound: messages of a client nobody has read yet
  MaxBuffer,   \* bound: messages in a read buffer
  None         \* no client, no descriptor, no name, no value

ASSUME NoneIsNone == None \notin Client \cup Fd \cup ID
ASSUME NoneIsNoValue == None \notin {"recvdata", "senddata", "IN", "OUT"}
ASSUME FiniteWorld == IsFiniteSet(Client) /\ IsFiniteSet(Fd)
ASSUME Bounds == MaxUnread \in Nat /\ MaxBuffer \in Nat

VARIABLES
  peer,       \* each client: "out", "waiting" for accept, "up", "hung" up or
              \* "lost": the next recv returns an errno that recvdata does not list
  unread,     \* messages it has sent that have not been read
  conn,       \* whose connection a descriptor is
  armed,      \* the events epoll watches a descriptor for
  edge,       \* epoll has an event for the listening descriptor
  reported,   \* eventqueue: what epoll_wait returned for a descriptor
  accepts,    \* tasks of the pool that accept
  tasks,      \* tasks of the pool for a descriptor and a callback
  worker,     \* what each thread is doing
  call_back, m_events, m_status, name, buffer,   \* the slots; name is ID
  event,      \* connections counted for the epoll instance
  Id_Fd,      \* the descriptor of each name
  astray      \* history: descriptors whose slot EPOLLONESHOT has ceased to protect

kernel == <<peer, unread, conn>>
loops == <<edge, reported, accepts, tasks>>
slots == <<call_back, m_events, m_status, name, buffer>>
counts == <<event, Id_Fd>>
vars == <<kernel, armed, loops, worker, slots, counts, astray>>

Events == {"IN", "OUT"}
Callbacks == {"recvdata", "senddata"}

\* What a thread is at: a place in the code, the slot it works on, and the
\* variables event, recvfun, ID and b of the function it is in.
Idle == [at |-> "idle", fd |-> None, ev |-> None, fun |-> None, n |-> None, b |-> FALSE]
Doing(place, f) == [Idle EXCEPT !.at = place, !.fd = f]
Freeing(f, b) == [Doing("eventdel", f) EXCEPT !.b = b]
At(w, place) == worker[w].at = place
fd(w) == worker[w].fd
Go(w, doing) == worker' = [worker EXCEPT ![w] = doing]

-----------------------------------------------------------------------------
Init ==
  /\ peer = [c \in Client |-> "out"] /\ unread = [c \in Client |-> 0]
  /\ conn = [f \in Fd |-> None] /\ armed = [f \in Fd |-> {}]
  /\ edge = FALSE /\ reported = [f \in Fd |-> {}]
  /\ accepts = 0 /\ tasks = [f \in Fd |-> [cb \in Callbacks |-> 0]]
  /\ worker = [w \in Worker |-> Idle]
  /\ call_back = [f \in Fd |-> None] /\ m_events = [f \in Fd |-> {}]
  /\ m_status = [f \in Fd |-> 0] /\ name = [f \in Fd |-> None] /\ buffer = [f \in Fd |-> 0]
  /\ event = 0
  /\ Id_Fd = [n \in ID |-> None]
  /\ astray = {}

-----------------------------------------------------------------------------
(* The peers *)

Connect(c) ==
  /\ peer[c] = "out"
  /\ peer' = [peer EXCEPT ![c] = "waiting"]
  /\ edge' = TRUE
  /\ UNCHANGED <<unread, conn, armed, reported, accepts, tasks, worker, slots, counts, astray>>

\* A message, or a part of one: which, the read decides.
SendMessage(c) ==
  /\ peer[c] \in {"waiting", "up"} /\ unread[c] < MaxUnread
  /\ unread' = [unread EXCEPT ![c] = @ + 1]
  /\ UNCHANGED <<peer, conn, armed, loops, worker, slots, counts, astray>>

HangUp(c) ==
  /\ peer[c] = "up"
  /\ peer' = [peer EXCEPT ![c] = "hung"]
  /\ UNCHANGED <<unread, conn, armed, loops, worker, slots, counts, astray>>

\* Not by its peer: ETIMEDOUT, say.
BreakDown(c) ==
  /\ peer[c] = "up"
  /\ peer' = [peer EXCEPT ![c] = "lost"]
  /\ UNCHANGED <<unread, conn, armed, loops, worker, slots, counts, astray>>

-----------------------------------------------------------------------------
(* The reactors *)

\* MainReactor::handleEvents: the listening slot is edge triggered and stays armed.
MainDispatch ==
  /\ edge
  /\ accepts < Cardinality(Client)      \* bound: a later edge waits
  /\ edge' = FALSE
  /\ accepts' = accepts + 1
  /\ UNCHANGED <<kernel, armed, reported, tasks, worker, slots, counts, astray>>

\* A socket is readable when it has a message, its end or an error, and always
\* writable.
Ready(f) ==
  IF conn[f] = None THEN {}
  ELSE {e \in armed[f] : e = "IN" => unread[conn[f]] > 0 \/ peer[conn[f]] \in {"hung", "lost"}}

\* Mutant: without EPOLLONESHOT.
EpollWaitKeepsArmed ==
  /\ \A f \in Fd : reported[f] = {}
  /\ \E f \in Fd : Ready(f) # {}
  /\ reported' = [f \in Fd |-> Ready(f)]
  /\ UNCHANGED <<kernel, armed, edge, accepts, tasks, worker, slots, counts, astray>>

\* epoll_wait, when the sub reactor has handled what it returned before:
\* EPOLLONESHOT disarms what it reports.
EpollWait ==
  /\ \A f \in Fd : reported[f] = {}
  /\ \E f \in Fd : Ready(f) # {}
  /\ reported' = [f \in Fd |-> Ready(f)]
  /\ armed' = [f \in Fd |-> IF Ready(f) = {} THEN armed[f] ELSE {}]
  /\ UNCHANGED <<kernel, edge, accepts, tasks, worker, slots, counts, astray>>

\* SubReactor::handleEvents: one task for each event that m_events has too.
Dispatch(f) ==
  /\ reported[f] # {}
  /\ reported' = [reported EXCEPT ![f] = {}]
  /\ tasks' = IF call_back[f] \in Callbacks
                THEN [tasks EXCEPT ![f][call_back[f]] = @ + Cardinality(reported[f] \cap m_events[f])]
                ELSE tasks
  /\ UNCHANGED <<kernel, armed, edge, accepts, worker, slots, counts, astray>>

\* A thread of the pool takes a task.
Start(w, f) ==
  /\ At(w, "idle")
  /\ \E cb \in Callbacks :
       /\ tasks[f][cb] > 0
       /\ tasks' = [tasks EXCEPT ![f][cb] = @ - 1]
       /\ Go(w, Doing(IF cb = "recvdata" THEN "read" ELSE "send", f))
  /\ UNCHANGED <<kernel, armed, edge, reported, accepts, slots, counts, astray>>

StartAccept(w) ==
  /\ At(w, "idle") /\ accepts > 0
  /\ accepts' = accepts - 1
  /\ Go(w, [Idle EXCEPT !.at = "accept"])
  /\ UNCHANGED <<kernel, armed, edge, reported, tasks, slots, counts, astray>>

-----------------------------------------------------------------------------
(* Acceptor::acceptconnect *)

Accept(w, c, f) ==
  /\ At(w, "accept")
  /\ peer[c] = "waiting" /\ conn[f] = None
  /\ peer' = [peer EXCEPT ![c] = "up"]
  /\ conn' = [conn EXCEPT ![f] = c]
  /\ Go(w, Doing("init", f))
  /\ UNCHANGED <<unread, armed, loops, slots, counts, astray>>

\* accept fails: nobody waits, or there is no descriptor left.
AcceptFails(w) ==
  /\ At(w, "accept")
  /\ (\A c \in Client : peer[c] # "waiting") \/ (\A f \in Fd : conn[f] # None)
  /\ Go(w, Idle)
  /\ UNCHANGED <<kernel, armed, loops, slots, counts, astray>>

\* init and Myev_set of the slot, find_epfd and add_epfd_event.
InitSlot(w) ==
  /\ At(w, "init")
  /\ call_back' = [call_back EXCEPT ![fd(w)] = "recvdata"]
  /\ m_events' = [m_events EXCEPT ![fd(w)] = {}]
  /\ m_status' = [m_status EXCEPT ![fd(w)] = 0]
  /\ name' = [name EXCEPT ![fd(w)] = None]
  /\ buffer' = [buffer EXCEPT ![fd(w)] = 0]
  /\ event' = event + 1
  /\ Go(w, Doing("eventadd", fd(w)))
  /\ UNCHANGED <<kernel, armed, loops, Id_Fd, astray>>

\* Epollmanager::eventadd does nothing for a slot it believes to be on the tree.
EventAdd(w) ==
  /\ At(w, "eventadd")
  /\ m_events' = [m_events EXCEPT ![fd(w)] = {"IN"}]
  /\ m_status' = [m_status EXCEPT ![fd(w)] = 1]
  /\ armed' = IF m_status[fd(w)] = 0 THEN [armed EXCEPT ![fd(w)] = {"IN"}] ELSE armed
  /\ Go(w, [Idle EXCEPT !.at = "accept"])
  /\ UNCHANGED <<kernel, loops, call_back, name, buffer, counts, astray>>

-----------------------------------------------------------------------------
(* Connection::recvdata *)

\* readMsg finds a message or a part of one.
Reads(w) ==
  /\ At(w, "read") /\ unread[conn[fd(w)]] > 0
  /\ unread' = [unread EXCEPT ![conn[fd(w)]] = @ - 1]
  /\ UNCHANGED <<peer, conn, armed, loops, call_back, m_events, m_status, name, counts, astray>>

ReadHandled(w) ==                \* its handler has answered it
  /\ Reads(w)
  /\ Go(w, [worker[w] EXCEPT !.ev = "IN", !.fun = "recvdata"])
  /\ UNCHANGED buffer

ReadForward(w) ==                \* TRANSMIT_REQUEST
  /\ Reads(w) /\ buffer[fd(w)] < MaxBuffer
  /\ buffer' = [buffer EXCEPT ![fd(w)] = @ + 1]
  /\ Go(w, [worker[w] EXCEPT !.ev = "OUT", !.fun = "senddata"])

ReadJunk(w) ==                   \* not JSON: event and recvfun are left alone
  /\ Reads(w)
  /\ UNCHANGED <<worker, buffer>>

ReadUnknown(w) ==                \* a REQUEST without a handler: an empty std::function is
  /\ Reads(w)                    \* called, and nobody catches std::bad_function_call
  /\ Go(w, [worker[w] EXCEPT !.at = "terminate"])
  /\ UNCHANGED buffer

ReadStub(w) ==                   \* a part of the length: readen drops it, errno is EAGAIN
  /\ Reads(w)
  /\ Go(w, [worker[w] EXCEPT !.at = "rearm"])
  /\ UNCHANGED buffer

ReadCut(w) ==                    \* a part of the body: readMsg returns 0
  /\ Reads(w)
  /\ Go(w, Freeing(fd(w), TRUE))
  /\ UNCHANGED buffer

ReadUnanswered(w) ==             \* its handler returns -1, which means a good ID here
  /\ Reads(w)
  /\ Go(w, [worker[w] EXCEPT !.at = "rearm", !.ev = "IN", !.fun = "recvdata"])
  /\ UNCHANGED buffer

\* set_client_ID, whoID: is_exist takes the read lock and gives it back.
ReadID(w, n) ==
  /\ Reads(w)
  /\ Go(w, IF Id_Fd[n] = None THEN [Doing("whoID", fd(w)) EXCEPT !.n = n] ELSE Freeing(fd(w), TRUE))
  /\ UNCHANGED buffer

ReadUnknownID(w) ==
  /\ Reads(w)
  /\ Go(w, Freeing(fd(w), FALSE))
  /\ UNCHANGED buffer

\* Mutant: the slot is not armed again when the ID is known.
WhoIDForgetsToRearm(w) ==
  /\ At(w, "whoID")
  /\ LET n == worker[w].n IN
       /\ name' = [name EXCEPT ![fd(w)] = n]
       /\ Id_Fd' = IF Id_Fd[n] = None THEN [Id_Fd EXCEPT ![n] = fd(w)] ELSE Id_Fd
  /\ Go(w, Idle)
  /\ UNCHANGED <<kernel, armed, loops, call_back, m_events, m_status, buffer, event, astray>>

\* Then whoID takes the write lock; insert keeps an entry that is there.
WhoID(w) ==
  /\ At(w, "whoID")
  /\ LET n == worker[w].n IN
       /\ name' = [name EXCEPT ![fd(w)] = n]
       /\ Id_Fd' = IF Id_Fd[n] = None THEN [Id_Fd EXCEPT ![n] = fd(w)] ELSE Id_Fd
  /\ Go(w, [Doing("rearm", fd(w)) EXCEPT !.ev = "IN", !.fun = "recvdata"])
  /\ UNCHANGED <<kernel, armed, loops, call_back, m_events, m_status, buffer, event, astray>>

ReadNothing(w) ==                \* EAGAIN
  /\ At(w, "read") /\ unread[conn[fd(w)]] = 0 /\ peer[conn[fd(w)]] \notin {"hung", "lost"}
  /\ Go(w, [worker[w] EXCEPT !.at = "rearm"])
  /\ UNCHANGED <<kernel, armed, loops, slots, counts, astray>>

ReadEnd(w) ==                    \* the end of the stream, or an errno it knows
  /\ At(w, "read") /\ unread[conn[fd(w)]] = 0 /\ peer[conn[fd(w)]] = "hung"
  /\ Go(w, Freeing(fd(w), TRUE))
  /\ UNCHANGED <<kernel, armed, loops, slots, counts, astray>>

\* Epollmanager::reset_oneshot.  An event that was never set may be any mask; an
\* empty function leaves the callback as it is.
Reset(f, ev, fun) ==
  /\ \E mask \in IF ev = None THEN SUBSET Events ELSE {{ev}} :
       /\ m_events' = [m_events EXCEPT ![f] = mask]
       /\ armed' = [armed EXCEPT ![f] = mask]
  /\ call_back' = [call_back EXCEPT ![f] = IF fun = None THEN @ ELSE fun]

\* Any other errno: the slot is armed, and reading goes on; what is left of the
\* socket is its end.
ReadError(w) ==
  /\ At(w, "read") /\ unread[conn[fd(w)]] = 0 /\ peer[conn[fd(w)]] = "lost"
  /\ Reset(fd(w), "IN", "recvdata")
  /\ Go(w, [worker[w] EXCEPT !.fun = "recvdata"])
  /\ peer' = [peer EXCEPT ![conn[fd(w)]] = "hung"]
  /\ astray' = astray \cup {fd(w)}
  /\ UNCHANGED <<unread, conn, loops, m_status, name, buffer, counts>>

\* Mutant: reading goes on after every reset_oneshot.
RearmAndReadOn(w) ==
  /\ At(w, "rearm")
  /\ Reset(fd(w), worker[w].ev, worker[w].fun)
  /\ astray' = IF worker[w].ev = None THEN astray \cup {fd(w)} ELSE astray
  /\ Go(w, Doing("read", fd(w)))
  /\ UNCHANGED <<kernel, loops, m_status, name, buffer, counts>>

Rearm(w) ==
  /\ At(w, "rearm")
  /\ Reset(fd(w), worker[w].ev, worker[w].fun)
  /\ astray' = IF worker[w].ev = None THEN astray \cup {fd(w)} ELSE astray
  /\ Go(w, Idle)
  /\ UNCHANGED <<kernel, loops, m_status, name, buffer, counts>>

-----------------------------------------------------------------------------
(* Connection::senddata: whatever became of the message, the slot is armed *)
(* again, and only then the buffer is cleared.                             *)
SendData(w) ==
  /\ At(w, "send")
  /\ Reset(fd(w), "IN", "recvdata")
  /\ Go(w, Doing("clear", fd(w)))
  /\ UNCHANGED <<kernel, loops, m_status, name, buffer, counts, astray>>

ClearBuffer(w) ==
  /\ At(w, "clear")
  /\ buffer' = [buffer EXCEPT ![fd(w)] = 0]
  /\ Go(w, Idle)
  /\ UNCHANGED <<kernel, armed, loops, call_back, m_events, m_status, name, counts, astray>>

-----------------------------------------------------------------------------
(* Fdmanager::free_client_resources *)

\* Mutant: subtract_epfd_event is forgotten.
EventDelUncounted(w) ==
  /\ At(w, "eventdel")
  /\ m_status' = [m_status EXCEPT ![fd(w)] = 0]
  /\ armed' = IF m_status[fd(w)] = 1 THEN [armed EXCEPT ![fd(w)] = {}] ELSE armed
  /\ Go(w, [worker[w] EXCEPT !.at = "close"])
  /\ UNCHANGED <<kernel, loops, call_back, m_events, name, buffer, counts, astray>>

\* eventdel and subtract_epfd_event
EventDel(w) ==
  /\ At(w, "eventdel")
  /\ m_status' = [m_status EXCEPT ![fd(w)] = 0]
  /\ armed' = IF m_status[fd(w)] = 1 THEN [armed EXCEPT ![fd(w)] = {}] ELSE armed
  /\ event' = event - 1
  /\ Go(w, [worker[w] EXCEPT !.at = "close"])
  /\ UNCHANGED <<kernel, loops, call_back, m_events, name, buffer, Id_Fd, astray>>

\* clear(): up to sockptr.reset(), which closes the descriptor ...
CloseSocket(w) ==
  /\ At(w, "close")
  /\ call_back' = [call_back EXCEPT ![fd(w)] = None]
  /\ m_events' = [m_events EXCEPT ![fd(w)] = {}]
  /\ peer' = [peer EXCEPT ![conn[fd(w)]] = "out"]
  /\ unread' = [unread EXCEPT ![conn[fd(w)]] = 0]
  /\ conn' = [conn EXCEPT ![fd(w)] = None]
  /\ armed' = [armed EXCEPT ![fd(w)] = {}]
  /\ Go(w, [worker[w] EXCEPT !.at = "wipe"])
  /\ UNCHANGED <<loops, m_status, name, buffer, counts, astray>>

\* ... and the rest of it.
Wipe(w) ==
  /\ At(w, "wipe")
  /\ buffer' = [buffer EXCEPT ![fd(w)] = 0]
  /\ m_status' = [m_status EXCEPT ![fd(w)] = 0]
  /\ Go(w, IF worker[w].b THEN [worker[w] EXCEPT !.at = "clear_ID_FD"] ELSE Idle)
  /\ UNCHANGED <<kernel, armed, loops, call_back, m_events, name, counts, astray>>

ClearIDFD(w) ==
  /\ At(w, "clear_ID_FD")
  /\ IF name[fd(w)] # None /\ Id_Fd[name[fd(w)]] # None
       THEN /\ Id_Fd' = [Id_Fd EXCEPT ![name[fd(w)]] = None]
            /\ name' = [name EXCEPT ![fd(w)] = None]
       ELSE UNCHANGED <<Id_Fd, name>>
  /\ Go(w, Idle)
  /\ UNCHANGED <<kernel, armed, loops, call_back, m_events, m_status, buffer, event, astray>>
-----------------------------------------------------------------------------
Receive(w) ==
  \/ ReadHandled(w) \/ ReadForward(w) \/ ReadJunk(w) \/ ReadUnknown(w) \/ ReadStub(w) \/ ReadCut(w)
  \/ ReadUnanswered(w) \/ ReadUnknownID(w) \/ ReadNothing(w) \/ ReadEnd(w) \/ ReadError(w)
  \/ WhoID(w) \/ Rearm(w)
  \/ \E n \in ID : ReadID(w, n)
HandOver(w) == AcceptFails(w) \/ InitSlot(w) \/ EventAdd(w) \/ SendData(w) \/ ClearBuffer(w)
Free(w) == EventDel(w) \/ CloseSocket(w) \/ Wipe(w) \/ ClearIDFD(w)

\* GET_SOCK_FD where another thread has closed the socket: a null pointer.
SocketGone(w) ==
  /\ \/ worker[w].at \in {"read", "whoID", "rearm", "send", "close"}
     \/ At(w, "eventdel") /\ m_status[fd(w)] = 1
  /\ conn[fd(w)] = None
FollowNull(w) ==
  /\ SocketGone(w)
  /\ Go(w, [worker[w] EXCEPT !.at = "terminate"])
  /\ UNCHANGED <<kernel, armed, loops, slots, counts, astray>>

Step(w) == FollowNull(w) \/ (~SocketGone(w) /\ (Receive(w) \/ HandOver(w) \/ Free(w)))

Terminated == \E w \in Worker : At(w, "terminate")
Running(A) == ~Terminated /\ A

Next ==
  /\ ~Terminated
  /\ \/ \E c \in Client : Connect(c) \/ SendMessage(c) \/ HangUp(c) \/ BreakDown(c)
     \/ MainDispatch \/ EpollWait
     \/ \E f \in Fd : Dispatch(f)
     \/ \E w \in Worker, f \in Fd : Start(w, f)
     \/ \E w \in Worker, c \in Client, f \in Fd : Accept(w, c, f)
     \/ \E w \in Worker : StartAccept(w) \/ Step(w)

Spec == Init /\ [][Next]_vars

\* The loops and the workers run.  The strong conditions stand for two queues
\* served in order: the tasks of the pool and the connections waiting for accept.
\* A peer need not do anything.
Fairness ==
  /\ WF_vars(Running(MainDispatch)) /\ WF_vars(Running(EpollWait))
  /\ \A f \in Fd : /\ WF_vars(Running(Dispatch(f)))
                   /\ SF_vars(Running(\E w \in Worker : Start(w, f)))
  /\ SF_vars(Running(\E w \in Worker : StartAccept(w)))
  /\ \A c \in Client : SF_vars(Running(\E w \in Worker, f \in Fd : Accept(w, c, f)))
  /\ \A w \in Worker : WF_vars(Running(Step(w)))

FairSpec == Spec /\ Fairness

-----------------------------------------------------------------------------
Owning == {"init", "eventadd", "read", "whoID", "rearm", "send", "eventdel", "close", "terminate"}
Places == Owning \cup {"idle", "accept", "clear", "wipe", "clear_ID_FD"}
Holds(w, f) == worker[w].at \in Owning /\ fd(w) = f
Queued(f) == \E cb \in Callbacks : tasks[f][cb] > 0

(* Type invariant. *)
TypeOK ==
  /\ peer \in [Client -> {"out", "waiting", "up", "hung", "lost"}]
  /\ unread \in [Client -> 0..MaxUnread]
  /\ conn \in [Fd -> Client \cup {None}]
  /\ armed \in [Fd -> SUBSET Events] /\ reported \in [Fd -> SUBSET Events]
  /\ edge \in BOOLEAN /\ accepts \in Nat
  /\ tasks \in [Fd -> [Callbacks -> Nat]]
  /\ worker \in [Worker -> [at : Places, fd : Fd \cup {None}, ev : Events \cup {None}, fun : Callbacks \cup {None},
                             n : ID \cup {None}, b : BOOLEAN]]
  /\ \A w \in Worker : worker[w].at \notin {"idle", "accept"} => fd(w) # None
  /\ \A w \in Worker : At(w, "whoID") => worker[w].n # None
  /\ call_back \in [Fd -> Callbacks \cup {None}] /\ m_events \in [Fd -> SUBSET Events]
  /\ m_status \in [Fd -> {0, 1}] /\ name \in [Fd -> ID \cup {None}] /\ buffer \in [Fd -> 0..MaxBuffer]
  /\ event \in Int
  /\ Id_Fd \in [ID -> Fd \cup {None}]
  /\ astray \subseteq Fd

(* A connection has exactly one holder at any time: epoll watches it, or   *)
(* the sub reactor has its event, or the pool has a task for it, or a      *)
(* worker handles it.  Two would let two threads into one slot, none would *)
(* leave the client unheard for ever; a closed one has none.  That is so   *)
(* until its descriptor goes astray: armed with a mask never set, after a  *)
(* first message that sets none, or armed while it was read.               *)
OneHolder ==
  \A f \in Fd \ astray :
    /\ conn[f] # None <=> armed[f] # {} \/ reported[f] # {} \/ Queued(f) \/ \E w \in Worker : Holds(w, f)
    /\ armed[f] # {} => reported[f] = {} /\ ~Queued(f)
    /\ reported[f] # {} => ~Queued(f)
    /\ armed[f] # {} \/ reported[f] # {} \/ Queued(f) => \A w \in Worker : ~Holds(w, f)
    /\ tasks[f]["recvdata"] + tasks[f]["senddata"] <= 1
    /\ \A v, w \in Worker : Holds(v, f) /\ Holds(w, f) => v = w

(* The count by which find_epfd chooses an epoll instance is the number of *)
(* connections that have been added and not been freed, unless a slot that *)
(* is astray has been freed twice.                                         *)
CountIsTrue ==
  astray = {} =>
    event = Cardinality({f \in Fd : conn[f] # None /\
              \A w \in Worker : Holds(w, f) => worker[w].at \notin {"init", "close"}})

(* Whoever waits for the server is served while the process runs and no    *)
(* slot is astray: a connection is accepted, a message is read, and a      *)
(* connection whose peer is gone is closed, though messages come in while  *)
(* the slot is not armed: reset_oneshot looks at the socket again.         *)
ClientServed ==
  \A c \in Client :
    /\ peer[c] = "waiting" ~> peer[c] # "waiting" \/ astray # {} \/ Terminated
    /\ unread[c] > 0 ~> unread[c] = 0 \/ astray # {} \/ Terminated
    /\ peer[c] = "hung" ~> peer[c] = "out" \/ astray # {} \/ Terminated

(* fdmanager.cpp:199,203: whoID refuses a name that is taken and gives it  *)
(* to a client only if nobody has logged on with it.  So no two open       *)
(* connections have the same name.                                         *)
OneClientPerName ==
  \A f, g \in Fd : f # g /\ conn[f] # None /\ conn[g] # None /\ name[f] # None => name[f] # name[g]

-----------------------------------------------------------------------------
(* Who holds a connection, and that EPOLLONESHOT and the reactors pass it  *)
(* from one holder to the next only in the order of module OneShot.        *)
Holder(f) ==
  IF f \in astray THEN "astray"
  ELSE IF armed[f] # {} THEN "epoll"
  ELSE IF reported[f] # {} THEN "reactor"
  ELSE IF Queued(f) THEN "pool"
  ELSE IF \E w \in Worker : Holds(w, f) /\ worker[w].at \in {"init", "eventadd"} THEN "acceptor"
  ELSE IF \E w \in Worker : Holds(w, f) THEN "worker"
  ELSE "none"
Turn == INSTANCE OneShot WITH holder <- [f \in Fd |-> Holder(f)]
OneShotSpec == Turn!Spec
=============================================================================
