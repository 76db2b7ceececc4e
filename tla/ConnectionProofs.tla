-------------------------- MODULE ConnectionProofs --------------------------
(***************************************************************************)
(* Proofs about Connection for any clients, descriptors and workers: until *)
(* a slot goes astray, every open connection has exactly one holder, which *)
(* passes it on in turn, although freed slots are wiped while their        *)
(* descriptor is already in use again, and the event count is true.  A     *)
(* slot that is astray does no harm to the others.                         *)
(***************************************************************************)
EXTENDS Connection, FiniteSetTheorems, TLAPS

Doings == [at : Places, fd : Fd \cup {None}, ev : Events \cup {None}, fun : Callbacks \cup {None},
           n : ID \cup {None}, b : BOOLEAN]

(* What a thread can be doing, and how one such record is made of another. *)
LEMMA IdleShape ==
  /\ Idle \in Doings /\ Idle.at = "idle" /\ Idle.ev = None
  /\ [Idle EXCEPT !.at = "accept"] \in Doings /\ [Idle EXCEPT !.at = "accept"].at = "accept"
  /\ [Idle EXCEPT !.at = "accept"].ev = None
BY DEF Idle, Doings, Places, Owning

LEMMA DoingShape ==
  ASSUME NEW place \in Places, NEW f \in Fd
  PROVE  /\ Doing(place, f) \in Doings
         /\ Doing(place, f).at = place /\ Doing(place, f).fd = f /\ Doing(place, f).ev = None
BY DEF Doing, Idle, Doings

LEMMA FreeingShape ==
  ASSUME NEW f \in Fd, NEW b \in BOOLEAN
  PROVE  /\ Freeing(f, b) \in Doings
         /\ Freeing(f, b).at = "eventdel" /\ Freeing(f, b).fd = f /\ Freeing(f, b).ev = None
BY DoingShape DEF Freeing, Doings, Places, Owning

LEMMA ExceptShape ==
  ASSUME NEW d \in Doings
  PROVE  /\ \A place \in Places :
              LET e == [d EXCEPT !.at = place]
              IN  e \in Doings /\ e.at = place /\ e.fd = d.fd /\ e.ev = d.ev /\ e.fun = d.fun
         /\ \A fun \in Callbacks :
              LET e == [d EXCEPT !.fun = fun]
              IN  e \in Doings /\ e.at = d.at /\ e.fd = d.fd /\ e.fun = fun
         /\ \A ev \in Events :
              LET e == [d EXCEPT !.ev = ev]
              IN  e \in Doings /\ e.at = d.at /\ e.fd = d.fd /\ e.fun = d.fun
         /\ \A n \in ID :
              LET e == [d EXCEPT !.n = n]
              IN  e \in Doings /\ e.at = d.at /\ e.fd = d.fd /\ e.ev = d.ev /\ e.n = n
BY DEF Doings

LEMMA EventSets == \A E \in SUBSET Events : IsFiniteSet(E) /\ Cardinality(E) \in Nat
<1>1. IsFiniteSet(Events)
  <2>1. IsFiniteSet({} \cup {"IN"})
    BY FS_EmptySet, FS_AddElement
  <2>2. IsFiniteSet(({} \cup {"IN"}) \cup {"OUT"})
    BY <2>1, FS_AddElement
  <2>3. ({} \cup {"IN"}) \cup {"OUT"} = Events
    BY DEF Events
  <2> QED
    BY <2>2, <2>3
<1> QED
  BY <1>1, FS_Subset, FS_CardinalityType

-----------------------------------------------------------------------------
(* The type invariant, in two parts. *)
WorkersOK ==
  /\ worker \in [Worker -> Doings]
  /\ \A w \in Worker : worker[w].at \notin {"idle", "accept"} => fd(w) # None
  /\ \A w \in Worker : At(w, "whoID") => worker[w].n # None

SlotsOK ==
  /\ call_back \in [Fd -> Callbacks \cup {None}] /\ m_events \in [Fd -> SUBSET Events]
  /\ m_status \in [Fd -> {0, 1}] /\ name \in [Fd -> ID \cup {None}] /\ buffer \in [Fd -> 0..MaxBuffer]
  /\ event \in Int
  /\ Id_Fd \in [ID -> Fd \cup {None}]

LoopsOK ==
  /\ peer \in [Client -> {"out", "waiting", "up", "hung", "lost"}]
  /\ unread \in [Client -> 0..MaxUnread]
  /\ conn \in [Fd -> Client \cup {None}]
  /\ armed \in [Fd -> SUBSET Events] /\ reported \in [Fd -> SUBSET Events]
  /\ edge \in BOOLEAN /\ accepts \in Nat
  /\ tasks \in [Fd -> [Callbacks -> Nat]]
  /\ astray \subseteq Fd

LEMMA TypeParts == TypeOK <=> WorkersOK /\ SlotsOK /\ LoopsOK
BY DEF TypeOK, WorkersOK, SlotsOK, LoopsOK, Doings

LEMMA FdOf ==
  ASSUME WorkersOK, NEW w \in Worker, worker[w].at \notin {"idle", "accept"}
  PROVE  fd(w) \in Fd /\ worker[w] \in Doings
BY DEF WorkersOK, Doings, fd

(* The event that recvdata arms a slot with is set with the callback. *)
HasFun(w) == worker[w].ev # None => worker[w].fun # None

(* One worker moves, to d, and if it has a slot then, it had it before. *)
Moves(w, d) ==
  /\ WorkersOK' /\ worker'[w] = d
  /\ \A v \in Worker \ {w} : worker'[v] = worker[v]
  /\ d.at \in Owning => worker[w].at \in Owning /\ d.fd = fd(w)
  /\ HasFun(w) => HasFun(w)'

LEMMA WorkersGo ==
  ASSUME WorkersOK, NEW w \in Worker, NEW d \in Doings, Go(w, d),
         d.at \notin {"idle", "accept"} => d.fd # None, d.at = "whoID" => d.n # None
  PROVE  /\ WorkersOK' /\ worker'[w] = d
         /\ \A v \in Worker \ {w} : worker'[v] = worker[v]
<1>1. worker' = [worker EXCEPT ![w] = d]
  BY DEF Go
<1>2. worker' \in [Worker -> Doings]
  BY <1>1 DEF WorkersOK
<1>3. \A v \in Worker : worker'[v] = IF v = w THEN d ELSE worker[v]
  BY <1>1 DEF WorkersOK
<1> QED
  BY <1>2, <1>3 DEF WorkersOK, At, fd

LEMMA GoMoves ==
  ASSUME WorkersOK, NEW w \in Worker, NEW d \in Doings, Go(w, d),
         \/ d.at \in {"idle", "accept"}
         \/ worker[w].at \notin {"idle", "accept"} /\ d.fd = fd(w),
         d.at = "whoID" => d.n # None,
         d.at \in Owning => worker[w].at \in Owning,
         d.ev = None \/ d.fun \in Callbacks \/ (d.ev = worker[w].ev /\ d.fun = worker[w].fun)
  PROVE  Moves(w, d)
<1>1. d.at \notin {"idle", "accept"} => d.fd # None
  BY FdOf, NoneIsNone
<1>2. /\ WorkersOK' /\ worker'[w] = d
      /\ \A v \in Worker \ {w} : worker'[v] = worker[v]
  BY <1>1, WorkersGo
<1>3. HasFun(w) => HasFun(w)'
  BY <1>2, NoneIsNoValue DEF HasFun, Callbacks
<1>4. d.at \in Owning => d.fd = fd(w)
  BY DEF Owning
<1> QED
  BY <1>2, <1>3, <1>4 DEF Moves

(* A step to another place, and nothing else. *)
LEMMA PlaceMoves ==
  ASSUME WorkersOK, NEW w \in Worker, NEW place \in Places, Go(w, [worker[w] EXCEPT !.at = place]),
         worker[w].at \notin {"idle", "accept"}, place # "whoID", place \in Owning => worker[w].at \in Owning
  PROVE  \E d \in Doings : Moves(w, d) /\ d.at = place
<1> DEFINE d == [worker[w] EXCEPT !.at = place]
<1>1. d \in Doings /\ d.at = place /\ d.fd = fd(w) /\ d.ev = worker[w].ev /\ d.fun = worker[w].fun
  BY FdOf, ExceptShape DEF fd
<1>2. Go(w, d)
  OBVIOUS
<1> HIDE DEF d
<1>3. Moves(w, d)
  BY <1>1, <1>2, GoMoves
<1> QED
  BY <1>1, <1>3

LEMMA IdleMoves ==
  ASSUME WorkersOK, NEW w \in Worker, Go(w, Idle)
  PROVE  \E d \in Doings : Moves(w, d) /\ d.at = "idle"
<1>1. Moves(w, Idle)
  BY IdleShape, GoMoves DEF Owning
<1> QED
  BY <1>1, IdleShape

LEMMA FreeingMoves ==
  ASSUME WorkersOK, NEW w \in Worker, NEW b \in BOOLEAN, Go(w, Freeing(fd(w), b)), worker[w].at = "read"
  PROVE  \E d \in Doings : Moves(w, d) /\ d.at = "eventdel"
<1> DEFINE d == Freeing(fd(w), b)
<1>1. d \in Doings /\ d.at = "eventdel" /\ d.fd = fd(w) /\ d.ev = None
  BY FdOf, FreeingShape
<1>2. Go(w, d)
  OBVIOUS
<1> HIDE DEF d
<1>3. Moves(w, d)
  BY <1>1, <1>2, GoMoves DEF Owning
<1> QED
  BY <1>1, <1>3

(* recvdata sets its event and its callback, and then perhaps moves. *)
LEMMA SetMoves ==
  ASSUME WorkersOK, NEW w \in Worker, NEW x \in Doings, NEW ev \in Events, NEW fun \in Callbacks,
         Go(w, [x EXCEPT !.ev = ev, !.fun = fun]),
         x.fd = fd(w), x.at \in Owning, x.at # "whoID", worker[w].at \in Owning
  PROVE  \E d \in Doings : Moves(w, d) /\ d.at = x.at
<1> DEFINE e == [x EXCEPT !.ev = ev]
<1> DEFINE d == [e EXCEPT !.fun = fun]
<1>1. e \in Doings /\ e.at = x.at /\ e.fd = x.fd
  BY ExceptShape
<1>2. [x EXCEPT !.ev = ev, !.fun = fun] = d
  OBVIOUS
<1>3. PICK y : y = [x EXCEPT !.ev = ev, !.fun = fun] /\ Go(w, y)
  OBVIOUS
<1>4. y = d
  BY ONLY <1>2, <1>3
<1> HIDE DEF e
<1>5. d \in Doings /\ d.at = x.at /\ d.fd = x.fd /\ d.fun = fun
  BY ONLY <1>1, ExceptShape, fun \in Callbacks
<1> HIDE DEF d
<1>6. Moves(w, d)
  BY ONLY <1>3, <1>4, <1>5, GoMoves, WorkersOK, w \in Worker, fun \in Callbacks,
          x.fd = fd(w), x.at \in Owning, x.at # "whoID", worker[w].at \in Owning DEF Owning
<1> QED
  BY <1>5, <1>6

(* A slot stays as it is, but for what only its name and buffer tell. *)
Same(f) ==
  /\ conn'[f] = conn[f] /\ armed'[f] = armed[f] /\ reported'[f] = reported[f]
  /\ tasks'[f] = tasks[f] /\ call_back'[f] = call_back[f] /\ m_events'[f] = m_events[f]
Elsewhere(f) == \A g \in Fd \ {f} : Same(g) /\ m_status'[g] = m_status[g]

(* The steps of recvdata that read: they move one worker and take a        *)
(* message, and leave alone who holds what.                                *)
Reading(w) ==
  \/ ReadHandled(w) \/ ReadForward(w) \/ ReadJunk(w) \/ ReadUnknown(w) \/ ReadStub(w) \/ ReadCut(w)
  \/ ReadUnanswered(w) \/ ReadUnknownID(w) \/ ReadNothing(w) \/ ReadEnd(w) \/ WhoID(w)
  \/ \E n \in ID : ReadID(w, n)

LEMMA ReadingMoves ==
  ASSUME WorkersOK, NEW w \in Worker, Reading(w)
  PROVE  /\ worker[w].at \in {"read", "whoID"} /\ fd(w) \in Fd
         /\ \E d \in Doings : Moves(w, d) /\ d.at \in {"read", "whoID", "rearm", "eventdel", "terminate"}
         /\ UNCHANGED <<peer, conn, armed, edge, reported, accepts, tasks, call_back, m_events, m_status, event, astray>>
<1> DEFINE Moved == \E d \in Doings : Moves(w, d) /\ d.at \in {"read", "whoID", "rearm", "eventdel", "terminate"}
<1>1. worker[w].at \in {"read", "whoID"} /\ (WhoID(w) \/ worker[w].at = "read")
  BY DEF Reading, ReadHandled, ReadForward, ReadJunk, ReadUnknown, ReadStub, ReadCut, ReadUnanswered,
         ReadUnknownID, ReadNothing, ReadEnd, WhoID, ReadID, Reads, At
<1>2. fd(w) \in Fd /\ worker[w] \in Doings /\ worker[w].at \in Owning
  BY <1>1, FdOf DEF Owning
<1>3. UNCHANGED <<peer, conn, armed, edge, reported, accepts, tasks, call_back, m_events, m_status, event, astray>>
  BY DEF Reading, ReadHandled, ReadForward, ReadJunk, ReadUnknown, ReadStub, ReadCut, ReadUnanswered,
         ReadUnknownID, ReadNothing, ReadEnd, WhoID, ReadID, Reads, kernel, loops, slots, counts
<1>4. worker \in [Worker -> Doings]
  BY DEF WorkersOK
<1>5. /\ "recvdata" \in Callbacks /\ "senddata" \in Callbacks /\ "IN" \in Events /\ "OUT" \in Events
      /\ "rearm" \in Places /\ "whoID" \in Places /\ "terminate" \in Places /\ "terminate" \in Owning
      /\ "rearm" \in Owning /\ "whoID" \in Owning
  BY DEF Callbacks, Events, Places, Owning
<1>6. Moved
  <2>2. CASE ReadHandled(w) \/ ReadForward(w)
    <3>1. PICK ev \in Events, fun \in Callbacks : Go(w, [worker[w] EXCEPT !.ev = ev, !.fun = fun])
      BY <1>5, <2>2 DEF ReadHandled, ReadForward
    <3>2. worker[w].at = "read" /\ worker[w].fd = fd(w)
      BY <2>2 DEF ReadHandled, ReadForward, Reads, At, fd
    <3>3. PICK x \in Doings : x = worker[w]
      BY <1>2
    <3>4. \E d \in Doings : Moves(w, d) /\ d.at = x.at
      BY <1>2, <3>1, <3>2, <3>3, SetMoves
    <3> QED
      BY <3>2, <3>3, <3>4
  <2>3. CASE ReadJunk(w)
    <3>1. Go(w, worker[w])
      BY <1>4, <2>3 DEF ReadJunk, Go
    <3>2. worker[w].at = "read"
      BY <2>3 DEF ReadJunk, Reads, At
    <3>3. Moves(w, worker[w])
      BY <1>2, <3>1, <3>2, GoMoves DEF fd
    <3> QED
      BY <1>2, <3>2, <3>3
  <2>4. CASE ReadStub(w) \/ ReadNothing(w)
    <3>1. Go(w, [worker[w] EXCEPT !.at = "rearm"]) /\ worker[w].at = "read"
      BY <2>4 DEF ReadStub, ReadNothing, Reads, At
    <3> QED
      BY <1>2, <1>5, <3>1, PlaceMoves
  <2>5. CASE ReadUnknown(w)
    <3>1. Go(w, [worker[w] EXCEPT !.at = "terminate"]) /\ worker[w].at = "read"
      BY <2>5 DEF ReadUnknown, Reads, At
    <3> QED
      BY <1>2, <1>5, <3>1, PlaceMoves
  <2>6. CASE ReadUnanswered(w)
    <3> DEFINE e == [worker[w] EXCEPT !.at = "rearm"]
    <3>1. e \in Doings /\ e.at = "rearm" /\ e.fd = fd(w)
      BY <1>2, <1>5, ExceptShape DEF fd
    <3>2. Go(w, [e EXCEPT !.ev = "IN", !.fun = "recvdata"])
      BY <2>6 DEF ReadUnanswered
    <3> HIDE DEF e
    <3> QED
      BY <1>2, <1>5, <3>1, <3>2, SetMoves
  <2>7. CASE ReadCut(w) \/ ReadEnd(w) \/ ReadUnknownID(w)
    <3>1. PICK b \in BOOLEAN : Go(w, Freeing(fd(w), b))
      BY <2>7 DEF ReadCut, ReadEnd, ReadUnknownID
    <3>2. worker[w].at = "read"
      BY <2>7 DEF ReadCut, ReadEnd, ReadUnknownID, Reads, At
    <3> QED
      BY <3>1, <3>2, FreeingMoves
  <2>8. CASE WhoID(w)
    <3> DEFINE e == Doing("rearm", fd(w))
    <3>1. e \in Doings /\ e.at = "rearm" /\ e.fd = fd(w)
      BY <1>2, <1>5, DoingShape
    <3>2. Go(w, [e EXCEPT !.ev = "IN", !.fun = "recvdata"])
      BY <2>8 DEF WhoID
    <3> HIDE DEF e
    <3> QED
      BY <1>2, <1>5, <3>1, <3>2, SetMoves
  <2>9. ASSUME NEW n \in ID, ReadID(w, n)
        PROVE  Moved
    <3>1. worker[w].at = "read"
      BY <2>9 DEF ReadID, Reads, At
    <3>2. CASE Id_Fd[n] = None
      <4> DEFINE e == Doing("whoID", fd(w))
      <4> DEFINE d == [e EXCEPT !.n = n]
      <4>1. e \in Doings /\ e.at = "whoID" /\ e.fd = fd(w) /\ e.ev = None
        BY <1>2, <1>5, DoingShape
      <4>2. Go(w, d)
        BY <2>9, <3>2 DEF ReadID
      <4> HIDE DEF e
      <4>3. d \in Doings /\ d.at = "whoID" /\ d.fd = fd(w) /\ d.ev = None /\ d.n # None
        BY <4>1, ExceptShape, NoneIsNone
      <4> HIDE DEF d
      <4>4. Moves(w, d)
        BY <1>2, <1>5, <3>1, <4>2, <4>3, GoMoves
      <4> QED
        BY <4>3, <4>4
    <3>3. CASE Id_Fd[n] # None
      <4>1. Go(w, Freeing(fd(w), TRUE))
        BY <2>9, <3>3 DEF ReadID
      <4> QED
        BY <3>1, <4>1, FreeingMoves
    <3> QED
      BY <3>2, <3>3
  <2> HIDE DEF Moved
  <2> QED
    BY <2>2, <2>3, <2>4, <2>5, <2>6, <2>7, <2>8, <2>9 DEF Reading
<1> QED
  BY <1>1, <1>2, <1>3, <1>6

(* Which steps there are, and where each takes its worker. *)
Route(w, place) ==
  \/ FollowNull(w) /\ place = "terminate"
  \/ /\ ~SocketGone(w)
     /\ \/ Reading(w) /\ place \in {"read", "whoID", "rearm", "eventdel", "terminate"}
        \/ ReadError(w) /\ place = "read"
        \/ InitSlot(w) /\ place = "eventadd"
        \/ EventAdd(w) /\ place = "accept"
        \/ Rearm(w) /\ place = "idle"
        \/ SendData(w) /\ place = "clear"
        \/ EventDel(w) /\ place = "close"
        \/ CloseSocket(w) /\ place = "wipe"
        \/ Wipe(w) /\ place \in {"idle", "clear_ID_FD"}
        \/ (AcceptFails(w) \/ ClearBuffer(w) \/ ClearIDFD(w)) /\ place = "idle"

LEMMA StepMoves ==
  ASSUME WorkersOK, NEW w \in Worker, Step(w)
  PROVE  \E d \in Doings : Moves(w, d) /\ Route(w, d.at)
<1> DEFINE Moved == \E d \in Doings : Moves(w, d) /\ Route(w, d.at)
<1>1. ASSUME FollowNull(w)
      PROVE  Moved
  <2>1. worker[w].at \in {"read", "whoID", "rearm", "send", "close", "eventdel"}
    BY <1>1 DEF FollowNull, SocketGone, At
  <2>2. "terminate" \in Places /\ worker[w].at \in Owning
    BY <2>1 DEF Places, Owning
  <2>3. \E d \in Doings : Moves(w, d) /\ d.at = "terminate"
    BY <1>1, <2>1, <2>2, PlaceMoves DEF FollowNull
  <2> QED
    BY <1>1, <2>3 DEF Route
<1>2. ASSUME ~SocketGone(w)
      PROVE  /\ Reading(w) => Moved
             /\ ReadError(w) => Moved
             /\ InitSlot(w) => Moved
             /\ EventAdd(w) => Moved
             /\ SendData(w) => Moved
             /\ EventDel(w) => Moved
             /\ CloseSocket(w) => Moved
             /\ Wipe(w) => Moved
             /\ AcceptFails(w) \/ ClearBuffer(w) \/ ClearIDFD(w) \/ Rearm(w) => Moved
  <2>1. Reading(w) => Moved
    BY <1>2, ReadingMoves DEF Route
  <2>2. ASSUME ReadError(w)
        PROVE  Moved
    <3>1. worker[w].at = "read" /\ worker[w] \in Doings /\ fd(w) \in Fd /\ "recvdata" \in Callbacks
      BY <2>2, FdOf DEF ReadError, At, Callbacks
    <3> DEFINE d == [worker[w] EXCEPT !.fun = "recvdata"]
    <3>2. d \in Doings /\ d.at = "read" /\ d.fd = fd(w) /\ d.fun \in Callbacks
      BY <3>1, ExceptShape DEF fd
    <3>3. Go(w, d)
      BY <2>2 DEF ReadError
    <3> HIDE DEF d
    <3>4. Moves(w, d)
      BY <3>1, <3>2, <3>3, GoMoves
    <3> QED
      BY <1>2, <2>2, <3>2, <3>4 DEF Route
  <2>3. ASSUME NEW from, NEW place \in Places, At(w, from), from \notin {"idle", "accept"}, place # "whoID",
               place \in Owning => from \in Owning, Go(w, Doing(place, fd(w)))
        PROVE  \E d \in Doings : Moves(w, d) /\ d.at = place
    <3>1. PICK d : d = Doing(place, fd(w)) /\ Go(w, d)
      BY <2>3
    <3>2. worker[w].at = from /\ fd(w) \in Fd
      BY <2>3, FdOf DEF At
    <3>3. d \in Doings /\ d.at = place /\ d.fd = fd(w) /\ d.ev = None
      BY <3>1, <3>2, DoingShape
    <3>4. Moves(w, d)
      BY <2>3, <3>1, <3>2, <3>3, GoMoves
    <3> QED
      BY <3>3, <3>4
  <2>4. "init" \in Owning /\ "clear" \notin Owning /\ "eventadd" \in Places /\ "clear" \in Places
    BY DEF Places, Owning
  <2>5. InitSlot(w) => Moved
    <3>1. InitSlot(w) => \E d \in Doings : Moves(w, d) /\ d.at = "eventadd"
      BY <2>3, <2>4 DEF InitSlot
    <3> QED
      BY <1>2, <3>1 DEF Route
  <2>6. SendData(w) => Moved
    <3>1. SendData(w) => \E d \in Doings : Moves(w, d) /\ d.at = "clear"
      BY <2>3, <2>4 DEF SendData
    <3> QED
      BY <1>2, <3>1 DEF Route
  <2>7. ASSUME EventAdd(w)
        PROVE  Moved
    <3>1. PICK d : d = [Idle EXCEPT !.at = "accept"] /\ Go(w, d)
      BY <2>7 DEF EventAdd
    <3>2. d \in Doings /\ d.at = "accept" /\ d.ev = None
      BY <3>1, IdleShape
    <3>3. Moves(w, d)
      BY <3>1, <3>2, GoMoves DEF Owning
    <3> QED
      BY <1>2, <2>7, <3>2, <3>3 DEF Route
  <2>8. ASSUME NEW place \in {"close", "wipe"}, Go(w, [worker[w] EXCEPT !.at = place]),
               worker[w].at \in {"eventdel", "close"}
        PROVE  \E d \in Doings : Moves(w, d) /\ d.at = place
    <3>1. place \in Places /\ worker[w].at \in Owning /\ place # "whoID"
      BY <2>8 DEF Places, Owning
    <3> QED
      BY <2>8, <3>1, PlaceMoves
  <2>11. ASSUME EventDel(w)
         PROVE  Moved
    <3>1. Go(w, [worker[w] EXCEPT !.at = "close"]) /\ worker[w].at = "eventdel"
      BY <2>11 DEF EventDel, At
    <3>2. \E d \in Doings : Moves(w, d) /\ d.at = "close"
      BY <2>8, <3>1
    <3> QED
      BY <1>2, <2>11, <3>2 DEF Route
  <2>12. ASSUME CloseSocket(w)
         PROVE  Moved
    <3>1. Go(w, [worker[w] EXCEPT !.at = "wipe"]) /\ worker[w].at = "close"
      BY <2>12 DEF CloseSocket, At
    <3>2. \E d \in Doings : Moves(w, d) /\ d.at = "wipe"
      BY <2>8, <3>1
    <3> QED
      BY <1>2, <2>12, <3>2 DEF Route
  <2>9. ASSUME Wipe(w)
        PROVE  Moved
    <3>1. worker[w].at = "wipe" /\ "clear_ID_FD" \in Places /\ "clear_ID_FD" \notin Owning
      BY <2>9 DEF Wipe, At, Places, Owning
    <3>2. CASE worker[w].b
      <4>1. Go(w, [worker[w] EXCEPT !.at = "clear_ID_FD"])
        BY <2>9, <3>2 DEF Wipe
      <4>2. \E d \in Doings : Moves(w, d) /\ d.at = "clear_ID_FD"
        BY <3>1, <4>1, PlaceMoves
      <4> QED
        BY <1>2, <2>9, <4>2 DEF Route
    <3>3. CASE ~worker[w].b
      <4>1. Go(w, Idle)
        BY <2>9, <3>3 DEF Wipe
      <4>2. \E d \in Doings : Moves(w, d) /\ d.at = "idle"
        BY <4>1, IdleMoves
      <4> QED
        BY <1>2, <2>9, <4>2 DEF Route
    <3> QED
      BY <3>2, <3>3
  <2>10. ASSUME AcceptFails(w) \/ ClearBuffer(w) \/ ClearIDFD(w) \/ Rearm(w)
         PROVE  Moved
    <3>1. Go(w, Idle)
      BY <2>10 DEF AcceptFails, ClearBuffer, ClearIDFD, Rearm
    <3>2. \E d \in Doings : Moves(w, d) /\ d.at = "idle"
      BY <3>1, IdleMoves
    <3> QED
      BY <1>2, <2>10, <3>2 DEF Route
  <2> HIDE DEF Moved
  <2> QED
    BY <2>1, <2>2, <2>5, <2>6, <2>7, <2>9, <2>10, <2>11, <2>12
<1> HIDE DEF Moved
<1>3. \/ FollowNull(w)
      \/ ~SocketGone(w) /\ (Receive(w) \/ HandOver(w) \/ Free(w))
  BY DEF Step
<1>4. Receive(w) => Reading(w) \/ ReadError(w) \/ Rearm(w)
  BY DEF Receive, Reading
<1>5. Moved
  BY <1>1, <1>2, <1>3, <1>4 DEF HandOver, Free
<1> QED
  BY <1>5 DEF Moved

-----------------------------------------------------------------------------
LEMMA TypeInit == Init => TypeOK
<1> SUFFICES ASSUME Init PROVE WorkersOK /\ SlotsOK /\ LoopsOK
  BY TypeParts
<1>1. 0 \in 0..MaxUnread /\ 0 \in 0..MaxBuffer
  BY Bounds
<1>2. LoopsOK
  BY <1>1 DEF Init, LoopsOK
<1>3. SlotsOK
  BY <1>1 DEF Init, SlotsOK
<1>4. WorkersOK
  BY IdleShape DEF Init, WorkersOK, At
<1> QED
  BY <1>2, <1>3, <1>4

LEMMA ReadingTypes ==
  ASSUME WorkersOK, SlotsOK, LoopsOK, NEW w \in Worker, Reading(w), ~SocketGone(w)
  PROVE  SlotsOK' /\ LoopsOK'
<1>1. /\ worker[w].at \in {"read", "whoID"} /\ fd(w) \in Fd
      /\ UNCHANGED <<peer, conn, armed, edge, reported, accepts, tasks, call_back, m_events, m_status, event, astray>>
  BY ReadingMoves
<1>2. conn[fd(w)] \in Client
  BY <1>1 DEF SocketGone, LoopsOK
<1>3. unread' \in [Client -> 0..MaxUnread]
  <2>1. CASE Reads(w)
    <3>1. PICK c \in Client : c = conn[fd(w)]
      BY <1>2
    <3>2. unread[c] > 0 /\ unread' = [unread EXCEPT ![c] = unread[c] - 1]
      BY <2>1, <3>1 DEF Reads
    <3>3. unread[c] - 1 \in 0..MaxUnread
      BY <3>2, Bounds DEF LoopsOK
    <3> QED
      BY <3>2, <3>3 DEF LoopsOK
  <2>2. CASE ReadNothing(w) \/ ReadEnd(w) \/ WhoID(w)
    BY <2>2 DEF ReadNothing, ReadEnd, WhoID, kernel, LoopsOK
  <2> QED
    BY <2>1, <2>2 DEF Reading, ReadHandled, ReadForward, ReadJunk, ReadUnknown, ReadStub, ReadCut,
                      ReadUnanswered, ReadUnknownID, ReadID
<1>4. buffer' \in [Fd -> 0..MaxBuffer]
  <2>1. CASE ReadForward(w)
    <3>1. buffer[fd(w)] + 1 \in 0..MaxBuffer
      BY <1>1, <2>1, Bounds DEF ReadForward, SlotsOK
    <3> QED
      BY <1>1, <2>1, <3>1 DEF ReadForward, SlotsOK
  <2>2. CASE ~ReadForward(w)
    BY <2>2 DEF Reading, ReadHandled, ReadJunk, ReadUnknown, ReadStub, ReadCut, ReadUnanswered, ReadUnknownID,
                ReadNothing, ReadEnd, WhoID, ReadID, slots, SlotsOK
  <2> QED
    BY <2>1, <2>2
<1>5. name' \in [Fd -> ID \cup {None}] /\ Id_Fd' \in [ID -> Fd \cup {None}]
  <2>1. CASE WhoID(w)
    <3>1. worker[w].n \in ID
      BY <2>1, FdOf DEF WhoID, WorkersOK, Doings, At
    <3>2. name' = [name EXCEPT ![fd(w)] = worker[w].n]
          /\ (Id_Fd' = [Id_Fd EXCEPT ![worker[w].n] = fd(w)] \/ Id_Fd' = Id_Fd)
      BY <2>1 DEF WhoID
    <3> QED
      BY <1>1, <3>1, <3>2 DEF SlotsOK
  <2>2. CASE ~WhoID(w)
    BY <2>2 DEF Reading, ReadHandled, ReadForward, ReadJunk, ReadUnknown, ReadStub, ReadCut, ReadUnanswered,
                ReadUnknownID, ReadNothing, ReadEnd, ReadID, Reads, slots, counts, SlotsOK
  <2> QED
    BY <2>1, <2>2
<1> QED
  BY <1>1, <1>3, <1>4, <1>5 DEF SlotsOK, LoopsOK

LEMMA ResetTypes ==
  ASSUME SlotsOK, LoopsOK, NEW f \in Fd, NEW ev \in Events \cup {None}, NEW fun \in Callbacks \cup {None},
         Reset(f, ev, fun), astray' \in {astray, astray \cup {f}},
         peer' \in [Client -> {"out", "waiting", "up", "hung", "lost"}],
         UNCHANGED <<unread, conn, edge, reported, accepts, tasks, m_status, name, buffer, event, Id_Fd>>
  PROVE  SlotsOK' /\ LoopsOK'
<1>1. PICK mask \in SUBSET Events : m_events' = [m_events EXCEPT ![f] = mask] /\ armed' = [armed EXCEPT ![f] = mask]
  BY DEF Reset
<1>2. call_back' \in [Fd -> Callbacks \cup {None}]
  BY DEF Reset, SlotsOK
<1> QED
  BY <1>1, <1>2 DEF SlotsOK, LoopsOK

LEMMA StepTypes ==
  ASSUME WorkersOK, SlotsOK, LoopsOK, NEW w \in Worker, Step(w)
  PROVE  WorkersOK' /\ SlotsOK' /\ LoopsOK'
<1>1. WorkersOK'
  BY StepMoves DEF Moves
<1>2. PICK d \in Doings : Route(w, d.at)
  BY StepMoves
<1>3. CASE FollowNull(w) \/ AcceptFails(w)
  BY <1>1, <1>3 DEF FollowNull, AcceptFails, kernel, loops, slots, counts, SlotsOK, LoopsOK
<1>4. CASE InitSlot(w)
  <2>1. fd(w) \in Fd /\ 0 \in 0..MaxBuffer /\ "recvdata" \in Callbacks /\ {} \in SUBSET Events
    BY <1>4, FdOf, Bounds DEF InitSlot, At, Callbacks
  <2> QED
    BY <1>1, <1>4, <2>1 DEF InitSlot, kernel, loops, SlotsOK, LoopsOK
<1>5. CASE EventAdd(w)
  <2>1. fd(w) \in Fd /\ {"IN"} \in SUBSET Events
    BY <1>5, FdOf DEF EventAdd, At, Events
  <2> QED
    BY <1>1, <1>5, <2>1 DEF EventAdd, kernel, loops, counts, SlotsOK, LoopsOK
<1>6. CASE Reading(w) /\ ~SocketGone(w)
  BY <1>1, <1>6, ReadingTypes
<1>7. "recvdata" \in Callbacks \cup {None} /\ "IN" \in Events \cup {None}
  BY DEF Callbacks, Events
<1>8. CASE ReadError(w)
  <2>1. fd(w) \in Fd /\ peer' \in [Client -> {"out", "waiting", "up", "hung", "lost"}]
    BY <1>8, FdOf DEF ReadError, At, LoopsOK
  <2>2. Reset(fd(w), "IN", "recvdata") /\ astray' = astray \cup {fd(w)}
        /\ UNCHANGED <<unread, conn, edge, reported, accepts, tasks, m_status, name, buffer, event, Id_Fd>>
    BY <1>8 DEF ReadError, loops, counts
  <2> QED
    BY <1>1, <1>7, <2>1, <2>2, ResetTypes
<1>9. CASE Rearm(w) \/ SendData(w)
  <2>1. fd(w) \in Fd /\ worker[w].fun \in Callbacks \cup {None} /\ worker[w].ev \in Events \cup {None}
    BY <1>9, FdOf DEF Rearm, SendData, At, Doings
  <2>2. peer' \in [Client -> {"out", "waiting", "up", "hung", "lost"}]
    BY <1>9 DEF Rearm, SendData, kernel, LoopsOK
  <2>3. /\ astray' \in {astray, astray \cup {fd(w)}}
        /\ UNCHANGED <<unread, conn, edge, reported, accepts, tasks, m_status, name, buffer, event, Id_Fd>>
        /\ \E ev \in Events \cup {None}, fun \in Callbacks \cup {None} : Reset(fd(w), ev, fun)
    BY <1>7, <1>9, <2>1 DEF Rearm, SendData, kernel, loops, counts
  <2> QED
    BY <1>1, <2>1, <2>2, <2>3, ResetTypes
<1>10. CASE ClearBuffer(w)
  <2>1. fd(w) \in Fd /\ 0 \in 0..MaxBuffer
    BY <1>10, FdOf, Bounds DEF ClearBuffer, At
  <2> QED
    BY <1>1, <1>10, <2>1 DEF ClearBuffer, kernel, loops, counts, SlotsOK, LoopsOK
<1>11. CASE EventDel(w)
  <2>1. fd(w) \in Fd /\ {} \in SUBSET Events
    BY <1>11, FdOf DEF EventDel, At
  <2> QED
    BY <1>1, <1>11, <2>1 DEF EventDel, kernel, loops, SlotsOK, LoopsOK
<1>12. CASE CloseSocket(w)
  <2>1. fd(w) \in Fd /\ {} \in SUBSET Events /\ 0 \in 0..MaxUnread
    BY <1>12, FdOf, Bounds DEF CloseSocket, At
  <2> QED
    BY <1>1, <1>12, <2>1 DEF CloseSocket, loops, counts, SlotsOK, LoopsOK
<1>13. CASE Wipe(w)
  <2>1. fd(w) \in Fd /\ 0 \in 0..MaxBuffer
    BY <1>13, FdOf, Bounds DEF Wipe, At
  <2> QED
    BY <1>1, <1>13, <2>1 DEF Wipe, kernel, loops, counts, SlotsOK, LoopsOK
<1>14. CASE ClearIDFD(w)
  <2>1. fd(w) \in Fd
    BY <1>14, FdOf DEF ClearIDFD, At
  <2>2. name' \in [Fd -> ID \cup {None}] /\ Id_Fd' \in [ID -> Fd \cup {None}]
    BY <1>14, <2>1 DEF ClearIDFD, SlotsOK
  <2> QED
    BY <1>1, <1>14, <2>2 DEF ClearIDFD, kernel, loops, SlotsOK, LoopsOK
<1> QED
  BY <1>2, <1>3, <1>4, <1>5, <1>6, <1>8, <1>9, <1>10, <1>11, <1>12, <1>13, <1>14 DEF Route

LEMMA TypeNext ==
  ASSUME TypeOK, [Next]_vars
  PROVE  TypeOK'
<1>1. WorkersOK /\ SlotsOK /\ LoopsOK
  BY TypeParts
<1> SUFFICES WorkersOK' /\ SlotsOK' /\ LoopsOK'
  BY TypeParts DEF TypeOK, WorkersOK, SlotsOK, LoopsOK, Doings
<1>2. ASSUME NEW c \in Client, Connect(c) \/ HangUp(c) \/ BreakDown(c)
      PROVE  WorkersOK' /\ SlotsOK' /\ LoopsOK'
  BY <1>1, <1>2 DEF Connect, HangUp, BreakDown, kernel, loops, slots, counts, WorkersOK, SlotsOK, LoopsOK, At, fd
<1>3. ASSUME NEW c \in Client, SendMessage(c)
      PROVE  WorkersOK' /\ SlotsOK' /\ LoopsOK'
  <2>1. unread[c] + 1 \in 0..MaxUnread
    BY <1>1, <1>3, Bounds DEF SendMessage, LoopsOK
  <2> QED
    BY <1>1, <1>3, <2>1 DEF SendMessage, loops, slots, counts, WorkersOK, SlotsOK, LoopsOK, At, fd
<1>4. CASE MainDispatch
  <2>1. edge' \in BOOLEAN
    BY <1>4 DEF MainDispatch
  <2>2. accepts' \in Nat
    BY <1>1, <1>4 DEF MainDispatch, LoopsOK
  <2>3. UNCHANGED <<peer, unread, conn, armed, reported, tasks, astray>>
    BY <1>4 DEF MainDispatch, kernel
  <2>4. LoopsOK'
    BY <1>1, <2>1, <2>2, <2>3 DEF LoopsOK
  <2> QED
    BY <1>1, <1>4, <2>4 DEF MainDispatch, slots, counts, WorkersOK, SlotsOK, At, fd
<1>5. CASE EpollWait
  <2>1. \A f \in Fd : Ready(f) \in SUBSET Events
    BY <1>1 DEF Ready, LoopsOK
  <2>2. armed' \in [Fd -> SUBSET Events] /\ reported' \in [Fd -> SUBSET Events]
    BY <1>1, <1>5, <2>1 DEF EpollWait, LoopsOK
  <2> QED
    BY <1>1, <1>5, <2>2 DEF EpollWait, kernel, slots, counts, WorkersOK, SlotsOK, LoopsOK, At, fd
<1>6. ASSUME NEW f \in Fd, Dispatch(f)
      PROVE  WorkersOK' /\ SlotsOK' /\ LoopsOK'
  <2>1. Cardinality(reported[f] \cap m_events[f]) \in Nat
    BY <1>1, EventSets DEF LoopsOK, SlotsOK
  <2>2. tasks' \in [Fd -> [Callbacks -> Nat]]
    BY <1>1, <1>6, <2>1 DEF Dispatch, LoopsOK
  <2> QED
    BY <1>1, <1>6, <2>2 DEF Dispatch, kernel, slots, counts, WorkersOK, SlotsOK, LoopsOK, At, fd
<1>7. ASSUME NEW w \in Worker, NEW f \in Fd, Start(w, f)
      PROVE  WorkersOK' /\ SlotsOK' /\ LoopsOK'
  <2>1. PICK cb \in Callbacks :
          /\ tasks[f][cb] > 0 /\ tasks' = [tasks EXCEPT ![f][cb] = @ - 1]
          /\ Go(w, Doing(IF cb = "recvdata" THEN "read" ELSE "send", f))
    BY <1>7 DEF Start
  <2>2. tasks[f][cb] - 1 \in Nat
    BY <1>1, <2>1 DEF LoopsOK
  <2>3. PICK place \in {"read", "send"} : Go(w, Doing(place, f))
    BY <2>1
  <2>4. Doing(place, f) \in Doings /\ Doing(place, f).at = place /\ Doing(place, f).fd = f
    BY DoingShape DEF Places, Owning
  <2>5. WorkersOK'
    BY <1>1, <2>3, <2>4, WorkersGo, NoneIsNone
  <2> QED
    BY <1>1, <1>7, <2>1, <2>2, <2>5 DEF Start, kernel, slots, counts, SlotsOK, LoopsOK
<1>8. ASSUME NEW w \in Worker, StartAccept(w)
      PROVE  WorkersOK' /\ SlotsOK' /\ LoopsOK'
  <2>1. WorkersOK'
    BY <1>1, <1>8, IdleShape, WorkersGo DEF StartAccept
  <2> QED
    BY <1>1, <1>8, <2>1 DEF StartAccept, kernel, slots, counts, SlotsOK, LoopsOK
<1>9. ASSUME NEW w \in Worker, NEW c \in Client, NEW f \in Fd, Accept(w, c, f)
      PROVE  WorkersOK' /\ SlotsOK' /\ LoopsOK'
  <2>1. Doing("init", f) \in Doings /\ Doing("init", f).at = "init" /\ Doing("init", f).fd = f
    BY DoingShape DEF Places, Owning
  <2>2. WorkersOK'
    BY <1>1, <1>9, <2>1, WorkersGo, NoneIsNone DEF Accept
  <2> QED
    BY <1>1, <1>9, <2>2 DEF Accept, loops, slots, counts, SlotsOK, LoopsOK
<1>10. ASSUME NEW w \in Worker, Step(w)
       PROVE  WorkersOK' /\ SlotsOK' /\ LoopsOK'
  BY <1>1, <1>10, StepTypes
<1>11. CASE UNCHANGED vars
  BY <1>1, <1>11 DEF vars, kernel, loops, slots, counts, WorkersOK, SlotsOK, LoopsOK, At, fd
<1> QED
  BY <1>2, <1>3, <1>4, <1>5, <1>6, <1>7, <1>8, <1>9, <1>10, <1>11 DEF Next

(* Every state of the connections is well typed. *)
THEOREM ConnectionsAreTyped == Spec => []TypeOK
<1> QED
  BY TypeInit, TypeNext, PTL DEF Spec

-----------------------------------------------------------------------------
(* The inductive invariant: OneHolder, and what it takes to keep it.       *)

\* OneHolder for one descriptor.
HeldOnce(f) ==
  /\ conn[f] # None <=> armed[f] # {} \/ reported[f] # {} \/ Queued(f) \/ \E w \in Worker : Holds(w, f)
  /\ armed[f] # {} => reported[f] = {} /\ ~Queued(f)
  /\ reported[f] # {} => ~Queued(f)
  /\ armed[f] # {} \/ reported[f] # {} \/ Queued(f) => \A w \in Worker : ~Holds(w, f)
  /\ tasks[f]["recvdata"] + tasks[f]["senddata"] <= 1
  /\ \A v, w \in Worker : Holds(v, f) /\ Holds(w, f) => v = w

\* What epoll watches or has reported is the one event of m_events, and there is a callback for it.
Agrees(f) ==
  armed[f] # {} \/ reported[f] # {} =>
    /\ call_back[f] \in Callbacks
    /\ \E e \in Events : m_events[f] = {e} /\ armed[f] \in {{}, {e}} /\ reported[f] \in {{}, {e}}

\* init has made the slot fit for eventadd, and nobody undoes it.
Fresh(w) == At(w, "eventadd") /\ fd(w) \notin astray => m_status[fd(w)] = 0 /\ call_back[fd(w)] = "recvdata"

Kept ==
  /\ \A f \in Fd \ astray : HeldOnce(f) /\ Agrees(f)
  /\ \A w \in Worker : Fresh(w) /\ HasFun(w)
HoldInv == TypeOK /\ Kept

LEMMA InvParts ==
  ASSUME HoldInv
  PROVE  /\ WorkersOK /\ SlotsOK /\ LoopsOK
         /\ \A f \in Fd \ astray : HeldOnce(f) /\ Agrees(f)
         /\ \A w \in Worker : Fresh(w) /\ HasFun(w)
BY TypeParts DEF HoldInv, Kept

LEMMA HeldFrame ==
  ASSUME NEW f \in Fd, HeldOnce(f), Agrees(f), Same(f),
         \A w \in Worker : Holds(w, f)' <=> Holds(w, f)
  PROVE  HeldOnce(f)' /\ Agrees(f)'
<1>1. Queued(f)' <=> Queued(f)
  BY DEF Queued, Same
<1> QED
  BY <1>1 DEF HeldOnce, Agrees, Same

(* A worker at a place that holds its slot: nobody else has it. *)
LEMMA Holder1 ==
  ASSUME HoldInv, NEW w \in Worker, worker[w].at \in Owning, fd(w) \notin astray
  PROVE  LET f == fd(w) IN
         /\ f \in Fd /\ Holds(w, f) /\ conn[f] \in Client /\ conn[f] # None
         /\ armed[f] = {} /\ reported[f] = {} /\ ~Queued(f)
         /\ tasks[f]["recvdata"] = 0 /\ tasks[f]["senddata"] = 0
         /\ \A v \in Worker : v # w => ~Holds(v, f)
<1>1. WorkersOK /\ SlotsOK /\ LoopsOK
  BY InvParts
<1>2. fd(w) \in Fd
  BY <1>1, FdOf DEF Owning
<1>3. Holds(w, fd(w)) /\ HeldOnce(fd(w))
  BY <1>2, InvParts DEF Holds
<1>4. conn[fd(w)] # None /\ armed[fd(w)] = {} /\ reported[fd(w)] = {} /\ ~Queued(fd(w))
  BY <1>3 DEF HeldOnce
<1>5. tasks[fd(w)]["recvdata"] = 0 /\ tasks[fd(w)]["senddata"] = 0
  BY <1>1, <1>2, <1>4 DEF Queued, Callbacks, LoopsOK
<1>6. conn[fd(w)] \in Client
  BY <1>1, <1>2, <1>4 DEF LoopsOK
<1>7. \A v \in Worker : v # w => ~Holds(v, fd(w))
  BY <1>3 DEF HeldOnce
<1> QED
  BY <1>2, <1>3, <1>4, <1>5, <1>6, <1>7

-----------------------------------------------------------------------------
(* What a step of one worker can do: the slots it may change are those of  *)
(* the descriptor it has, or takes.                                        *)
Touches(w, f) ==
  /\ \A v \in Worker \ {w} : worker'[v] = worker[v]
  /\ worker[w].at \in Owning => fd(w) = f
  /\ worker'[w].at \in Owning => worker'[w].fd = f
  /\ Elsewhere(f) /\ astray' \in {astray, astray \cup {f}}

LEMMA HoldsThen ==
  ASSUME NEW w \in Worker, NEW f, Touches(w, f)
  PROVE  /\ \A v \in Worker \ {w}, g \in Fd : Holds(v, g)' <=> Holds(v, g)
         /\ \A g \in Fd : Holds(w, g)' <=> worker'[w].at \in Owning /\ g = f
         /\ \A g \in Fd : Holds(w, g) <=> worker[w].at \in Owning /\ g = f
         /\ \A v \in Worker, g \in Fd \ {f} : Holds(v, g)' <=> Holds(v, g)
BY DEF Touches, Holds, fd

(* If that descriptor comes out of it well, all do. *)
LEMMA SlotKeeps ==
  ASSUME HoldInv, NEW w \in Worker, NEW f, Touches(w, f), HasFun(w)',
         f \in Fd \ astray' => HeldOnce(f)' /\ Agrees(f)',
         \/ worker[w].at \in Owning
         \/ f \in Fd => call_back'[f] = call_back[f] /\ m_status'[f] \in {m_status[f], 0},
         Fresh(w)'
  PROVE  Kept'
<1>1. ASSUME NEW g \in Fd \ astray'
      PROVE  HeldOnce(g)' /\ Agrees(g)'
  <2>1. CASE g # f
    <3>1. HeldOnce(g) /\ Agrees(g) /\ Same(g)
      BY <2>1, InvParts DEF Touches, Elsewhere
    <3>2. \A v \in Worker : Holds(v, g)' <=> Holds(v, g)
      BY <2>1, HoldsThen
    <3> QED
      BY <3>1, <3>2, HeldFrame
  <2>2. CASE g = f
    BY <2>2
  <2> QED
    BY <2>1, <2>2
<1>2. ASSUME NEW v \in Worker \ {w}
      PROVE  Fresh(v)' /\ HasFun(v)'
  <2>1. Fresh(v) /\ HasFun(v) /\ worker'[v] = worker[v]
    BY InvParts DEF Touches
  <2>2. SUFFICES ASSUME worker[v].at = "eventadd", fd(v) \notin astray'
                 PROVE  m_status'[fd(v)] = 0 /\ call_back'[fd(v)] = "recvdata"
    BY <2>1 DEF Fresh, HasFun, At, fd
  <2>3. fd(v) \in Fd /\ fd(v) \notin astray /\ Holds(v, fd(v))
    BY <2>2, FdOf, InvParts DEF Touches, Holds, Owning
  <2>4. m_status[fd(v)] = 0 /\ call_back[fd(v)] = "recvdata"
    BY <2>1, <2>2, <2>3 DEF Fresh, At
  <2>5. CASE fd(v) # f
    BY <2>3, <2>4, <2>5 DEF Touches, Elsewhere, Same
  <2>6. CASE fd(v) = f
    <3>1. worker[w].at \notin Owning
      <4>1. HeldOnce(f)
        BY <2>3, <2>6, InvParts
      <4>2. worker[w].at \in Owning => Holds(w, f)
        BY DEF Touches, Holds
      <4> QED
        BY <2>3, <2>6, <4>1, <4>2 DEF HeldOnce
    <3> QED
      BY <2>3, <2>4, <2>6, <3>1
  <2> QED
    BY <2>5, <2>6
<1> QED
  BY <1>1, <1>2 DEF Kept

(* Steps of the loops and the peers move no worker and set no callback. *)
LEMMA LoopKeeps ==
  ASSUME HoldInv, UNCHANGED <<worker, call_back, m_status, astray>>,
         \A f \in Fd \ astray : HeldOnce(f)' /\ Agrees(f)'
  PROVE  Kept'
BY InvParts DEF Kept, Fresh, HasFun, At, fd

LEMMA StepTouches ==
  ASSUME HoldInv, NEW w \in Worker, Step(w)
  PROVE  /\ Touches(w, fd(w)) /\ HasFun(w)' /\ worker'[w] \in Doings /\ Route(w, worker'[w].at)
         /\ worker'[w].at \in Owning => worker[w].at \in Owning
<1>1. WorkersOK /\ SlotsOK /\ LoopsOK /\ HasFun(w)
  BY InvParts
<1>2. PICK d \in Doings : Moves(w, d) /\ Route(w, d.at)
  BY <1>1, StepMoves
<1>0. HasFun(w)' /\ worker'[w] = d /\ (d.at \in Owning => worker[w].at \in Owning)
  BY <1>1, <1>2 DEF Moves
<1> SUFFICES Touches(w, fd(w))
  BY <1>2, <1>0
<1>3. CASE FollowNull(w) \/ AcceptFails(w) \/ ClearBuffer(w) \/ ClearIDFD(w)
  BY <1>2, <1>3 DEF FollowNull, AcceptFails, ClearBuffer, ClearIDFD, kernel, loops, slots, counts,
                    Touches, Elsewhere, Same, Moves
<1>4. CASE Reading(w)
  <2>1. UNCHANGED <<conn, armed, reported, tasks, call_back, m_events, m_status, astray>>
    BY <1>1, <1>4, ReadingMoves
  <2> QED
    BY <1>2, <2>1 DEF Touches, Elsewhere, Same, Moves
<1>5. ASSUME NEW ev, NEW fun, Reset(fd(w), ev, fun), astray' \in {astray, astray \cup {fd(w)}},
             UNCHANGED <<conn, reported, tasks, m_status>>
      PROVE  Touches(w, fd(w))
  <2>1. \A g \in Fd \ {fd(w)} : armed'[g] = armed[g] /\ m_events'[g] = m_events[g] /\ call_back'[g] = call_back[g]
    BY <1>1, <1>5 DEF Reset, SlotsOK, LoopsOK
  <2> QED
    BY <1>2, <1>5, <2>1 DEF Touches, Elsewhere, Same, Moves
<1>6. CASE Rearm(w) \/ SendData(w) \/ ReadError(w)
  <2>1. /\ \E ev, fun : Reset(fd(w), ev, fun)
        /\ astray' \in {astray, astray \cup {fd(w)}} /\ UNCHANGED <<conn, reported, tasks, m_status>>
    BY <1>6 DEF Rearm, SendData, ReadError, kernel, loops
  <2>2. Touches(w, fd(w))
    BY <1>5, <2>1
  <2> QED
    BY <1>2, <2>2, <1>1 DEF Moves
<1>7. CASE InitSlot(w) \/ EventAdd(w)
  <2>1. \A g \in Fd \ {fd(w)} : Same(g) /\ m_status'[g] = m_status[g]
    BY <1>1, <1>7 DEF InitSlot, EventAdd, kernel, loops, counts, Same, SlotsOK, LoopsOK
  <2>2. astray' = astray
    BY <1>7 DEF InitSlot, EventAdd
  <2> QED
    BY <1>1, <1>2, <2>1, <2>2 DEF Touches, Elsewhere, Moves
<1>8. CASE EventDel(w) \/ CloseSocket(w) \/ Wipe(w)
  <2>1. \A g \in Fd \ {fd(w)} : Same(g) /\ m_status'[g] = m_status[g]
    BY <1>1, <1>8 DEF EventDel, CloseSocket, Wipe, kernel, loops, counts, Same, SlotsOK, LoopsOK
  <2>2. astray' = astray
    BY <1>8 DEF EventDel, CloseSocket, Wipe
  <2> QED
    BY <1>1, <1>2, <2>1, <2>2 DEF Touches, Elsewhere, Moves
<1> QED
  BY <1>2, <1>3, <1>4, <1>6, <1>7, <1>8 DEF Route

(* The steps of a worker by what they do to its slot.                      *)
Accepting == {"init", "eventadd"}

\* It has no slot, and may wipe one that was its own.
Aside(w) ==
  /\ worker[w].at \notin Owning /\ worker'[w].at \notin Owning
  /\ \A f \in Fd : Same(f) /\ m_status'[f] \in {m_status[f], 0}
  /\ UNCHANGED <<conn, event, astray>>

\* It keeps its slot.
Works(w) ==
  /\ worker[w].at \in Owning /\ worker'[w].at \in Owning /\ fd(w) \notin astray
  /\ worker'[w].at = "eventadd" => m_status'[fd(w)] = 0 /\ call_back'[fd(w)] = "recvdata"
  /\ worker[w].at \in Accepting <=> worker'[w].at \in Accepting
  /\ \/ worker[w].at = "init" /\ worker'[w].at = "eventadd" /\ event' = event + 1
     \/ worker[w].at = "eventdel" /\ worker'[w].at = "close" /\ event' = event - 1
     \/ worker[w].at \notin {"init", "close"} /\ worker'[w].at \notin {"init", "close"} /\ event' = event
  /\ UNCHANGED <<conn, armed, reported, tasks, astray>>

\* It gives the slot to epoll.
Arms(w) ==
  /\ worker[w].at \in Owning \ {"init", "close"} /\ worker'[w].at \notin Owning /\ fd(w) \notin astray
  /\ call_back'[fd(w)] \in Callbacks
  /\ \E e \in Events : m_events'[fd(w)] = {e} /\ armed'[fd(w)] = {e}
  /\ UNCHANGED <<conn, reported, tasks, event, astray>>

\* It closes the socket.
Closes(w) ==
  /\ worker[w].at = "close" /\ worker'[w].at \notin Owning /\ fd(w) \notin astray
  /\ conn'[fd(w)] = None /\ armed'[fd(w)] = {}
  /\ UNCHANGED <<reported, tasks, event, astray>>

\* It is not alone in the slot any more.
Loses(w) ==
  /\ worker[w].at \in Owning /\ astray' = astray \cup {fd(w)}
  /\ fd(w) \in astray \/ worker[w].at \notin Accepting

LEMMA StepKinds ==
  ASSUME HoldInv, NEW w \in Worker, Step(w)
  PROVE  Aside(w) \/ Works(w) \/ Arms(w) \/ Closes(w) \/ Loses(w)
<1> DEFINE after == worker'[w].at
<1>1. WorkersOK /\ SlotsOK /\ LoopsOK /\ Fresh(w) /\ HasFun(w)
  BY InvParts
<1>2. /\ Touches(w, fd(w)) /\ Route(w, after)
      /\ after \in Owning => worker[w].at \in Owning
  BY StepTouches
<1>3. CASE worker[w].at \notin Owning
  <2>1. AcceptFails(w) \/ ClearBuffer(w) \/ ClearIDFD(w) \/ Wipe(w)
    BY <1>2, <1>3, ReadingMoves, InvParts DEF Route, ReadError, InitSlot, EventAdd, Rearm, SendData, EventDel,
       CloseSocket, FollowNull, SocketGone, At, Owning
  <2>2. \A f \in Fd : Same(f) /\ m_status'[f] \in {m_status[f], 0}
    BY <1>1, <2>1 DEF AcceptFails, ClearBuffer, ClearIDFD, Wipe, kernel, loops, slots, counts, Same, SlotsOK
  <2>3. UNCHANGED <<conn, event, astray>>
    BY <2>1 DEF AcceptFails, ClearBuffer, ClearIDFD, Wipe, kernel, counts
  <2> QED
    BY <1>2, <1>3, <2>2, <2>3 DEF Aside
<1>4. CASE worker[w].at \in Owning /\ fd(w) \in astray
  <2>1. astray' = astray \cup {fd(w)}
    BY <1>2, <1>4 DEF Touches
  <2> QED
    BY <1>4, <2>1 DEF Loses
<1>5. CASE worker[w].at \in Owning /\ fd(w) \notin astray
  <2>1. /\ fd(w) \in Fd /\ conn[fd(w)] # None /\ armed[fd(w)] = {}
    BY <1>5, Holder1
  <2>2. /\ ~FollowNull(w) /\ ~AcceptFails(w) /\ ~ClearBuffer(w) /\ ~ClearIDFD(w) /\ ~Wipe(w)
    BY <1>5, <2>1 DEF FollowNull, SocketGone, AcceptFails, ClearBuffer, ClearIDFD, Wipe, At, Owning
  <2>3. CASE Reading(w) /\ after \in {"read", "whoID", "rearm", "eventdel", "terminate"}
    <3>1. worker[w].at \in {"read", "whoID"}
          /\ UNCHANGED <<conn, armed, reported, tasks, event, astray>>
      BY <1>1, <2>3, ReadingMoves
    <3> QED
      BY <1>5, <2>3, <3>1 DEF Works, Owning, Accepting
  <2>4. CASE ReadError(w)
    <3>1. worker[w].at = "read" /\ astray' = astray \cup {fd(w)}
      BY <2>4 DEF ReadError, At
    <3> QED
      BY <1>5, <3>1 DEF Loses, Accepting
  <2>5. CASE InitSlot(w) /\ after = "eventadd"
    <3>1. /\ worker[w].at = "init" /\ event' = event + 1
          /\ m_status'[fd(w)] = 0 /\ call_back'[fd(w)] = "recvdata"
          /\ UNCHANGED <<conn, armed, reported, tasks, astray>>
      BY <1>1, <2>1, <2>5 DEF InitSlot, At, kernel, loops, SlotsOK
    <3> QED
      BY <1>5, <2>5, <3>1 DEF Works, Owning, Accepting
  <2>6. CASE EventAdd(w) /\ after = "accept"
    <3>1. worker[w].at = "eventadd"
      BY <2>6 DEF EventAdd, At
    <3>2. m_status[fd(w)] = 0 /\ call_back[fd(w)] = "recvdata"
      BY <1>1, <1>5, <3>1 DEF Fresh, At
    <3>3. /\ m_events'[fd(w)] = {"IN"} /\ armed'[fd(w)] = {"IN"} /\ "IN" \in Events
          /\ call_back'[fd(w)] \in Callbacks
          /\ UNCHANGED <<conn, reported, tasks, event, astray>>
      BY <1>1, <2>1, <2>6, <3>2 DEF EventAdd, kernel, loops, counts, SlotsOK, LoopsOK, Events, Callbacks
    <3> QED
      BY <1>5, <2>6, <3>1, <3>3 DEF Arms, Owning
  <2>7. ASSUME NEW ev \in Events, NEW fun \in Callbacks, Reset(fd(w), ev, fun)
        PROVE  /\ m_events'[fd(w)] = {ev} /\ armed'[fd(w)] = {ev}
               /\ call_back'[fd(w)] \in Callbacks
    <3>1. ev # None /\ fun # None
      BY NoneIsNoValue DEF Events, Callbacks
    <3> QED
      BY <1>1, <2>1, <2>7, <3>1 DEF Reset, SlotsOK, LoopsOK
  <2>8. CASE Rearm(w) /\ after = "idle"
    <3>1. /\ worker[w].at = "rearm" /\ worker[w] \in Doings
          /\ UNCHANGED <<conn, reported, tasks, event>>
      BY <1>1, <2>8, FdOf DEF Rearm, At, kernel, loops, counts
    <3>2. CASE worker[w].ev = None
      <4>1. astray' = astray \cup {fd(w)}
        BY <2>8, <3>2 DEF Rearm
      <4> QED
        BY <1>5, <3>1, <4>1 DEF Loses, Accepting
    <3>3. CASE worker[w].ev # None
      <4>1. worker[w].ev \in Events /\ worker[w].fun \in Callbacks
        BY <1>1, <3>1, <3>3 DEF HasFun, Doings
      <4>2. Reset(fd(w), worker[w].ev, worker[w].fun) /\ astray' = astray
        BY <2>8, <3>3 DEF Rearm
      <4>3. \E e \in Events : m_events'[fd(w)] = {e} /\ armed'[fd(w)] = {e}
        BY <2>7, <4>1, <4>2
      <4>4. call_back'[fd(w)] \in Callbacks
        BY <2>7, <4>1, <4>2
      <4> QED
        BY <1>5, <2>8, <3>1, <4>2, <4>3, <4>4 DEF Arms, Owning
    <3> QED
      BY <3>2, <3>3
  <2>9. CASE SendData(w) /\ after = "clear"
    <3>1. /\ worker[w].at = "send" /\ Reset(fd(w), "IN", "recvdata")
          /\ UNCHANGED <<conn, reported, tasks, event, astray>>
      BY <2>9 DEF SendData, At, kernel, loops, counts
    <3>2. "IN" \in Events /\ "recvdata" \in Callbacks
      BY DEF Events, Callbacks
    <3>3. \E e \in Events : m_events'[fd(w)] = {e} /\ armed'[fd(w)] = {e}
      BY <2>7, <3>1, <3>2
    <3>4. call_back'[fd(w)] \in Callbacks
      BY <2>7, <3>1, <3>2
    <3> QED
      BY <1>5, <2>9, <3>1, <3>3, <3>4 DEF Arms, Owning
  <2>10. CASE EventDel(w) /\ after = "close"
    <3>1. /\ worker[w].at = "eventdel" /\ event' = event - 1
          /\ UNCHANGED <<conn, reported, tasks, astray>>
      BY <2>10 DEF EventDel, At, kernel, loops
    <3>2. armed' = armed
      BY <1>1, <2>1, <2>10 DEF EventDel, LoopsOK
    <3> QED
      BY <1>5, <2>10, <3>1, <3>2 DEF Works, Owning, Accepting
  <2>11. CASE CloseSocket(w) /\ after = "wipe"
    <3>1. /\ worker[w].at = "close" /\ UNCHANGED <<reported, tasks, event, astray>>
          /\ conn'[fd(w)] = None /\ armed'[fd(w)] = {}
      BY <1>1, <2>1, <2>11 DEF CloseSocket, At, loops, counts, LoopsOK
    <3> QED
      BY <1>5, <2>11, <3>1 DEF Closes, Owning
  <2> HIDE DEF after
  <2> QED
    BY <1>2, <2>2, <2>3, <2>4, <2>5, <2>6, <2>8, <2>9, <2>10, <2>11 DEF Route
<1> QED
  BY <1>3, <1>4, <1>5

LEMMA StepKeeps ==
  ASSUME HoldInv, LoopsOK', NEW w \in Worker, Step(w)
  PROVE  Kept'
<1>0. PICK f : f = fd(w)
  OBVIOUS
<1>1. Touches(w, f) /\ HasFun(w)' /\ (worker'[w].at \in Owning => worker[w].at \in Owning)
  BY <1>0, StepTouches
<1>2. CASE Aside(w)
  <2>1. \A v \in Worker : Holds(v, f)' <=> Holds(v, f)
    BY <1>1, <1>2 DEF Aside, Touches, Holds, fd
  <2>2. f \in Fd \ astray' => HeldOnce(f)' /\ Agrees(f)'
    BY <1>2, <2>1, HeldFrame, InvParts DEF Aside
  <2>3. f \in Fd => call_back'[f] = call_back[f] /\ m_status'[f] \in {m_status[f], 0}
    BY <1>2 DEF Aside, Same
  <2>4. Fresh(w)'
    BY <1>2 DEF Aside, Fresh, At, Owning
  <2> QED
    BY <1>1, <2>2, <2>3, <2>4, SlotKeeps
<1>3. ASSUME worker[w].at \in Owning, f \notin astray
      PROVE  /\ f \in Fd /\ conn[f] # None /\ armed[f] = {} /\ reported[f] = {} /\ ~Queued(f)
             /\ \A v \in Worker : v # w => ~Holds(v, f)'
             /\ Holds(w, f)' <=> worker'[w].at \in Owning
             /\ HeldOnce(f)
             /\ UNCHANGED tasks => ~Queued(f)'
  <2>1. /\ f \in Fd /\ conn[f] # None /\ armed[f] = {} /\ reported[f] = {} /\ ~Queued(f)
        /\ \A v \in Worker : v # w => ~Holds(v, f)
    BY <1>3, <1>0, Holder1
  <2>2. \A v \in Worker : v # w => ~Holds(v, f)'
    BY <1>1, <2>1, HoldsThen
  <2>3. Holds(w, f)' <=> worker'[w].at \in Owning
    BY <1>1, <2>1, HoldsThen
  <2>4. UNCHANGED tasks => ~Queued(f)'
    BY <2>1 DEF Queued
  <2> QED
    BY <1>3, <2>1, <2>2, <2>3, <2>4, InvParts
<1>4. CASE Works(w)
  <2>1. worker[w].at \in Owning /\ worker'[w].at \in Owning /\ f \notin astray
        /\ UNCHANGED <<conn, armed, reported, tasks>>
    BY <1>4, <1>0 DEF Works
  <2>2. HeldOnce(f)' /\ Agrees(f)'
    BY <1>3, <2>1 DEF HeldOnce, Agrees
  <2>3. Fresh(w)'
    <3>1. worker'[w].at = "eventadd" => worker'[w].fd = f
      BY <1>1 DEF Touches, Owning
    <3> QED
      BY <1>4, <1>0, <3>1 DEF Works, Fresh, At, fd
  <2> QED
    BY <1>1, <2>1, <2>2, <2>3, SlotKeeps
<1>5. CASE Arms(w) \/ Closes(w)
  <2>1. worker[w].at \in Owning /\ worker'[w].at \notin Owning /\ f \notin astray
        /\ UNCHANGED <<reported, tasks>>
    BY <1>5, <1>0 DEF Arms, Closes, Owning
  <2>2. \A v \in Worker : ~Holds(v, f)'
    BY <1>3, <2>1
  <2>3. HeldOnce(f)' /\ Agrees(f)'
    <3>1. CASE Arms(w)
      <4>1. PICK e \in Events : m_events'[f] = {e} /\ armed'[f] = {e} /\ call_back'[f] \in Callbacks /\ conn' = conn
        BY <1>0, <3>1 DEF Arms
      <4> QED
        BY <1>3, <2>1, <2>2, <4>1 DEF HeldOnce, Agrees
    <3>2. CASE Closes(w)
      BY <1>3, <1>0, <2>1, <2>2, <3>2 DEF HeldOnce, Agrees, Closes
    <3> QED
      BY <1>5, <3>1, <3>2
  <2>4. Fresh(w)'
    BY <2>1 DEF Fresh, At, Owning
  <2> QED
    BY <1>1, <2>1, <2>3, <2>4, SlotKeeps
<1>6. CASE Loses(w)
  <2>1. worker[w].at \in Owning /\ f \in astray'
    BY <1>6, <1>0 DEF Loses
  <2>2. Fresh(w)'
    <3>1. worker'[w].at = "eventadd" => worker'[w].fd = f
      BY <1>1 DEF Touches, Owning
    <3> QED
      BY <2>1, <3>1 DEF Fresh, At, fd
  <2> QED
    BY <1>1, <2>1, <2>2, SlotKeeps
<1> QED
  BY <1>2, <1>4, <1>5, <1>6, StepKinds

-----------------------------------------------------------------------------
LEMMA HoldInit == Init => HoldInv
<1> SUFFICES ASSUME Init PROVE Kept
  BY TypeInit DEF HoldInv
<1>1. \A w \in Worker : worker[w] = Idle /\ worker[w].at = "idle"
  BY IdleShape DEF Init
<1>2. \A w \in Worker : Fresh(w) /\ HasFun(w)
  BY <1>1, IdleShape DEF Fresh, HasFun, At
<1>3. ASSUME NEW f \in Fd
      PROVE  HeldOnce(f) /\ Agrees(f)
  <2>1. \A w \in Worker : ~Holds(w, f)
    BY <1>1 DEF Holds, Owning
  <2>2. conn[f] = None /\ armed[f] = {} /\ reported[f] = {} /\ tasks[f]["recvdata"] = 0 /\ tasks[f]["senddata"] = 0
    BY DEF Init, Callbacks
  <2>3. ~Queued(f)
    BY <2>2 DEF Queued, Callbacks
  <2> QED
    BY <1>1, <2>1, <2>2, <2>3 DEF HeldOnce, Agrees
<1> QED
  BY <1>2, <1>3 DEF Kept

(* The peers and the main reactor. *)
LEMMA QuietKeeps ==
  ASSUME HoldInv, UNCHANGED <<conn, armed, reported, tasks, call_back, m_events, m_status, worker, astray>>
  PROVE  Kept'
<1>1. \A f \in Fd \ astray : HeldOnce(f)' /\ Agrees(f)'
  BY InvParts DEF HeldOnce, Agrees, Queued, Holds, fd
<1> QED
  BY <1>1, LoopKeeps

(* epoll_wait: the events pass from epoll to the sub reactor. *)
LEMMA EpollWaitKeeps ==
  ASSUME HoldInv, EpollWait
  PROVE  Kept'
<1>1. /\ \A f \in Fd : reported[f] = {} /\ reported'[f] = Ready(f)
      /\ \A f \in Fd : armed'[f] = IF Ready(f) = {} THEN armed[f] ELSE {}
      /\ UNCHANGED <<conn, tasks, worker, call_back, m_events, m_status, astray>>
  BY DEF EpollWait, kernel, slots
<1>2. \A v \in Worker, f \in Fd : Holds(v, f)' <=> Holds(v, f)
  BY <1>1 DEF Holds, fd
<1>3. ASSUME NEW f \in Fd \ astray
      PROVE  HeldOnce(f)' /\ Agrees(f)'
  <2>1. HeldOnce(f) /\ Agrees(f)
    BY InvParts
  <2>2. CASE Ready(f) = {}
    <3>1. Same(f)
      BY <1>1, <2>2 DEF Same
    <3> QED
      BY <1>2, <2>1, <3>1, HeldFrame
  <2>3. CASE Ready(f) # {}
    <3>1. Ready(f) \in SUBSET armed[f]
      BY DEF Ready
    <3>2. PICK e \in Events : call_back[f] \in Callbacks /\ m_events[f] = {e} /\ armed[f] = {e}
      BY <2>1, <2>3, <3>1 DEF Agrees
    <3>3. Ready(f) = {e}
      BY <2>3, <3>1, <3>2
    <3>4. armed'[f] = {} /\ reported'[f] = {e}
      BY <1>1, <2>3, <3>3
    <3>5. ~Queued(f) /\ (Queued(f)' <=> Queued(f)) /\ (\A w \in Worker : ~Holds(w, f)) /\ conn[f] # None
      BY <1>1, <2>1, <3>2 DEF HeldOnce, Queued
    <3>6. HeldOnce(f)'
      BY <1>1, <1>2, <2>1, <3>4, <3>5 DEF HeldOnce
    <3> QED
      BY <1>1, <3>2, <3>4, <3>6 DEF Agrees
  <2> QED
    BY <2>2, <2>3
<1> QED
  BY <1>1, <1>3, LoopKeeps

(* The sub reactor passes an event to the pool, as one task. *)
LEMMA DispatchPasses ==
  ASSUME HoldInv, NEW f \in Fd, Dispatch(f)
  PROVE  /\ UNCHANGED <<conn, armed, worker, call_back, m_events, m_status, event, astray>>
         /\ \A g \in Fd \ {f} : reported'[g] = reported[g] /\ tasks'[g] = tasks[g]
         /\ f \notin astray =>
              /\ reported[f] # {} /\ reported'[f] = {} /\ Queued(f)'
              /\ tasks'[f]["recvdata"] + tasks'[f]["senddata"] = 1
<1>1. LoopsOK
  BY InvParts
<1>2. UNCHANGED <<conn, armed, worker, call_back, m_events, m_status, event, astray>>
  BY DEF Dispatch, kernel, slots, counts
<1>3. \A g \in Fd \ {f} : reported'[g] = reported[g] /\ tasks'[g] = tasks[g]
  <2>1. reported' = [reported EXCEPT ![f] = {}]
    BY DEF Dispatch
  <2>2. CASE call_back[f] \in Callbacks
    <3>1. PICK cb, k : tasks' = [tasks EXCEPT ![f][cb] = k]
      BY <2>2 DEF Dispatch
    <3> QED
      BY <1>1, <2>1, <3>1 DEF LoopsOK
  <2>3. CASE call_back[f] \notin Callbacks
    BY <1>1, <2>1, <2>3 DEF Dispatch, LoopsOK
  <2> QED
    BY <2>2, <2>3
<1>4. ASSUME f \notin astray
      PROVE  /\ reported[f] # {} /\ reported'[f] = {} /\ Queued(f)'
             /\ tasks'[f]["recvdata"] + tasks'[f]["senddata"] = 1
  <2>1. HeldOnce(f) /\ Agrees(f)
    BY <1>4, InvParts
  <2>2. reported[f] # {}
    BY DEF Dispatch
  <2>3. PICK e \in Events : m_events[f] = {e} /\ reported[f] = {e}
    BY <2>1, <2>2 DEF Agrees
  <2>4. PICK cb \in Callbacks : cb = call_back[f]
    BY <2>1, <2>2 DEF Agrees
  <2>5. Cardinality(reported[f] \cap m_events[f]) = 1
    <3>1. reported[f] \cap m_events[f] = {e}
      BY <2>3
    <3>2. Cardinality({e}) = 1
      BY FS_Singleton
    <3> QED
      BY <3>1, <3>2
  <2>6. reported' = [reported EXCEPT ![f] = {}] /\ tasks' = [tasks EXCEPT ![f][cb] = tasks[f][cb] + 1]
    BY <2>4, <2>5 DEF Dispatch
  <2>7. "recvdata" \in Callbacks /\ "senddata" \in Callbacks /\ tasks[f] \in [Callbacks -> Nat]
    BY <1>1 DEF Callbacks, LoopsOK
  <2>8. tasks[f]["recvdata"] = 0 /\ tasks[f]["senddata"] = 0
    BY <2>1, <2>2, <2>7 DEF HeldOnce, Queued
  <2>9. reported'[f] = {} /\ tasks'[f] = [tasks[f] EXCEPT ![cb] = tasks[f][cb] + 1]
    BY <1>1, <2>6 DEF LoopsOK
  <2>10. tasks'[f][cb] = 1 /\ \A k \in Callbacks : k # cb => tasks'[f][k] = 0
    BY <2>7, <2>8, <2>9 DEF Callbacks
  <2>11. tasks'[f]["recvdata"] + tasks'[f]["senddata"] = 1
    BY <2>7, <2>10 DEF Callbacks
  <2>12. Queued(f)'
    BY <2>10 DEF Queued
  <2> QED
    BY <2>2, <2>9, <2>11, <2>12
<1> QED
  BY <1>2, <1>3, <1>4

LEMMA DispatchKeeps ==
  ASSUME HoldInv, NEW f \in Fd, Dispatch(f)
  PROVE  Kept'
<1>1. /\ UNCHANGED <<conn, armed, worker, call_back, m_events, m_status, astray>>
      /\ \A g \in Fd \ {f} : reported'[g] = reported[g] /\ tasks'[g] = tasks[g]
  BY DispatchPasses
<1>2. \A v \in Worker, g \in Fd : Holds(v, g)' <=> Holds(v, g)
  BY <1>1 DEF Holds, fd
<1>3. ASSUME NEW g \in Fd \ astray
      PROVE  HeldOnce(g)' /\ Agrees(g)'
  <2>1. HeldOnce(g) /\ Agrees(g)
    BY InvParts
  <2>2. CASE g # f
    <3>1. Same(g)
      BY <1>1, <2>2 DEF Same
    <3> QED
      BY <1>2, <2>1, <3>1, HeldFrame
  <2>3. CASE g = f
    <3>1. /\ reported[f] # {} /\ reported'[f] = {} /\ Queued(f)'
          /\ tasks'[f]["recvdata"] + tasks'[f]["senddata"] <= 1
      BY <2>3, DispatchPasses
    <3>2. armed[f] = {} /\ conn[f] # None /\ \A w \in Worker : ~Holds(w, f)
      BY <2>1, <2>3, <3>1 DEF HeldOnce
    <3>3. HeldOnce(f)'
      BY <1>1, <1>2, <3>1, <3>2 DEF HeldOnce
    <3> QED
      BY <1>1, <2>3, <3>1, <3>2, <3>3 DEF Agrees
  <2> QED
    BY <2>2, <2>3
<1> QED
  BY <1>1, <1>3, LoopKeeps

(* A worker takes a task for a descriptor, or accepts a connection. *)
LEMMA StartTouches ==
  ASSUME HoldInv, NEW w \in Worker, NEW f \in Fd, Start(w, f)
  PROVE  /\ Touches(w, f) /\ HasFun(w)' /\ worker[w].at \notin Owning
         /\ worker'[w].at \in {"read", "send"} /\ worker'[w].fd = f
         /\ UNCHANGED <<conn, armed, reported, call_back, m_events, m_status, event, astray>>
         /\ Queued(f)
         /\ f \notin astray => tasks'[f]["recvdata"] = 0 /\ tasks'[f]["senddata"] = 0 /\ ~Queued(f)'
<1>1. PICK cb \in Callbacks :
        /\ tasks[f][cb] > 0 /\ tasks' = [tasks EXCEPT ![f][cb] = tasks[f][cb] - 1]
        /\ Go(w, Doing(IF cb = "recvdata" THEN "read" ELSE "send", f))
  BY DEF Start
<1>2. PICK place \in {"read", "send"} : Go(w, Doing(place, f))
  BY <1>1
<1>3. PICK d \in Doings : d.at = place /\ d.fd = f /\ d.ev = None /\ Go(w, d)
  BY <1>2, DoingShape DEF Places, Owning
<1>4. WorkersOK /\ LoopsOK
  BY InvParts
<1>5. worker'[w] = d /\ \A v \in Worker \ {w} : worker'[v] = worker[v]
  BY <1>2, <1>3, <1>4, WorkersGo, NoneIsNone
<1>6. /\ worker[w].at \notin Owning
      /\ UNCHANGED <<conn, armed, reported, call_back, m_events, m_status, event, astray>>
  BY DEF Start, kernel, slots, counts, At, Owning
<1>7. \A g \in Fd \ {f} : tasks'[g] = tasks[g]
  BY <1>1, <1>4 DEF LoopsOK
<1>8. Touches(w, f) /\ HasFun(w)'
  BY <1>3, <1>5, <1>6, <1>7 DEF Touches, Elsewhere, Same, HasFun
<1>9. Queued(f)
  BY <1>1 DEF Queued
<1>10. ASSUME f \notin astray
       PROVE  tasks'[f]["recvdata"] = 0 /\ tasks'[f]["senddata"] = 0
  <2>1. "recvdata" \in Callbacks /\ "senddata" \in Callbacks /\ tasks[f] \in [Callbacks -> Nat]
        /\ tasks[f]["recvdata"] + tasks[f]["senddata"] <= 1
    BY <1>4, <1>10, InvParts DEF Callbacks, LoopsOK, HeldOnce
  <2>2. tasks'[f] = [tasks[f] EXCEPT ![cb] = tasks[f][cb] - 1]
    BY <1>1, <1>4 DEF LoopsOK
  <2> QED
    BY <1>1, <2>1, <2>2 DEF Callbacks
<1>11. f \notin astray => ~Queued(f)'
  BY <1>10 DEF Queued, Callbacks
<1> QED
  BY <1>2, <1>3, <1>5, <1>6, <1>8, <1>9, <1>10, <1>11

LEMMA StartKeeps ==
  ASSUME HoldInv, NEW w \in Worker, NEW f \in Fd, Start(w, f)
  PROVE  Kept'
<1>1. /\ Touches(w, f) /\ HasFun(w)' /\ worker[w].at \notin Owning
      /\ worker'[w].at \in {"read", "send"} /\ worker'[w].fd = f
      /\ UNCHANGED <<conn, armed, reported, call_back, m_events, m_status, event, astray>>
      /\ Queued(f)
  BY StartTouches
<1>2. ASSUME f \notin astray
      PROVE  HeldOnce(f)' /\ Agrees(f)'
  <2>1. HeldOnce(f) /\ tasks'[f]["recvdata"] = 0 /\ tasks'[f]["senddata"] = 0 /\ ~Queued(f)'
    BY <1>2, StartTouches, InvParts
  <2>2. armed[f] = {} /\ reported[f] = {} /\ conn[f] # None /\ \A v \in Worker : ~Holds(v, f)
    BY <1>1, <2>1 DEF HeldOnce
  <2>3. \A v \in Worker : Holds(v, f)' <=> v = w
    BY <1>1, <2>2, HoldsThen DEF Owning
  <2> QED
    BY <1>1, <2>1, <2>2, <2>3 DEF HeldOnce, Agrees
<1>3. Fresh(w)'
  BY <1>1 DEF Fresh, At
<1> QED
  BY <1>1, <1>2, <1>3, SlotKeeps

(* A new connection: nobody holds its descriptor, though a slot that was   *)
(* freed may still be wiped.                                               *)
LEMMA AcceptTouches ==
  ASSUME HoldInv, NEW w \in Worker, NEW c \in Client, NEW f \in Fd, Accept(w, c, f)
  PROVE  /\ Touches(w, f) /\ HasFun(w)' /\ worker[w].at \notin Owning
         /\ worker'[w].at = "init" /\ worker'[w].fd = f
         /\ conn[f] = None /\ conn'[f] = c /\ c # None
         /\ UNCHANGED <<armed, reported, tasks, call_back, m_events, m_status, event, astray>>
<1>1. PICK d \in Doings : d.at = "init" /\ d.fd = f /\ d.ev = None /\ Go(w, d)
  BY DoingShape DEF Accept, Places, Owning
<1>2. /\ worker[w].at \notin Owning /\ conn[f] = None /\ conn' = [conn EXCEPT ![f] = c]
      /\ UNCHANGED <<armed, reported, tasks, call_back, m_events, m_status, event, astray>>
  BY DEF Accept, At, loops, slots, counts, Owning
<1>3. WorkersOK /\ LoopsOK
  BY InvParts
<1>4. worker'[w] = d /\ \A v \in Worker \ {w} : worker'[v] = worker[v]
  BY <1>1, <1>3, WorkersGo, NoneIsNone
<1>5. conn'[f] = c /\ (\A g \in Fd \ {f} : conn'[g] = conn[g]) /\ c # None
  BY <1>2, <1>3, NoneIsNone DEF LoopsOK
<1>6. Touches(w, f) /\ HasFun(w)'
  BY <1>1, <1>2, <1>4, <1>5 DEF Touches, Elsewhere, Same, HasFun
<1> QED
  BY <1>1, <1>2, <1>4, <1>5, <1>6

LEMMA AcceptKeeps ==
  ASSUME HoldInv, NEW w \in Worker, NEW c \in Client, NEW f \in Fd, Accept(w, c, f)
  PROVE  Kept'
<1>1. /\ Touches(w, f) /\ HasFun(w)' /\ worker[w].at \notin Owning
      /\ worker'[w].at = "init" /\ worker'[w].fd = f
      /\ conn[f] = None /\ conn'[f] = c /\ c # None
      /\ UNCHANGED <<armed, reported, tasks, call_back, m_events, m_status, event, astray>>
  BY AcceptTouches
<1>2. ASSUME f \notin astray
      PROVE  HeldOnce(f)' /\ Agrees(f)'
  <2>1. HeldOnce(f)
    BY <1>2, InvParts
  <2>2. armed[f] = {} /\ reported[f] = {} /\ ~Queued(f) /\ \A v \in Worker : ~Holds(v, f)
    BY <1>1, <2>1 DEF HeldOnce
  <2>3. \A v \in Worker : Holds(v, f)' <=> v = w
    BY <1>1, <2>2, HoldsThen DEF Owning
  <2>4. ~Queued(f)'
    BY <1>1, <2>2 DEF Queued
  <2> QED
    BY <1>1, <2>1, <2>2, <2>3, <2>4 DEF HeldOnce, Agrees
<1>3. Fresh(w)'
  BY <1>1 DEF Fresh, At
<1> QED
  BY <1>1, <1>2, <1>3, SlotKeeps

LEMMA StartAcceptTouches ==
  ASSUME HoldInv, NEW w \in Worker, StartAccept(w)
  PROVE  /\ \A f : Touches(w, f)
         /\ HasFun(w)' /\ worker[w].at \notin Owning /\ worker'[w].at \notin Owning
         /\ UNCHANGED <<conn, armed, reported, tasks, call_back, m_events, m_status, event, astray>>
<1>1. PICK d \in Doings : d.at = "accept" /\ d.ev = None /\ Go(w, d)
  BY IdleShape DEF StartAccept
<1>2. /\ worker[w].at \notin Owning
      /\ UNCHANGED <<conn, armed, reported, tasks, call_back, m_events, m_status, event, astray>>
  BY DEF StartAccept, At, kernel, slots, counts, Owning
<1>3. worker'[w] = d /\ \A v \in Worker \ {w} : worker'[v] = worker[v]
  BY <1>1, WorkersGo, InvParts
<1>4. d.at \notin Owning
  BY <1>1 DEF Owning
<1> QED
  BY <1>1, <1>2, <1>3, <1>4 DEF Touches, Elsewhere, Same, HasFun

LEMMA HoldNext ==
  ASSUME HoldInv, [Next]_vars
  PROVE  HoldInv'
<1>1. TypeOK' /\ LoopsOK'
  <2>1. TypeOK'
    BY TypeNext DEF HoldInv
  <2> QED
    BY <2>1 DEF TypeOK, LoopsOK
<1>2. ASSUME \/ MainDispatch \/ UNCHANGED vars
             \/ \E c \in Client : Connect(c) \/ SendMessage(c) \/ HangUp(c) \/ BreakDown(c)
      PROVE  Kept'
  <2>1. UNCHANGED <<conn, armed, reported, tasks, call_back, m_events, m_status, worker, astray>>
    BY <1>2 DEF MainDispatch, Connect, SendMessage, HangUp, BreakDown, vars, kernel, loops, slots
  <2> QED
    BY <2>1, QuietKeeps
<1>3. ASSUME NEW w \in Worker, StartAccept(w)
      PROVE  Kept'
  <2>1. /\ Touches(w, None) /\ HasFun(w)' /\ worker'[w].at \notin Owning
    BY <1>3, StartAcceptTouches
  <2>2. Fresh(w)'
    BY <2>1 DEF Fresh, At, Owning
  <2> QED
    BY <2>1, <2>2, SlotKeeps, NoneIsNone
<1>4. Kept'
  BY <1>1, <1>2, <1>3, EpollWaitKeeps, DispatchKeeps, StartKeeps, AcceptKeeps, StepKeeps DEF Next
<1> QED
  BY <1>1, <1>4 DEF HoldInv

(* Every open connection has exactly one holder until its slot is armed    *)
(* with an event that was never set, or armed while it is read: no two     *)
(* threads are in the same slot before, however many there are, and no     *)
(* client is forgotten.                                                    *)
THEOREM ConnectionHasOneHolder == Spec => []OneHolder
<1>1. HoldInv /\ [Next]_vars => HoldInv'
  BY HoldNext
<1>2. HoldInv => OneHolder
  BY InvParts DEF OneHolder, HeldOnce
<1> QED
  BY HoldInit, <1>1, <1>2, PTL DEF Spec

-----------------------------------------------------------------------------
(* The count of the connections of the epoll instance. *)
Counted(f) == conn[f] # None /\ \A w \in Worker : Holds(w, f) => worker[w].at \notin {"init", "close"}
CountInv == HoldInv /\ (astray = {} => event = Cardinality({f \in Fd : Counted(f)}))

LEMMA CountStays ==
  ASSUME CountInv, HoldInv', astray \subseteq astray',
         astray' = {} => event' = event /\ \A f \in Fd : Counted(f)' <=> Counted(f)
  PROVE  CountInv'
<1> SUFFICES ASSUME astray' = {}
             PROVE  event' = Cardinality({f \in Fd : Counted(f)})'
  BY DEF CountInv
<1>1. {f \in Fd : Counted(f)}' = {f \in Fd : Counted(f)}
  OBVIOUS
<1> QED
  BY <1>1 DEF CountInv

LEMMA CountMoves ==
  ASSUME CountInv, HoldInv', NEW f \in Fd, astray' = astray, \A g \in Fd \ {f} : Counted(g)' <=> Counted(g),
         \/ ~Counted(f) /\ Counted(f)' /\ event' = event + 1
         \/ Counted(f) /\ ~Counted(f)' /\ event' = event - 1
  PROVE  CountInv'
<1> DEFINE S == {g \in Fd : Counted(g)}
<1>1. IsFiniteSet(S)
  BY FiniteWorld, FS_Subset
<1>2. CASE ~Counted(f) /\ Counted(f)' /\ event' = event + 1
  <2>1. S' = S \cup {f} /\ f \notin S
    BY <1>2
  <2>2. Cardinality(S \cup {f}) = Cardinality(S) + 1
    BY <1>1, <2>1, FS_AddElement
  <2> QED
    BY <1>2, <2>1, <2>2 DEF CountInv
<1>3. CASE Counted(f) /\ ~Counted(f)' /\ event' = event - 1
  <2>1. S' = S \ {f} /\ f \in S
    BY <1>3
  <2>2. Cardinality(S \ {f}) = Cardinality(S) - 1
    BY <1>1, <2>1, FS_RemoveElement
  <2> QED
    BY <1>3, <2>1, <2>2 DEF CountInv
<1> QED
  BY <1>2, <1>3

LEMMA CountElsewhere ==
  ASSUME NEW w \in Worker, NEW f, Touches(w, f), NEW g \in Fd \ {f}
  PROVE  Counted(g)' <=> Counted(g)
<1>1. \A v \in Worker : Holds(v, g)' <=> Holds(v, g)
  BY HoldsThen
<1>2. ~Holds(w, g)
  BY HoldsThen
<1>3. conn'[g] = conn[g] /\ \A v \in Worker \ {w} : worker'[v] = worker[v]
  BY DEF Touches, Elsewhere, Same
<1> QED
  BY <1>1, <1>2, <1>3 DEF Counted

LEMMA CountStep ==
  ASSUME CountInv, HoldInv', NEW w \in Worker, Step(w)
  PROVE  CountInv'
<1>1. HoldInv
  BY DEF CountInv
<1>2. PICK f : f = fd(w)
  OBVIOUS
<1>3. Touches(w, f)
  BY <1>1, <1>2, StepTouches
<1>4. \A g \in Fd \ {f} : Counted(g)' <=> Counted(g)
  BY <1>3, CountElsewhere
<1>5. CASE Aside(w)
  <2>1. \A v \in Worker : Holds(v, f)' <=> Holds(v, f)
    BY <1>3, <1>5 DEF Aside, Touches, Holds, fd
  <2>2. f \in Fd => (Counted(f)' <=> Counted(f))
    BY <1>3, <1>5, <2>1 DEF Aside, Counted, Same, Touches, Holds
  <2> QED
    BY <1>4, <1>5, <2>2, CountStays DEF Aside
<1>6. ASSUME worker[w].at \in Owning, f \notin astray
      PROVE  /\ f \in Fd /\ conn[f] # None
             /\ Counted(f) <=> worker[w].at \notin {"init", "close"}
             /\ conn'[f] = conn[f] => (Counted(f)' <=> worker'[w].at \notin {"init", "close"})
  <2>1. /\ f \in Fd /\ conn[f] # None /\ Holds(w, f)
        /\ \A v \in Worker : v # w => ~Holds(v, f)
    BY <1>1, <1>2, <1>6, Holder1
  <2>2. Counted(f) <=> worker[w].at \notin {"init", "close"}
    BY <2>1 DEF Counted
  <2>3. /\ \A v \in Worker : v # w => ~Holds(v, f)'
        /\ Holds(w, f)' <=> worker'[w].at \in Owning
    BY <1>3, <2>1, HoldsThen
  <2>4. conn'[f] = conn[f] => (Counted(f)' <=> worker'[w].at \notin {"init", "close"})
    BY <2>1, <2>3 DEF Counted, Owning
  <2> QED
    BY <2>1, <2>2, <2>4
<1>7. CASE Works(w)
  <2>1. worker[w].at \in Owning /\ f \notin astray /\ conn' = conn /\ astray' = astray
    BY <1>2, <1>7 DEF Works
  <2>2. CASE event' = event /\ worker[w].at \notin {"init", "close"} /\ worker'[w].at \notin {"init", "close"}
    BY <1>4, <1>6, <2>1, <2>2, CountStays
  <2>3. CASE worker[w].at = "init" /\ worker'[w].at = "eventadd" /\ event' = event + 1
    <3>1. f \in Fd /\ ~Counted(f) /\ Counted(f)'
      BY <1>6, <2>1, <2>3
    <3> QED
      BY <1>4, <2>1, <2>3, <3>1, CountMoves
  <2>4. CASE worker[w].at = "eventdel" /\ worker'[w].at = "close" /\ event' = event - 1
    <3>1. f \in Fd /\ Counted(f) /\ ~Counted(f)'
      BY <1>6, <2>1, <2>4
    <3> QED
      BY <1>4, <2>1, <2>4, <3>1, CountMoves
  <2> QED
    BY <1>7, <2>2, <2>3, <2>4 DEF Works
<1>8. CASE Arms(w)
  <2>1. /\ worker[w].at \in Owning \ {"init", "close"} /\ worker'[w].at \notin Owning
        /\ f \notin astray /\ conn' = conn /\ UNCHANGED <<event, astray>>
    BY <1>2, <1>8 DEF Arms
  <2>2. worker'[w].at \notin {"init", "close"}
    BY <2>1 DEF Owning
  <2> QED
    BY <1>4, <1>6, <2>1, <2>2, CountStays
<1>9. CASE Closes(w)
  <2>1. /\ worker[w].at = "close" /\ worker[w].at \in Owning /\ f \notin astray /\ conn'[f] = None
        /\ UNCHANGED <<event, astray>>
    BY <1>2, <1>9 DEF Closes, Owning
  <2>2. ~Counted(f) /\ ~Counted(f)'
    BY <1>6, <2>1 DEF Counted
  <2> QED
    BY <1>4, <2>1, <2>2, CountStays
<1>10. CASE Loses(w)
  <2>1. astray' # {} /\ astray \subseteq astray'
    BY <1>10 DEF Loses
  <2> QED
    BY <2>1, CountStays
<1> QED
  BY <1>1, <1>5, <1>7, <1>8, <1>9, <1>10, StepKinds

LEMMA CountNext ==
  ASSUME CountInv, [Next]_vars
  PROVE  CountInv'
<1>1. HoldInv /\ HoldInv'
  BY HoldNext DEF CountInv
<1>2. ASSUME UNCHANGED <<conn, worker, event, astray>>
      PROVE  CountInv'
  <2>1. \A f \in Fd : Counted(f)' <=> Counted(f)
    BY <1>2 DEF Counted, Holds, fd
  <2> QED
    BY <1>1, <1>2, <2>1, CountStays
<1>3. CASE MainDispatch \/ EpollWait \/ UNCHANGED vars
  BY <1>2, <1>3 DEF MainDispatch, EpollWait, vars, kernel, counts
<1>4. ASSUME NEW c \in Client, Connect(c) \/ SendMessage(c) \/ HangUp(c) \/ BreakDown(c)
      PROVE  CountInv'
  BY <1>2, <1>4 DEF Connect, SendMessage, HangUp, BreakDown, counts
<1>5. ASSUME NEW f \in Fd, Dispatch(f)
      PROVE  CountInv'
  BY <1>2, <1>5 DEF Dispatch, kernel, counts
<1>6. ASSUME NEW w \in Worker, NEW f \in Fd, Start(w, f)
      PROVE  CountInv'
  <2>1. /\ Touches(w, f) /\ Queued(f) /\ worker'[w].at \in {"read", "send"} /\ worker[w].at \notin Owning
        /\ UNCHANGED <<conn, event, astray>>
    BY <1>1, <1>6, StartTouches
  <2>2. ASSUME f \notin astray
        PROVE  Counted(f)' <=> Counted(f)
    <3>1. \A v \in Worker : ~Holds(v, f)
      BY <1>1, <2>1, <2>2, InvParts DEF HeldOnce
    <3>2. \A v \in Worker : Holds(v, f)' => v = w
      BY <2>1, <3>1, HoldsThen
    <3> QED
      BY <2>1, <3>1, <3>2 DEF Counted
  <2> QED
    BY <1>1, <2>1, <2>2, CountElsewhere, CountStays
<1>7. ASSUME NEW w \in Worker, StartAccept(w)
      PROVE  CountInv'
  <2>1. Touches(w, None) /\ UNCHANGED <<event, astray>>
    BY <1>1, <1>7, StartAcceptTouches
  <2>2. \A g \in Fd : Counted(g)' <=> Counted(g)
    BY <2>1, CountElsewhere, NoneIsNone
  <2> QED
    BY <1>1, <2>1, <2>2, CountStays
<1>8. ASSUME NEW w \in Worker, NEW c \in Client, NEW f \in Fd, Accept(w, c, f)
      PROVE  CountInv'
  <2>1. /\ Touches(w, f) /\ worker'[w].at = "init" /\ conn[f] = None
        /\ UNCHANGED <<event, astray>>
    BY <1>1, <1>8, AcceptTouches
  <2>2. Holds(w, f)'
    BY <2>1, HoldsThen DEF Owning
  <2>3. ~Counted(f) /\ ~Counted(f)'
    BY <2>1, <2>2 DEF Counted
  <2> QED
    BY <1>1, <2>1, <2>3, CountElsewhere, CountStays
<1>9. ASSUME NEW w \in Worker, Step(w)
      PROVE  CountInv'
  BY <1>1, <1>9, CountStep
<1> QED
  BY <1>3, <1>4, <1>5, <1>6, <1>7, <1>8, <1>9 DEF Next

(* As long as no slot is astray, the count by which find_epfd chooses an   *)
(* epoll instance is the number of its connections.                        *)
THEOREM EventCountIsTrue == Spec => []CountIsTrue
<1>1. Init => CountInv
  <2>1. SUFFICES ASSUME Init PROVE event = Cardinality({f \in Fd : Counted(f)})
    BY HoldInit DEF CountInv
  <2>2. {f \in Fd : Counted(f)} = {} /\ event = 0
    BY <2>1 DEF Init, Counted
  <2> QED
    BY <2>2, FS_EmptySet
<1>2. CountInv /\ [Next]_vars => CountInv'
  BY CountNext
<1>3. CountInv => CountIsTrue
  BY DEF CountInv, CountIsTrue, Counted
<1> QED
  BY <1>1, <1>2, <1>3, PTL DEF Spec

-----------------------------------------------------------------------------
(* Connection implements OneShot: every step passes a connection on, has   *)
(* epoll report some, or leaves every holder alone.                        *)
LEMMA HolderFrame ==
  ASSUME NEW f \in Fd, Same(f), f \in astray' <=> f \in astray,
         \A v \in Worker : Holds(v, f)' <=> Holds(v, f),
         \A v \in Worker : Holds(v, f) => (worker'[v].at \in Accepting <=> worker[v].at \in Accepting)
  PROVE  Holder(f)' = Holder(f)
<1>1. Queued(f)' <=> Queued(f)
  BY DEF Queued, Same
<1>2. \A v \in Worker : (Holds(v, f) /\ worker[v].at \in {"init", "eventadd"})'
                        <=> Holds(v, f) /\ worker[v].at \in {"init", "eventadd"}
  BY DEF Accepting
<1> QED
  BY <1>1, <1>2 DEF Holder, Same

LEMMA HolderElsewhere ==
  ASSUME NEW w \in Worker, NEW f, Touches(w, f), NEW g \in Fd \ {f}
  PROVE  Holder(g)' = Holder(g)
<1>1. \A v \in Worker : (Holds(v, g)' <=> Holds(v, g)) /\ ~Holds(w, g)
  BY HoldsThen
<1>2. Same(g) /\ (g \in astray' <=> g \in astray) /\ \A v \in Worker \ {w} : worker'[v] = worker[v]
  BY DEF Touches, Elsewhere
<1> QED
  BY <1>1, <1>2, HolderFrame

LEMMA HolderIs ==
  ASSUME HoldInv, NEW f \in Fd \ astray
  PROVE  /\ conn[f] = None => Holder(f) = "none"
         /\ armed[f] # {} => Holder(f) = "epoll"
         /\ reported[f] # {} => Holder(f) = "reactor"
         /\ Queued(f) => Holder(f) = "pool"
         /\ \A w \in Worker : Holds(w, f) =>
              Holder(f) = IF worker[w].at \in Accepting THEN "acceptor" ELSE "worker"
<1>1. HeldOnce(f)
  BY InvParts
<1>2. conn[f] = None => Holder(f) = "none"
  BY <1>1 DEF HeldOnce, Holder
<1>3. /\ armed[f] # {} => Holder(f) = "epoll"
      /\ reported[f] # {} => Holder(f) = "reactor"
      /\ Queued(f) => Holder(f) = "pool"
  BY <1>1 DEF HeldOnce, Holder
<1>4. ASSUME NEW w \in Worker, Holds(w, f)
      PROVE  Holder(f) = IF worker[w].at \in Accepting THEN "acceptor" ELSE "worker"
  <2>1. armed[f] = {} /\ reported[f] = {} /\ ~Queued(f) /\ \A v \in Worker : Holds(v, f) => v = w
    BY <1>1, <1>4 DEF HeldOnce
  <2> QED
    BY <1>4, <2>1 DEF Holder, Accepting
<1> QED
  BY <1>2, <1>3, <1>4

LEMMA PassesOn ==
  ASSUME NEW f \in Fd, \A g \in Fd \ {f} : Holder(g)' = Holder(g),
         \/ Holder(f) = "none" /\ Holder(f)' = "acceptor"
         \/ Holder(f) = "acceptor" /\ Holder(f)' = "epoll"
         \/ Holder(f) = "reactor" /\ Holder(f)' = "pool"
         \/ Holder(f) = "pool" /\ Holder(f)' = "worker"
         \/ Holder(f) = "worker" /\ Holder(f)' \in {"epoll", "none", "astray"}
  PROVE  Turn!Next
<1>1. [g \in Fd |-> Holder(g)]' = [[g \in Fd |-> Holder(g)] EXCEPT ![f] = Holder(f)']
  OBVIOUS
<1>2. \A from, to : Holder(f) = from /\ Holder(f)' = to => Turn!Pass(f, from, to)
  BY <1>1 DEF Turn!Pass
<1> QED
  BY <1>2 DEF Turn!Next

Stutters == [f \in Fd |-> Holder(f)]' = [f \in Fd |-> Holder(f)]

LEMMA StutterAll ==
  ASSUME \A f \in Fd : Holder(f)' = Holder(f)
  PROVE  Stutters
BY DEF Stutters

LEMMA StepTurn ==
  ASSUME HoldInv, HoldInv', NEW w \in Worker, Step(w)
  PROVE  Turn!Next \/ Stutters
<1>1. PICK f : f = fd(w)
  OBVIOUS
<1>2. Touches(w, f)
  BY <1>1, StepTouches
<1>3. \A g \in Fd \ {f} : Holder(g)' = Holder(g)
  BY <1>2, HolderElsewhere
<1>4. CASE Aside(w)
  <2>1. \A v \in Worker, g \in Fd : (Holds(v, g)' <=> Holds(v, g)) /\ (Holds(v, g) => worker'[v] = worker[v])
    BY <1>2, <1>4 DEF Aside, Touches, Holds, fd
  <2>2. \A g \in Fd : Holder(g)' = Holder(g)
    BY <1>4, <2>1, HolderFrame DEF Aside
  <2> QED
    BY <2>2, StutterAll
<1>5. ASSUME worker[w].at \in Owning, f \notin astray
      PROVE  f \in Fd /\ Holder(f) = IF worker[w].at \in Accepting THEN "acceptor" ELSE "worker"
  <2>1. f \in Fd /\ Holds(w, f)
    BY <1>1, <1>5, Holder1
  <2> QED
    BY <1>5, <2>1, HolderIs
<1>6. CASE Works(w)
  <2>1. /\ worker[w].at \in Owning /\ worker'[w].at \in Owning /\ f \notin astray /\ f \notin astray'
        /\ worker[w].at \in Accepting <=> worker'[w].at \in Accepting
    BY <1>1, <1>6 DEF Works
  <2>2. f \in Fd
    BY <1>5, <2>1
  <2>3. Holds(w, f)'
    BY <1>2, <2>1, <2>2, HoldsThen
  <2>4. HeldOnce(f)'
    BY <2>1, <2>2 DEF HoldInv, Kept
  <2>5. Holder(f)' = IF worker'[w].at \in Accepting THEN "acceptor" ELSE "worker"
    BY <2>1, <2>3, <2>4 DEF HeldOnce, Holder, Accepting
  <2> QED
    BY <1>3, <1>5, <2>1, <2>5, StutterAll
<1>7. CASE Arms(w)
  <2>1. worker[w].at \in Owning /\ f \notin astray /\ f \notin astray' /\ armed'[f] # {}
    BY <1>1, <1>7 DEF Arms
  <2>2. Holder(f)' = "epoll"
    BY <2>1 DEF Holder
  <2> QED
    BY <1>3, <1>5, <2>1, <2>2, PassesOn
<1>8. CASE Closes(w)
  <2>1. worker[w].at \in Owning /\ worker[w].at \notin Accepting /\ f \notin astray /\ f \notin astray' /\ conn'[f] = None
    BY <1>1, <1>8 DEF Closes, Owning, Accepting
  <2>2. f \in Fd /\ HeldOnce(f)'
    BY <1>5, <2>1 DEF HoldInv, Kept
  <2>3. Holder(f)' = "none"
    BY <2>1, <2>2 DEF HeldOnce, Holder
  <2> QED
    BY <1>3, <1>5, <2>1, <2>3, PassesOn
<1>9. CASE Loses(w)
  <2>1. f \in astray' /\ Holder(f)' = "astray" /\ worker[w].at \in Owning
    BY <1>1, <1>9 DEF Loses, Holder
  <2>2. CASE f \in astray
    <3>1. Holder(f) = "astray"
      BY <2>2 DEF Holder
    <3> QED
      BY <1>3, <2>1, <3>1, StutterAll
  <2>3. CASE f \notin astray
    <3>1. worker[w].at \notin Accepting
      BY <1>1, <1>9, <2>3 DEF Loses
    <3> QED
      BY <1>3, <1>5, <2>1, <2>3, <3>1, PassesOn
  <2> QED
    BY <2>2, <2>3
<1> QED
  BY <1>4, <1>6, <1>7, <1>8, <1>9, StepKinds

LEMMA EpollWaitTurn ==
  ASSUME HoldInv, EpollWait
  PROVE  Turn!Next
<1>1. /\ \A f \in Fd : reported[f] = {} /\ reported'[f] = Ready(f)
      /\ \A f \in Fd : armed'[f] = IF Ready(f) = {} THEN armed[f] ELSE {}
      /\ UNCHANGED <<conn, tasks, worker, call_back, m_events, astray>>
  BY DEF EpollWait, kernel, slots
<1>2. ASSUME NEW f \in Fd \ astray, Ready(f) # {}
      PROVE  Holder(f) = "epoll" /\ Holder(f)' = "reactor"
  <2>1. armed[f] # {}
    BY <1>2 DEF Ready
  <2> QED
    BY <1>1, <1>2, <2>1 DEF Holder
<1>3. ASSUME NEW f \in Fd, f \in astray \/ Ready(f) = {}
      PROVE  Holder(f)' = Holder(f)
  <2>1. CASE f \in astray
    BY <1>1, <2>1 DEF Holder
  <2>2. CASE Ready(f) = {}
    <3>1. Same(f)
      BY <1>1, <2>2 DEF Same
    <3> QED
      BY <1>1, <3>1, HolderFrame DEF Holds, fd
  <2> QED
    BY <1>3, <2>1, <2>2
<1>4. PICK S \in SUBSET Fd : S = {f \in Fd \ astray : Ready(f) # {}}
  OBVIOUS
<1>5. [f \in Fd |-> Holder(f)]' = [f \in Fd |-> IF f \in S THEN "reactor" ELSE [g \in Fd |-> Holder(g)][f]]
  BY <1>2, <1>3, <1>4
<1>6. Turn!Report(S)
  BY <1>2, <1>4, <1>5 DEF Turn!Report
<1> QED
  BY <1>6 DEF Turn!Next

LEMMA NextTurns ==
  ASSUME HoldInv, [Next]_vars
  PROVE  Turn!Next \/ Stutters
<1>1. HoldInv'
  BY HoldNext
<1>2. ASSUME UNCHANGED <<conn, armed, reported, tasks, worker, call_back, m_events, astray>>
      PROVE  Stutters
  <2>1. ASSUME NEW f \in Fd
        PROVE  Holder(f)' = Holder(f)
    BY <1>2, HolderFrame DEF Holds, fd, Same
  <2> QED
    BY <2>1, StutterAll
<1>3. CASE MainDispatch \/ UNCHANGED vars
  BY <1>2, <1>3 DEF MainDispatch, vars, kernel, loops, slots
<1>4. ASSUME NEW c \in Client, Connect(c) \/ SendMessage(c) \/ HangUp(c) \/ BreakDown(c)
      PROVE  Stutters
  BY <1>2, <1>4 DEF Connect, SendMessage, HangUp, BreakDown, loops, slots
<1>5. CASE EpollWait
  BY <1>5, EpollWaitTurn
<1>6. ASSUME NEW f \in Fd, Dispatch(f)
      PROVE  Turn!Next \/ Stutters
  <2>1. /\ UNCHANGED <<conn, armed, worker, call_back, m_events, astray>>
        /\ \A g \in Fd \ {f} : reported'[g] = reported[g] /\ tasks'[g] = tasks[g]
    BY <1>6, DispatchPasses
  <2>2. ASSUME NEW g \in Fd \ {f}
        PROVE  Holder(g)' = Holder(g)
    BY <2>1, HolderFrame DEF Holds, fd, Same
  <2>3. CASE f \in astray
    <3>1. Holder(f)' = Holder(f)
      BY <2>1, <2>3 DEF Holder
    <3> QED
      BY <2>2, <3>1, StutterAll
  <2>4. CASE f \notin astray
    <3>1. reported[f] # {} /\ reported'[f] = {} /\ Queued(f)'
      BY <1>6, <2>4, DispatchPasses
    <3>2. armed[f] = {} /\ Holder(f) = "reactor"
      BY <2>4, <3>1, HolderIs, InvParts DEF HeldOnce
    <3>3. Holder(f)' = "pool"
      BY <2>1, <2>4, <3>1, <3>2 DEF Holder
    <3> QED
      BY <2>2, <3>2, <3>3, PassesOn
  <2> QED
    BY <2>3, <2>4
<1>7. ASSUME NEW w \in Worker, NEW f \in Fd, Start(w, f)
      PROVE  Turn!Next \/ Stutters
  <2>1. Touches(w, f) /\ worker'[w].at \in {"read", "send"} /\ astray' = astray /\ Queued(f)
    BY <1>7, StartTouches
  <2>2. \A g \in Fd \ {f} : Holder(g)' = Holder(g)
    BY <2>1, HolderElsewhere
  <2>3. CASE f \in astray
    <3>1. Holder(f)' = Holder(f)
      BY <2>1, <2>3 DEF Holder
    <3> QED
      BY <2>2, <3>1, StutterAll
  <2>4. CASE f \notin astray
    <3>1. Holder(f) = "pool"
      BY <2>1, <2>4, HolderIs
    <3>2. Holds(w, f)' /\ worker'[w].at \notin {"init", "eventadd"}
      BY <2>1, HoldsThen DEF Owning
    <3>3. HeldOnce(f)'
      BY <1>1, <2>1, <2>4 DEF HoldInv, Kept
    <3>4. Holder(f)' = "worker"
      BY <2>1, <2>4, <3>2, <3>3 DEF HeldOnce, Holder
    <3> QED
      BY <2>2, <3>1, <3>4, PassesOn
  <2> QED
    BY <2>3, <2>4
<1>8. ASSUME NEW w \in Worker, StartAccept(w)
      PROVE  Stutters
  <2>1. Touches(w, None)
    BY <1>8, StartAcceptTouches
  <2>2. \A g \in Fd : Holder(g)' = Holder(g)
    BY <2>1, HolderElsewhere, NoneIsNone
  <2> QED
    BY <2>2, StutterAll
<1>9. ASSUME NEW w \in Worker, NEW c \in Client, NEW f \in Fd, Accept(w, c, f)
      PROVE  Turn!Next \/ Stutters
  <2>1. Touches(w, f) /\ worker'[w].at = "init" /\ conn[f] = None /\ astray' = astray
    BY <1>9, AcceptTouches
  <2>2. \A g \in Fd \ {f} : Holder(g)' = Holder(g)
    BY <2>1, HolderElsewhere
  <2>3. CASE f \in astray
    <3>1. Holder(f)' = Holder(f)
      BY <2>1, <2>3 DEF Holder
    <3> QED
      BY <2>2, <3>1, StutterAll
  <2>4. CASE f \notin astray
    <3>1. Holder(f) = "none"
      BY <2>1, <2>4, HolderIs
    <3>2. Holds(w, f)' /\ worker'[w].at \in {"init", "eventadd"}
      BY <2>1, HoldsThen DEF Owning
    <3>3. HeldOnce(f)'
      BY <1>1, <2>1, <2>4 DEF HoldInv, Kept
    <3>4. Holder(f)' = "acceptor"
      BY <2>1, <2>4, <3>2, <3>3 DEF HeldOnce, Holder
    <3> QED
      BY <2>2, <3>1, <3>4, PassesOn
  <2> QED
    BY <2>3, <2>4
<1>10. ASSUME NEW w \in Worker, Step(w)
       PROVE  Turn!Next \/ Stutters
  BY <1>1, <1>10, StepTurn
<1> QED
  BY <1>3, <1>4, <1>5, <1>6, <1>7, <1>8, <1>9, <1>10 DEF Next

(* A connection passes from one holder to the next only in the order of    *)
(* OneShot: from the acceptor to epoll, the sub reactor, the pool, one     *)
(* worker, and back to epoll, or closed, or astray.                        *)
THEOREM ConnectionsTakeTurns == Spec => OneShotSpec
<1>1. Init => Turn!Init
  <2>1. SUFFICES ASSUME Init PROVE \A f \in Fd : Holder(f) = "none"
    BY DEF Turn!Init
  <2>2. HoldInv /\ astray = {} /\ \A f \in Fd : conn[f] = None
    BY <2>1, HoldInit DEF Init
  <2> QED
    BY <2>2, HolderIs
<1>2. HoldInv /\ [Next]_vars => HoldInv'
  BY HoldNext
<1>3. HoldInv /\ [Next]_vars => [Turn!Next]_([f \in Fd |-> Holder(f)])
  BY NextTurns DEF Stutters
<1> QED
  BY HoldInit, <1>1, <1>2, <1>3, PTL DEF Spec, OneShotSpec, Turn!Spec
=============================================================================
