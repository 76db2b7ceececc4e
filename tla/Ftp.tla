-------------------------------- MODULE Ftp --------------------------------
(***************************************************************************)
(* File transfers (src/lyserver/src/FTP/ftp.cpp and, in reactor/           *)
(* reactor.cpp, filedata_acceptconnect and handle_fileevent).  A session   *)
(* has a control connection, whose messages one worker at a time handles   *)
(* in FTP::parse_, and for each transfer a data connection, its link.  The *)
(* server keeps what it knows of an upload and of a download in static     *)
(* variables, and the link in the one slot filedata_event.                 *)
(*                                                                         *)
(* A client asks for a transfer, opens a link when the server has answered *)
(* and it has none, and then sends the bytes (STOR) or says ALLO and reads *)
(* them (RETR), and MSG_SUCCESSED at the end.  A byte is known by the      *)
(* session that sends it.                                                  *)
(*                                                                         *)
(* A link is a Socket that shared_ptrs point to: the slot's, the one the   *)
(* accept handler has just got, and the copy that parse_ works with.  It   *)
(* is closed with the last of them.  A step that would follow the null     *)
(* pointer of an empty slot ends the process; here its thread stops there. *)
(***************************************************************************)
EXTENDS Integers, Sequences

CONSTANTS
  Session,     \* the clients
  MaxSize,     \* bound: bytes of a file
  MaxJobs,     \* bound: transfers asked for
  MaxOut,      \* room of the socket's send buffer
  IntRange,    \* an int holds -IntRange .. IntRange - 1; MaxSize < 2 * IntRange
  DiskFails,   \* whether opening, writing, closing or reading a file may fail
  None         \* no session

VARIABLES
  calm,        \* never changes: one client only, it gives nothing up, no file fails
  phase,       \* each client: "idle", "asked", "ready", "moving"
  kind, size,  \* its transfer: "STOR" or "RETR", and the bytes of the file
  left,        \* bytes it has yet to send, or has been told of and not received
  jobs,        \* transfers asked for
  control,     \* its messages that have not been handled
  reply,       \* the server's answer it has not seen, or "none"
  link,        \* its data connection: "none", "backlog", "up", "closed" by it
  inward, outward,            \* bytes on the data connection, each way
  stored,      \* the file of its upload: who sent each byte
  filesize, filerecv, file,   \* dc2s: the size told, received, whose FILE is open
  m_fd,        \* who is told that an upload is complete
  FileSize, file_fd, filePos, \* ds2c: bytes to send, whose FILE is open, its position
  parser,      \* parser[s], the worker of a message: what it does, its copy of the
               \* slot's pointer, bytes sent
  slot,        \* filedata_event: whose link it holds
  m_status,    \* ... is on the tree of epoll
  watched,     \* links epoll watches
  accepting, taken,           \* filedata_acceptconnect: what is next, and the new link
  reading,     \* a worker is in the loop of handle_fileevent, which reads the link
  ending       \* ... "no", or one has read 0 ("end") and called eventdel ("clear")

client == <<phase, kind, size, left, jobs>>
wires == <<control, reply, link, inward, outward>>
dc2s == <<filesize, filerecv, file>>
ds2c == <<FileSize, file_fd, filePos>>
event == <<slot, m_status, watched>>
acceptor == <<accepting, taken>>
reader == <<reading, ending>>
vars == <<calm, client, wires, stored, dc2s, m_fd, ds2c, parser, event, acceptor, reader>>

Only == CHOOSE s \in Session : TRUE
MayFail == DiskFails /\ ~calm
Doing(what, sock, sendSize) == [at |-> what, sock |-> sock, sendSize |-> sendSize]
Idle == Doing("idle", None, 0)
Parse(s, p) == parser' = [parser EXCEPT ![s] = p]
Say(s, msg) == control' = [control EXCEPT ![s] = Append(@, msg)]
Goto(s, p) == phase' = [phase EXCEPT ![s] = p]
Reply(s, code) == reply' = IF s = None THEN reply ELSE [reply EXCEPT ![s] = code]

Init ==
  /\ calm \in BOOLEAN
  /\ phase = [s \in Session |-> "idle"] /\ kind = [s \in Session |-> "STOR"]
  /\ size = [s \in Session |-> 0] /\ left = size /\ jobs = 0
  /\ control = [s \in Session |-> << >>] /\ reply = [s \in Session |-> "none"]
  /\ link = [s \in Session |-> "none"] /\ inward = size /\ outward = size
  /\ stored = [s \in Session |-> << >>]
  /\ filesize = 0 /\ filerecv = 0 /\ file = None /\ m_fd = None
  /\ FileSize = 0 /\ file_fd = None /\ filePos = 0
  /\ parser = [s \in Session |-> Idle]
  /\ slot = None /\ m_status = FALSE /\ watched = {}
  /\ accepting = "accept" /\ taken = None /\ reading = FALSE /\ ending = "no"

-----------------------------------------------------------------------------
(* The client *)

\* A file may be empty: then no byte is sent, and the server answers no more.
Ask(s) ==
  /\ phase[s] = "idle" /\ jobs < MaxJobs
  /\ calm => s = Only
  /\ jobs' = jobs + 1
  /\ \E k \in {"STOR", "RETR"}, n \in 0..MaxSize :
       /\ calm => n < IntRange
       /\ kind' = [kind EXCEPT ![s] = k] /\ Say(s, k)
       /\ size' = [size EXCEPT ![s] = n] /\ left' = [left EXCEPT ![s] = n]
  /\ stored' = [stored EXCEPT ![s] = << >>]       \* a file of its own
  /\ Goto(s, "asked")
  /\ UNCHANGED <<reply, link, inward, outward, dc2s, m_fd, ds2c, parser, event, acceptor,
                 reader>>

\* Code 220 or 150: go ahead; 200: stored; 550: no such file.
SeeReply(s) ==
  /\ reply[s] # "none"
  /\ Goto(s, IF reply[s] \in {"220", "150"} THEN "ready" ELSE "idle")
  /\ reply' = [reply EXCEPT ![s] = "none"]
  /\ UNCHANGED <<kind, size, left, jobs, control, link, inward, outward, stored, dc2s, m_fd,
                 ds2c, parser, event, acceptor, reader>>

Connect(s) ==
  /\ phase[s] = "ready" /\ link[s] = "none"
  /\ link' = [link EXCEPT ![s] = "backlog"]
  /\ UNCHANGED <<client, control, reply, inward, outward, stored, dc2s, m_fd, ds2c, parser,
                 event, acceptor, reader>>

SendBytes(s) ==
  /\ phase[s] = "ready" /\ kind[s] = "STOR" /\ link[s] \in {"backlog", "up"}
  /\ \E n \in 1..left[s] :
       /\ left' = [left EXCEPT ![s] = @ - n]
       /\ inward' = [inward EXCEPT ![s] = @ + n]
  /\ UNCHANGED <<phase, kind, size, jobs, control, reply, link, outward, stored, dc2s, m_fd,
                 ds2c, parser, event, acceptor, reader>>

SayAllo(s) ==
  /\ phase[s] = "ready" /\ kind[s] = "RETR" /\ link[s] \in {"backlog", "up"}
  /\ Say(s, "ALLO") /\ Goto(s, "moving")
  /\ UNCHANGED <<kind, size, left, jobs, reply, link, inward, outward, stored, dc2s, m_fd,
                 ds2c, parser, event, acceptor, reader>>

ReceiveBytes(s) ==
  /\ phase[s] = "moving" /\ outward[s] > 0
  /\ left' = [left EXCEPT ![s] = IF outward[s] > @ THEN 0 ELSE @ - outward[s]]
  /\ outward' = [outward EXCEPT ![s] = 0]
  /\ IF left'[s] > 0 THEN UNCHANGED <<phase, control>>
     ELSE Say(s, "MSG_SUCCESSED") /\ Goto(s, "idle")
  /\ UNCHANGED <<kind, size, jobs, reply, link, inward, stored, dc2s, m_fd, ds2c, parser,
                 event, acceptor, reader>>

\* Giving a transfer up: ABOR, or just closing the data connection.
Abort(s) ==
  /\ ~calm /\ phase[s] \in {"ready", "moving"} /\ left[s] > 0
  /\ \/ link[s] \in {"backlog", "up"} /\ Say(s, "ABOR") /\ UNCHANGED link
     \/ link[s] = "up" /\ link' = [link EXCEPT ![s] = "closed"] /\ UNCHANGED control
  /\ Goto(s, "idle")
  /\ UNCHANGED <<kind, size, left, jobs, reply, inward, outward, stored, dc2s, m_fd, ds2c,
                 parser, event, acceptor, reader>>

-----------------------------------------------------------------------------
(* The data connection *)

\* Some shared_ptr points to the link.
Held(s) == s \in {slot, taken} \/ \E t \in Session : parser[t].sock = s

\* Links that nothing points to any more are closed: what was on them is lost, and
\* epoll forgets them.
CloseUnheld ==
  LET gone == {s \in Session : link[s] \in {"up", "closed"} /\ ~Held(s)'} IN
  /\ link' = [s \in Session |-> IF s \in gone THEN "none" ELSE link[s]]
  /\ inward' = [s \in Session |-> IF s \in gone THEN 0 ELSE inward[s]]
  /\ outward' = [s \in Session |-> IF s \in gone THEN 0 ELSE outward[s]]
  /\ watched' = watched \ gone

\* Mutant: init does not take the event off the tree.
AcceptOnTree(s) ==
  /\ accepting = "accept" /\ accepting' = "set"
  /\ link[s] = "backlog" /\ link' = [link EXCEPT ![s] = "up"]
  /\ taken' = s
  /\ UNCHANGED <<client, control, reply, inward, outward, stored, dc2s, m_fd, ds2c, parser,
                 event, reader>>

\* filedata_acceptconnect: accept and filedata_event.init, ...
Accept(s) ==
  /\ accepting = "accept" /\ accepting' = "set"
  /\ link[s] = "backlog" /\ link' = [link EXCEPT ![s] = "up"]
  /\ taken' = s /\ m_status' = FALSE
  /\ UNCHANGED <<client, control, reply, inward, outward, stored, dc2s, m_fd, ds2c, parser,
                 slot, watched, reader>>

\* ... Myev_set, whatever the slot holds, ...
SetSlot ==
  /\ accepting = "set" /\ accepting' = "add"
  /\ slot' = taken
  /\ UNCHANGED <<client, control, reply, stored, dc2s, m_fd, ds2c, parser, m_status, taken,
                 reader>>
  /\ CloseUnheld

\* ... and eventadd, which does nothing for an event that is on the tree.
AddEvent ==
  /\ accepting = "add" /\ accepting' = "accept"
  /\ slot # None
  /\ taken' = None
  /\ m_status' = TRUE /\ watched' = IF m_status THEN watched ELSE watched \cup {slot}
  /\ UNCHANGED <<client, wires, stored, dc2s, m_fd, ds2c, parser, slot, reader>>

\* free_client_resources: eventdel, which does nothing for an event that is not on
\* the tree, and, as a step of its own, clear.
EventDel == m_status' = FALSE /\ watched' = IF m_status THEN watched \ {slot} ELSE watched
ClearSlot == slot # None /\ slot' = None /\ m_status' = FALSE

\* Mutant: one byte before the end is near enough.
CompleteSoon(received) == received >= filesize - 1
Complete(received) == received >= filesize

\* Mutant: the count goes on from file to file.
CountOn(received) == received
CountAfter(received) == IF Complete(received) THEN 0 ELSE received

\* What becomes of n bytes that are written: how many get into the file, and
\* whether fwrite says that all have.  What it has in its buffer may be lost when
\* the FILE is closed.  A FILE that is closed, or could not be opened, takes
\* nothing, if the process survives it.
Written(n, kept, whole) ==
  /\ kept <= n /\ (~whole => kept < n)
  /\ ~MayFail /\ file # None => kept = n
  /\ file = None => kept = 0 /\ ~whole
  /\ kept = n => whole

\* epoll wakes a worker for a link it watches; the worker reads the link in the slot.
Reads == slot # None /\ (reading \/ \E s \in watched : inward[s] > 0 \/ link[s] = "closed")

\* client_2_server_recvFile of what handle_fileevent has read.
RecvFile ==
  /\ Reads /\ inward[slot] > 0
  /\ reading' = TRUE
  /\ \E n \in 1..inward[slot] : \E kept \in 0..n, whole \in BOOLEAN :
       LET received == IF whole THEN filerecv + n ELSE filerecv IN
       /\ Written(n, kept, whole)
       /\ inward' = [inward EXCEPT ![slot] = @ - n]
       /\ stored' = IF file = None THEN stored
                    ELSE [stored EXCEPT ![file] = @ \o [i \in 1..kept |-> slot]]
       /\ IF Complete(received)
          THEN filesize' = 0 /\ file' = None /\ Reply(m_fd, "200")
          ELSE UNCHANGED <<filesize, file, reply>>
       /\ filerecv' = CountAfter(received)
  /\ UNCHANGED <<client, control, link, outward, m_fd, ds2c, parser, event, acceptor, ending>>

\* EAGAIN: the loop ends with reset_oneshot.
ReadAll ==
  /\ reading /\ reading' = FALSE
  /\ slot # None /\ link[slot] = "up" /\ inward[slot] = 0
  /\ UNCHANGED <<client, wires, stored, dc2s, m_fd, ds2c, parser, event, acceptor, ending>>

\* It reads 0 (bound: one worker at a time does) ...
ReadEnd ==
  /\ Reads /\ link[slot] = "closed" /\ inward[slot] = 0
  /\ ending = "no" /\ ending' = "end" /\ reading' = FALSE
  /\ UNCHANGED <<client, wires, stored, dc2s, m_fd, ds2c, parser, event, acceptor>>

\* ... and frees the slot, whatever it holds by now.
DeleteAtEnd ==
  /\ ending = "end" /\ ending' = "clear"
  /\ EventDel
  /\ UNCHANGED <<client, wires, stored, dc2s, m_fd, ds2c, parser, slot, acceptor, reading>>

ClearAtEnd ==
  /\ ending = "clear" /\ ending' = "no"
  /\ ClearSlot
  /\ UNCHANGED <<client, control, reply, stored, dc2s, m_fd, ds2c, parser, acceptor, reading>>
  /\ CloseUnheld

-----------------------------------------------------------------------------
(* The control connection: FTP::parse_ *)

\* A worker takes the next message of a session when it is done with the last.
NextMessage(s, msg) ==
  /\ control[s] # << >> /\ Head(control[s]) = msg
  /\ parser[s] = Idle
  /\ control' = [control EXCEPT ![s] = Tail(@)]

\* client_2_server_ready_read: filerecv stays what it is, and the answer the same
\* when the file could not be opened.  A size that is no int makes Json::asInt
\* throw, which ends the process: here the worker stops.
HandleStor(s) ==
  /\ NextMessage(s, "STOR")
  /\ size[s] < IntRange
  /\ filesize' = size[s]
  /\ file' = s \/ (MayFail /\ file' = None)
  /\ Reply(s, "220")
  /\ Parse(s, Doing("setFd", slot, 0))
  /\ UNCHANGED <<client, link, inward, outward, stored, filerecv, m_fd, ds2c, event,
                 acceptor, reader>>

SetFd(s) ==
  /\ parser[s].at = "setFd" /\ Parse(s, Idle)
  /\ m_fd' = s
  /\ UNCHANGED <<client, control, reply, stored, dc2s, ds2c, slot, m_status, acceptor,
                 reader>>
  /\ CloseUnheld

\* The size in code 150, an int: a client takes no bytes for a negative one.
Told(n) == IF n < IntRange THEN n ELSE 0

\* server_2_client_ready_file
HandleRetr(s) ==
  /\ NextMessage(s, "RETR")
  /\ \/ /\ FileSize' = size[s] /\ file_fd' = s /\ filePos' = 0
        /\ Reply(s, "150") /\ left' = [left EXCEPT ![s] = Told(size[s])]
     \/ file_fd' = None /\ Reply(s, "550") /\ UNCHANGED <<FileSize, filePos, left>>
  /\ UNCHANGED <<phase, kind, size, jobs, link, inward, outward, stored, dc2s, m_fd, parser,
                 event, acceptor, reader>>

\* ALLO: server_2_client_sendFile to whoever is in the slot; nothing when it is
\* empty.
HandleAllo(s) ==
  /\ NextMessage(s, "ALLO")
  /\ IF slot = None THEN UNCHANGED parser ELSE Parse(s, Doing("send", slot, 0))
  /\ UNCHANGED <<client, reply, link, inward, outward, stored, dc2s, m_fd, ds2c, event,
                 acceptor, reader>>

\* Mutant: the next bytes are read where the last reading has ended.
ReadOn(read, sent) == read
\* fseeko64: they are read behind those that have been sent.
SeekTo(read, sent) == sent

\* One turn of the loop: fread from the position on, send what the socket takes
\* of it, seek.  A full socket (EAGAIN) is waited for; at the end of the file the
\* loop goes round without a step.
SendChunk(s) ==
  LET to == parser[s].sock
      n == parser[s].sendSize IN
  /\ parser[s].at = "send" /\ n < FileSize /\ file_fd # None /\ link[to] = "up"
  /\ \E read \in 1..(FileSize - filePos) : \E m \in 1..read :
       /\ outward[to] + m <= MaxOut
       /\ outward' = [outward EXCEPT ![to] = @ + m]
       /\ Parse(s, Doing("send", to, n + m))
       /\ filePos' = SeekTo(filePos + read, n + m)
  /\ UNCHANGED <<client, control, reply, link, inward, stored, dc2s, m_fd, FileSize,
                 file_fd, event, acceptor, reader>>

\* The loop has sent all, or is left when reading fails (ferror).
SendDone(s) ==
  /\ parser[s].at = "send" /\ (parser[s].sendSize >= FileSize \/ MayFail)
  /\ file_fd' = None
  /\ Parse(s, Idle)
  /\ UNCHANGED <<client, control, reply, stored, dc2s, m_fd, FileSize, filePos, slot,
                 m_status, acceptor, reader>>
  /\ CloseUnheld

\* EPIPE: the client has closed; the FILE stays open.
SendFails(s) ==
  /\ parser[s].at = "send" /\ link[parser[s].sock] = "closed"
  /\ Parse(s, Idle)
  /\ UNCHANGED <<client, control, reply, stored, dc2s, m_fd, ds2c, slot, m_status, acceptor,
                 reader>>
  /\ CloseUnheld

\* ABOR, MSG_SUCCESSED: ftp_CallBack frees the slot.
HandleEnd(s) ==
  /\ \E msg \in {"ABOR", "MSG_SUCCESSED"} : NextMessage(s, msg)
  /\ EventDel
  /\ Parse(s, Doing("clear", None, 0))
  /\ UNCHANGED <<client, reply, link, inward, outward, stored, dc2s, m_fd, ds2c, slot,
                 acceptor, reader>>

Clear(s) ==
  /\ parser[s].at = "clear" /\ Parse(s, Idle)
  /\ ClearSlot
  /\ UNCHANGED <<client, control, reply, stored, dc2s, m_fd, ds2c, acceptor, reader>>
  /\ CloseUnheld

ClientStep(s) ==
  /\ SeeReply(s) \/ Connect(s) \/ SendBytes(s) \/ SayAllo(s) \/ ReceiveBytes(s)
  /\ UNCHANGED calm
ControlStep(s) ==
  /\ \/ HandleStor(s) \/ SetFd(s) \/ HandleRetr(s) \/ HandleAllo(s)
     \/ SendChunk(s) \/ SendDone(s) \/ SendFails(s) \/ HandleEnd(s) \/ Clear(s)
  /\ UNCHANGED calm
AcceptStep == ((\E s \in Session : Accept(s)) \/ SetSlot \/ AddEvent) /\ UNCHANGED calm
ReadStep == (RecvFile \/ ReadAll \/ ReadEnd \/ DeleteAtEnd \/ ClearAtEnd) /\ UNCHANGED calm

Next ==
  \/ \E s \in Session : (Ask(s) \/ Abort(s)) /\ UNCHANGED calm
  \/ \E s \in Session : ClientStep(s) \/ ControlStep(s)
  \/ AcceptStep \/ ReadStep

Spec == Init /\ [][Next]_vars

\* Workers and the main loop go on, and so does a client that is served; nobody
\* has to ask for a transfer, or to give one up, and a link is only read when
\* epoll watches it.
Fairness ==
  /\ \A s \in Session : WF_vars(ClientStep(s)) /\ WF_vars(ControlStep(s))
  /\ WF_vars(AcceptStep) /\ WF_vars(slot \in watched /\ ReadStep)
FairSpec == Spec /\ Fairness

-----------------------------------------------------------------------------
Count == [Session -> Nat]
Message == {"STOR", "RETR", "ALLO", "MSG_SUCCESSED", "ABOR"}
Parser == [at : {"idle", "setFd", "send", "clear"}, sock : Session \cup {None}, sendSize : Nat]

ClientsTyped ==
  /\ calm \in BOOLEAN
  /\ phase \in [Session -> {"idle", "asked", "ready", "moving"}]
  /\ kind \in [Session -> {"STOR", "RETR"}]
  /\ size \in [Session -> 0..MaxSize] /\ left \in [Session -> 0..MaxSize]
  /\ jobs \in 0..MaxJobs
WiresTyped ==
  /\ control \in [Session -> Seq(Message)]
  /\ reply \in [Session -> {"none", "220", "150", "200", "550"}]
  /\ link \in [Session -> {"none", "backlog", "up", "closed"}]
  /\ inward \in Count /\ outward \in [Session -> 0..MaxOut]
UploadTyped ==
  /\ stored \in [Session -> Seq(Session)]
  /\ filesize \in 0..MaxSize /\ filerecv \in Nat /\ file \in Session \cup {None}
  /\ m_fd \in Session \cup {None}
DownloadTyped ==
  /\ FileSize \in 0..MaxSize /\ file_fd \in Session \cup {None} /\ filePos \in Nat
  /\ parser \in [Session -> Parser]
SlotTyped ==
  /\ slot \in Session \cup {None} /\ m_status \in BOOLEAN /\ watched \subseteq Session
  /\ accepting \in {"accept", "set", "add"} /\ taken \in Session \cup {None}
  /\ reading \in BOOLEAN /\ ending \in {"no", "end", "clear"}
TypeOK == ClientsTyped /\ WiresTyped /\ UploadTyped /\ DownloadTyped /\ SlotTyped

\* Code 200 tells a client that its file is stored: all its bytes, no others.
\* An upload given up leaves filerecv behind, and the next one ends too soon; and
\* nobody looks whether the last bytes get to the disk when the FILE is closed.
SuccessMeansStored ==
  \A s \in Session : reply[s] = "200" /\ size[s] > 0 => stored[s] = [i \in 1..size[s] |-> s]

\* Nobody writes to a FILE that has been closed: while bytes of an upload are on
\* their way its file is open and waits for just as many.
BytesHaveAFile ==
  \A s \in Session : inward[s] + left[s] > 0 /\ phase[s] = "ready" /\ kind[s] = "STOR" =>
    file = s /\ filesize - filerecv = inward[s] + left[s]

\* With one client that gives nothing up, files an int can count and a disk that
\* does not fail, the static variables are enough, from file to file and in
\* whatever pieces the bytes arrive.
CalmUploadsExact == calm => SuccessMeansStored /\ BytesHaveAFile

\* Then a download brings the file, no byte less and no byte more, however the
\* socket cuts it, and each turn reads the bytes behind those that have been sent.
DownloadExact ==
  calm => \A s \in Session : parser[s].at = "send" =>
    LET rest == FileSize - parser[s].sendSize IN
    /\ parser[s].sock = s
    /\ IF phase[s] = "moving" THEN left[s] = outward[s] + rest ELSE rest = 0
    /\ rest > 0 => file_fd = s /\ filePos = parser[s].sendSize

\* Whatever the clients do, a link that is open is in the slot, or in the hands of
\* the accept handler or of a worker, and what these point to is open.  And epoll
\* watches the link in the slot, unless eventadd is next, or a worker has called
\* eventdel and is about to clear the slot: no client connects and is never read.
SlotIsServed ==
  /\ \A s \in Session : link[s] \in {"up", "closed"} <=> Held(s)
  /\ \/ slot \in watched \cup {None} \/ accepting = "add" \/ ending = "clear"
     \/ \E s \in Session : parser[s].at = "clear"

\* free_client_resources has emptied the slot that eventadd is about to use, and
\* the process ends.
Overtaken == accepting = "add" /\ slot = None

\* Every byte of a calm upload gets into the file, unless the process has ended so.
EveryUploadStored ==
  \A s \in Session : calm /\ phase[s] = "ready" /\ kind[s] = "STOR" ~>
    Len(stored[s]) = size[s] \/ Overtaken
=============================================================================
