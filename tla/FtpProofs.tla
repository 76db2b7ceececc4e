------------------------------ MODULE FtpProofs ------------------------------
(***************************************************************************)
(* Proofs about Ftp: types, the slot of the data connections and the links *)
(* that are open, and the transfers of a client that gives nothing up.     *)
(***************************************************************************)
EXTENDS Ftp, SequenceTheorems, TLAPS

\* What the proofs ask of the constants.
Sized == None \notin Session /\ MaxSize \in Nat /\ MaxJobs \in Nat /\ MaxOut \in Nat

-----------------------------------------------------------------------------
(* Types *)

\* What a step leaves alone keeps its type.
LEMMA SameClients == ASSUME TypeOK, UNCHANGED <<calm, client>> PROVE ClientsTyped'
BY DEF TypeOK, ClientsTyped, client
LEMMA SameWires == ASSUME TypeOK, UNCHANGED wires PROVE WiresTyped'
BY DEF TypeOK, WiresTyped, wires, Count
LEMMA SameUpload == ASSUME TypeOK, UNCHANGED <<stored, dc2s, m_fd>> PROVE UploadTyped'
BY DEF TypeOK, UploadTyped, dc2s
LEMMA SameDownload == ASSUME TypeOK, UNCHANGED <<ds2c, parser>> PROVE DownloadTyped'
BY DEF TypeOK, DownloadTyped, ds2c
LEMMA SameSlot == ASSUME TypeOK, UNCHANGED <<event, acceptor, reader>> PROVE SlotTyped'
BY DEF TypeOK, SlotTyped, event, acceptor, reader

LEMMA SayType ==
  ASSUME WiresTyped, NEW s \in Session, NEW msg \in Message, Say(s, msg)
  PROVE  control' \in [Session -> Seq(Message)]
BY DEF Say, WiresTyped

LEMMA GotoType ==
  ASSUME ClientsTyped, NEW s \in Session, NEW p \in {"idle", "asked", "ready", "moving"}, Goto(s, p)
  PROVE  phase' \in [Session -> {"idle", "asked", "ready", "moving"}]
BY DEF Goto, ClientsTyped

LEMMA ReplyType ==
  ASSUME WiresTyped, NEW s \in Session \cup {None}, NEW code \in {"220", "150", "200", "550"},
         Reply(s, code)
  PROVE  reply' \in [Session -> {"none", "220", "150", "200", "550"}]
BY DEF Reply, WiresTyped

LEMMA NextMessageType ==
  ASSUME WiresTyped, NEW s \in Session, NEW msg, NextMessage(s, msg)
  PROVE  control' \in [Session -> Seq(Message)]
<1>1. Tail(control[s]) \in Seq(Message)
  BY DEF NextMessage, WiresTyped
<1> QED
  BY <1>1 DEF NextMessage, WiresTyped

LEMMA DoingType ==
  ASSUME NEW what \in {"idle", "setFd", "send", "clear"}, NEW sock \in Session \cup {None},
         NEW n \in Nat
  PROVE  Doing(what, sock, n) \in Parser
BY DEF Doing, Parser

LEMMA IdleType == Idle \in Parser
BY DoingType DEF Idle

LEMMA ParseType ==
  ASSUME DownloadTyped, NEW s \in Session, NEW p \in Parser, Parse(s, p)
  PROVE  parser' \in [Session -> Parser]
BY DEF Parse, DownloadTyped

\* The values of a worker.
LEMMA ParserTyped ==
  ASSUME DownloadTyped, NEW s \in Session
  PROVE  /\ parser[s] \in Parser /\ parser[s].at \in {"idle", "setFd", "send", "clear"}
         /\ parser[s].sock \in Session \cup {None} /\ parser[s].sendSize \in Nat
BY DEF DownloadTyped, Parser

LEMMA CloseType ==
  ASSUME Sized, TypeOK, CloseUnheld
  PROVE  /\ link' \in [Session -> {"none", "backlog", "up", "closed"}]
         /\ inward' \in Count /\ outward' \in [Session -> 0..MaxOut]
         /\ watched' \subseteq Session
<1>1. /\ link \in [Session -> {"none", "backlog", "up", "closed"}]
      /\ inward \in [Session -> Nat] /\ outward \in [Session -> 0..MaxOut] /\ watched \subseteq Session
  BY DEF TypeOK, WiresTyped, SlotTyped, Count
<1>2. PICK gone :
        /\ link' = [s \in Session |-> IF s \in gone THEN "none" ELSE link[s]]
        /\ inward' = [s \in Session |-> IF s \in gone THEN 0 ELSE inward[s]]
        /\ outward' = [s \in Session |-> IF s \in gone THEN 0 ELSE outward[s]]
        /\ watched' = watched \ gone
  BY DEF CloseUnheld
<1> QED
  BY <1>1, <1>2 DEF Sized, Count

\* Steps in which a link may be closed, and the control connection is left alone.
LEMMA ClosingTypes ==
  ASSUME Sized, TypeOK, CloseUnheld, UNCHANGED <<calm, client, control, reply, stored, dc2s>>
  PROVE  ClientsTyped' /\ WiresTyped'
<1>1. WiresTyped'
  BY CloseType DEF TypeOK, WiresTyped
<1> QED
  BY <1>1, SameClients

LEMMA MessageKinds == {"STOR", "RETR", "ALLO", "MSG_SUCCESSED", "ABOR"} \subseteq Message
BY DEF Message

LEMMA Repeated ==
  ASSUME NEW S, NEW s \in S, NEW n \in Nat
  PROVE  [i \in 1..n |-> s] \in Seq(S)
OBVIOUS

LEMMA TypeInit == ASSUME Sized, Init PROVE TypeOK
<1>1. ClientsTyped
  BY DEF Init, ClientsTyped, Sized
<1>2. WiresTyped
  <2>1. control \in [Session -> Seq(Message)]
    BY DEF Init
  <2>2. inward \in Count /\ outward \in [Session -> 0..MaxOut]
    BY DEF Init, Sized, Count
  <2>3. /\ reply \in [Session -> {"none", "220", "150", "200", "550"}]
        /\ link \in [Session -> {"none", "backlog", "up", "closed"}]
    BY DEF Init
  <2> QED
    BY <2>1, <2>2, <2>3 DEF WiresTyped
<1>3. UploadTyped
  BY DEF Init, UploadTyped, Sized
<1>4. DownloadTyped
  <2>1. /\ FileSize = 0 /\ file_fd = None /\ filePos = 0
        /\ parser = [s \in Session |-> Idle]
    BY DEF Init
  <2> QED
    BY <2>1, IdleType DEF DownloadTyped, Sized
<1>5. SlotTyped
  BY DEF Init, SlotTyped
<1> QED
  BY <1>1, <1>2, <1>3, <1>4, <1>5 DEF TypeOK

LEMMA TypeAsk == ASSUME Sized, TypeOK, NEW s \in Session, Ask(s), UNCHANGED calm PROVE TypeOK'
<1>1. PICK k \in {"STOR", "RETR"}, n \in 0..MaxSize :
        /\ kind' = [kind EXCEPT ![s] = k] /\ Say(s, k)
        /\ size' = [size EXCEPT ![s] = n] /\ left' = [left EXCEPT ![s] = n]
  BY DEF Ask
<1>2. control' \in [Session -> Seq(Message)]
  BY <1>1, SayType, MessageKinds DEF TypeOK
<1>3. phase' \in [Session -> {"idle", "asked", "ready", "moving"}]
  BY GotoType DEF Ask, TypeOK
<1>4. kind' \in [Session -> {"STOR", "RETR"}]
  BY <1>1 DEF TypeOK, ClientsTyped
<1>5. size' \in [Session -> 0..MaxSize] /\ left' \in [Session -> 0..MaxSize]
  BY <1>1 DEF TypeOK, ClientsTyped, Sized
<1>6. jobs' \in 0..MaxJobs
  BY DEF Ask, TypeOK, ClientsTyped, Sized
<1>7. UNCHANGED <<calm, reply, link, inward, outward, dc2s, m_fd, ds2c, parser, event, acceptor, reader>>
  BY DEF Ask
<1>8. stored' \in [Session -> Seq(Session)]
  BY DEF Ask, TypeOK, UploadTyped
<1>9. ClientsTyped'
  BY <1>3, <1>4, <1>5, <1>6, <1>7 DEF TypeOK, ClientsTyped
<1>10. WiresTyped'
  BY <1>2, <1>7 DEF TypeOK, WiresTyped, Count
<1>11. UploadTyped'
  BY <1>7, <1>8 DEF TypeOK, UploadTyped, dc2s
<1> QED
  BY <1>7, <1>9, <1>10, <1>11, SameDownload, SameSlot DEF TypeOK

LEMMA TypeAbort == ASSUME Sized, TypeOK, NEW s \in Session, Abort(s), UNCHANGED calm PROVE TypeOK'
<1>1. control' \in [Session -> Seq(Message)]
  BY SayType, MessageKinds DEF TypeOK, Abort, WiresTyped
<1>2. phase' \in [Session -> {"idle", "asked", "ready", "moving"}]
  BY GotoType DEF Abort, TypeOK
<1>3. link' \in [Session -> {"none", "backlog", "up", "closed"}]
  BY DEF Abort, TypeOK, WiresTyped
<1>4. UNCHANGED <<calm, kind, size, left, jobs, reply, inward, outward, stored, dc2s, m_fd, ds2c,
                  parser, event, acceptor, reader>>
  BY DEF Abort
<1>5. ClientsTyped'
  BY <1>2, <1>4 DEF ClientsTyped, TypeOK
<1>6. WiresTyped'
  BY <1>1, <1>3, <1>4 DEF WiresTyped, Count, TypeOK
<1> QED
  BY <1>4, <1>5, <1>6, SameUpload, SameDownload, SameSlot DEF TypeOK

LEMMA TypeClient == ASSUME Sized, TypeOK, NEW s \in Session, ClientStep(s) PROVE TypeOK'
<1>0. UNCHANGED calm
  BY DEF ClientStep
<1>1. UNCHANGED <<stored, dc2s, m_fd, ds2c, parser, event, acceptor, reader>>
  BY DEF ClientStep, SeeReply, Connect, SendBytes, SayAllo, ReceiveBytes
<1>2. UploadTyped' /\ DownloadTyped' /\ SlotTyped'
  BY <1>1, SameUpload, SameDownload, SameSlot
<1>3. CASE SeeReply(s)
  <2>1. phase' \in [Session -> {"idle", "asked", "ready", "moving"}]
    BY <1>3, GotoType DEF SeeReply, TypeOK
  <2>2. reply' \in [Session -> {"none", "220", "150", "200", "550"}]
    BY <1>3 DEF SeeReply, TypeOK, WiresTyped
  <2>3. ClientsTyped'
    BY <1>3, <1>0, <2>1 DEF SeeReply, ClientsTyped, TypeOK
  <2>4. WiresTyped'
    BY <1>3, <2>2 DEF SeeReply, WiresTyped, Count, TypeOK
  <2> QED
    BY <1>2, <2>3, <2>4 DEF TypeOK
<1>4. CASE Connect(s)
  <2>1. WiresTyped'
    BY <1>4 DEF Connect, WiresTyped, Count, TypeOK
  <2> QED
    BY <1>0, <1>2, <1>4, <2>1, SameClients DEF Connect, TypeOK
<1>5. CASE SendBytes(s)
  <2>1. left' \in [Session -> 0..MaxSize]
    BY <1>5 DEF SendBytes, TypeOK, ClientsTyped, Sized
  <2>2. inward' \in Count
    BY <1>5 DEF SendBytes, TypeOK, ClientsTyped, WiresTyped, Sized, Count
  <2>3. ClientsTyped'
    BY <1>5, <1>0, <2>1 DEF SendBytes, ClientsTyped, TypeOK
  <2>4. WiresTyped'
    BY <1>5, <2>2 DEF SendBytes, WiresTyped, Count, TypeOK
  <2> QED
    BY <1>2, <2>3, <2>4 DEF TypeOK
<1>6. CASE SayAllo(s)
  <2>1. control' \in [Session -> Seq(Message)]
    BY <1>6, SayType, MessageKinds DEF SayAllo, TypeOK
  <2>2. phase' \in [Session -> {"idle", "asked", "ready", "moving"}]
    BY <1>6, GotoType DEF SayAllo, TypeOK
  <2>3. ClientsTyped'
    BY <1>6, <1>0, <2>2 DEF SayAllo, ClientsTyped, TypeOK
  <2>4. WiresTyped'
    BY <1>6, <2>1 DEF SayAllo, WiresTyped, Count, TypeOK
  <2> QED
    BY <1>2, <2>3, <2>4 DEF TypeOK
<1>7. CASE ReceiveBytes(s)
  <2>1. left' \in [Session -> 0..MaxSize]
    BY <1>7 DEF ReceiveBytes, TypeOK, Sized, ClientsTyped, WiresTyped
  <2>2. outward' \in [Session -> 0..MaxOut]
    BY <1>7 DEF ReceiveBytes, TypeOK, Sized, WiresTyped
  <2>3. control' \in [Session -> Seq(Message)]
    BY <1>7, SayType, MessageKinds DEF ReceiveBytes, TypeOK, WiresTyped
  <2>4. phase' \in [Session -> {"idle", "asked", "ready", "moving"}]
    BY <1>7, GotoType DEF ReceiveBytes, TypeOK, ClientsTyped
  <2>5. ClientsTyped'
    BY <1>7, <1>0, <2>1, <2>4 DEF ReceiveBytes, ClientsTyped, TypeOK
  <2>6. WiresTyped'
    BY <1>7, <2>2, <2>3 DEF ReceiveBytes, WiresTyped, Count, TypeOK
  <2> QED
    BY <1>2, <2>5, <2>6 DEF TypeOK
<1> QED
  BY <1>3, <1>4, <1>5, <1>6, <1>7 DEF ClientStep

LEMMA TypeRecvFile == ASSUME Sized, TypeOK, RecvFile, UNCHANGED calm PROVE TypeOK'
<1>1. slot \in Session /\ inward[slot] \in Nat /\ filerecv \in Nat
  BY DEF RecvFile, Reads, TypeOK, Count, WiresTyped, UploadTyped, SlotTyped
<1>2. PICK n \in 1..inward[slot] : \E kept \in 0..n, whole \in BOOLEAN :
        LET received == IF whole THEN filerecv + n ELSE filerecv IN
        /\ Written(n, kept, whole)
        /\ inward' = [inward EXCEPT ![slot] = @ - n]
        /\ stored' = IF file = None THEN stored
                     ELSE [stored EXCEPT ![file] = @ \o [i \in 1..kept |-> slot]]
        /\ IF Complete(received)
           THEN filesize' = 0 /\ file' = None /\ Reply(m_fd, "200")
           ELSE UNCHANGED <<filesize, file, reply>>
        /\ filerecv' = CountAfter(received)
  BY DEF RecvFile
<1>3. PICK kept \in 0..n, received \in Nat :
        /\ inward' = [inward EXCEPT ![slot] = @ - n]
        /\ stored' = IF file = None THEN stored
                     ELSE [stored EXCEPT ![file] = @ \o [i \in 1..kept |-> slot]]
        /\ IF Complete(received)
           THEN filesize' = 0 /\ file' = None /\ Reply(m_fd, "200")
           ELSE UNCHANGED <<filesize, file, reply>>
        /\ filerecv' = CountAfter(received)
  <2>1. PICK kept \in 0..n, whole \in BOOLEAN :
        LET received == IF whole THEN filerecv + n ELSE filerecv IN
        /\ inward' = [inward EXCEPT ![slot] = @ - n]
        /\ stored' = IF file = None THEN stored
                     ELSE [stored EXCEPT ![file] = @ \o [i \in 1..kept |-> slot]]
        /\ IF Complete(received)
           THEN filesize' = 0 /\ file' = None /\ Reply(m_fd, "200")
           ELSE UNCHANGED <<filesize, file, reply>>
        /\ filerecv' = CountAfter(received)
    BY <1>2
  <2>2. filerecv + n \in Nat /\ filerecv \in Nat
    BY <1>1
  <2> QED
    BY <2>1, <2>2
<1>4. inward' \in Count
  BY <1>1, <1>3 DEF TypeOK, Count, WiresTyped
<1>5. stored' \in [Session -> Seq(Session)]
  <2>1. CASE file = None
    BY <1>3, <2>1 DEF TypeOK, UploadTyped
  <2>2. CASE file # None
    <3>1. file \in Session /\ stored \in [Session -> Seq(Session)]
      BY <2>2 DEF TypeOK, UploadTyped
    <3>2. [i \in 1..kept |-> slot] \in Seq(Session)
      BY <1>1, Repeated
    <3>3. stored[file] \o [i \in 1..kept |-> slot] \in Seq(Session)
      BY <3>1, <3>2, ConcatProperties
    <3>4. stored' = [stored EXCEPT ![file] = stored[file] \o [i \in 1..kept |-> slot]]
      BY <1>3, <2>2
    <3> DEFINE more == stored[file] \o [i \in 1..kept |-> slot]
    <3> HIDE DEF more
    <3> QED
      BY <3>1, <3>3, <3>4 DEF more
  <2> QED
    BY <2>1, <2>2
<1>6. filerecv' \in Nat
  BY <1>1, <1>3 DEF CountAfter
<1>7. filesize' \in 0..MaxSize /\ file' \in Session \cup {None}
  BY <1>3 DEF TypeOK, UploadTyped, Sized
<1>8. reply' \in [Session -> {"none", "220", "150", "200", "550"}]
  <2>1. CASE Complete(received)
    <3>1. Reply(m_fd, "200")
      BY <1>3, <2>1
    <3> QED
      BY <3>1, ReplyType DEF TypeOK, UploadTyped
  <2>2. CASE ~Complete(received)
    BY <1>3, <2>2 DEF TypeOK, WiresTyped
  <2> QED
    BY <2>1, <2>2
<1>9. /\ reading' = TRUE
      /\ UNCHANGED <<calm, client, control, link, outward, m_fd, ds2c, parser, event, acceptor, ending>>
  BY DEF RecvFile
<1>10. WiresTyped'
  BY <1>4, <1>8, <1>9 DEF WiresTyped, Count, TypeOK
<1>11. UploadTyped'
  BY <1>5, <1>6, <1>7, <1>9 DEF UploadTyped, TypeOK
<1>12. SlotTyped'
  BY <1>9 DEF SlotTyped, event, acceptor, TypeOK
<1> QED
  BY <1>9, <1>10, <1>11, <1>12, SameClients, SameDownload DEF TypeOK

LEMMA TypeRead == ASSUME Sized, TypeOK, ReadStep PROVE TypeOK'
<1>0. UNCHANGED calm
  BY DEF ReadStep
<1>1. CASE RecvFile
  BY <1>0, <1>1, TypeRecvFile
<1>2. CASE ReadAll \/ ReadEnd
  <2>1. SlotTyped'
    BY <1>2 DEF ReadAll, ReadEnd, SlotTyped, event, acceptor, TypeOK
  <2>2. UNCHANGED <<client, wires, stored, dc2s, m_fd, ds2c, parser>>
    BY <1>2 DEF ReadAll, ReadEnd
  <2> QED
    BY <1>0, <2>1, <2>2, SameClients, SameWires, SameUpload, SameDownload DEF TypeOK
<1>3. CASE DeleteAtEnd
  <2>1. SlotTyped'
    BY <1>3 DEF DeleteAtEnd, EventDel, SlotTyped, acceptor, TypeOK
  <2>2. UNCHANGED <<client, wires, stored, dc2s, m_fd, ds2c, parser>>
    BY <1>3 DEF DeleteAtEnd
  <2> QED
    BY <1>0, <2>1, <2>2, SameClients, SameWires, SameUpload, SameDownload DEF TypeOK
<1>4. CASE ClearAtEnd
  <2>1. /\ CloseUnheld /\ ClearSlot /\ ending' = "no"
        /\ UNCHANGED <<client, control, reply, stored, dc2s, m_fd, ds2c, parser, acceptor, reading>>
    BY <1>4 DEF ClearAtEnd
  <2>2. SlotTyped'
    BY <2>1, CloseType DEF ClearSlot, SlotTyped, acceptor, TypeOK
  <2> QED
    BY <1>0, <2>1, <2>2, ClosingTypes, SameUpload, SameDownload DEF TypeOK
<1> QED
  BY <1>1, <1>2, <1>3, <1>4 DEF ReadStep

LEMMA TypeAccept == ASSUME Sized, TypeOK, AcceptStep PROVE TypeOK'
<1>0. UNCHANGED calm
  BY DEF AcceptStep
<1>1. ASSUME NEW s \in Session, Accept(s) PROVE TypeOK'
  <2>1. UNCHANGED <<client, control, reply, inward, outward, stored, dc2s, m_fd, ds2c, parser, slot,
                    watched, reader>>
    BY <1>1 DEF Accept
  <2>2. WiresTyped'
    BY <1>1, <2>1 DEF Accept, WiresTyped, Count, TypeOK
  <2>3. SlotTyped'
    BY <1>1, <2>1 DEF Accept, SlotTyped, reader, TypeOK
  <2> QED
    BY <1>0, <2>1, <2>2, <2>3, SameClients, SameUpload, SameDownload DEF TypeOK
<1>2. CASE SetSlot
  <2>1. /\ CloseUnheld /\ accepting' = "add" /\ slot' = taken
        /\ UNCHANGED <<client, control, reply, stored, dc2s, m_fd, ds2c, parser, m_status, taken,
                       reader>>
    BY <1>2 DEF SetSlot
  <2>2. SlotTyped'
    BY <2>1, CloseType DEF SlotTyped, reader, TypeOK
  <2> QED
    BY <1>0, <2>1, <2>2, ClosingTypes, SameUpload, SameDownload DEF TypeOK
<1>3. CASE AddEvent
  <2>1. UNCHANGED <<client, wires, stored, dc2s, m_fd, ds2c, parser, slot, reader>>
    BY <1>3 DEF AddEvent
  <2>2. watched' \subseteq Session
    BY <1>3 DEF AddEvent, SlotTyped, TypeOK
  <2>3. SlotTyped'
    BY <1>3, <2>1, <2>2 DEF AddEvent, SlotTyped, reader, TypeOK
  <2> QED
    BY <1>0, <2>1, <2>3, SameClients, SameWires, SameUpload, SameDownload DEF TypeOK
<1> QED
  BY <1>1, <1>2, <1>3 DEF AcceptStep

LEMMA TypeControl == ASSUME Sized, TypeOK, NEW s \in Session, ControlStep(s) PROVE TypeOK'
<1>0. UNCHANGED calm
  BY DEF ControlStep
<1>10. /\ slot \in Session \cup {None} /\ parser[s].sock \in Session \cup {None}
       /\ parser[s].sendSize \in Nat /\ DownloadTyped /\ WiresTyped
  BY ParserTyped DEF TypeOK, SlotTyped
<1>1. CASE HandleStor(s)
  <2>1. control' \in [Session -> Seq(Message)]
    BY <1>1, NextMessageType DEF HandleStor, TypeOK
  <2>2. reply' \in [Session -> {"none", "220", "150", "200", "550"}]
    BY <1>1, ReplyType DEF HandleStor, TypeOK
  <2>3. UNCHANGED <<client, link, inward, outward, stored, filerecv, m_fd, ds2c, event, acceptor, reader>>
    BY <1>1 DEF HandleStor
  <2>4. Doing("setFd", slot, 0) \in Parser
    BY <1>10, DoingType
  <2>5. parser' \in [Session -> Parser]
    BY <1>1, <1>10, <2>4, ParseType DEF HandleStor
  <2>6. WiresTyped'
    BY <2>1, <2>2, <2>3 DEF WiresTyped, Count, TypeOK
  <2>7. UploadTyped'
    BY <1>1, <2>3 DEF HandleStor, UploadTyped, TypeOK, ClientsTyped
  <2>8. DownloadTyped'
    BY <2>3, <2>5 DEF DownloadTyped, ds2c, TypeOK
  <2> QED
    BY <1>0, <2>3, <2>6, <2>7, <2>8, SameClients, SameSlot DEF TypeOK
<1>2. CASE SetFd(s)
  <2>1. /\ CloseUnheld /\ Parse(s, Idle) /\ m_fd' = s
        /\ UNCHANGED <<client, control, reply, stored, dc2s, ds2c, slot, m_status, acceptor, reader>>
    BY <1>2 DEF SetFd
  <2>2. SlotTyped'
    BY <2>1, CloseType DEF SlotTyped, acceptor, reader, TypeOK
  <2>3. DownloadTyped'
    BY <2>1, <1>10, IdleType, ParseType DEF DownloadTyped, ds2c
  <2>4. UploadTyped'
    BY <2>1 DEF UploadTyped, dc2s, TypeOK
  <2> QED
    BY <1>0, <2>1, <2>2, <2>3, <2>4, ClosingTypes DEF TypeOK
<1>3. CASE HandleRetr(s)
  <2>1. control' \in [Session -> Seq(Message)]
    BY <1>3, NextMessageType DEF HandleRetr, TypeOK
  <2>2. reply' \in [Session -> {"none", "220", "150", "200", "550"}]
    BY <1>3, ReplyType DEF HandleRetr, TypeOK
  <2>3. UNCHANGED <<phase, kind, size, jobs, link, inward, outward, stored, dc2s, m_fd, parser, event,
                    acceptor, reader>>
    BY <1>3 DEF HandleRetr
  <2>4. /\ FileSize' \in 0..MaxSize /\ file_fd' \in Session \cup {None} /\ filePos' \in Nat
        /\ left' \in [Session -> 0..MaxSize]
    <3>1. size[s] \in 0..MaxSize /\ Told(size[s]) \in 0..MaxSize
      BY DEF Told, TypeOK, ClientsTyped, Sized
    <3> QED
      BY <1>3, <3>1 DEF HandleRetr, TypeOK, ClientsTyped, DownloadTyped
  <2>5. ClientsTyped'
    BY <1>0, <2>3, <2>4 DEF ClientsTyped, TypeOK
  <2>6. WiresTyped'
    BY <2>1, <2>2, <2>3 DEF WiresTyped, Count, TypeOK
  <2>7. DownloadTyped'
    BY <2>3, <2>4 DEF DownloadTyped, TypeOK
  <2> QED
    BY <2>3, <2>5, <2>6, <2>7, SameUpload, SameSlot DEF TypeOK
<1>4. CASE HandleAllo(s)
  <2>1. control' \in [Session -> Seq(Message)]
    BY <1>4, NextMessageType DEF HandleAllo, TypeOK
  <2>2. parser' \in [Session -> Parser]
    <3>1. CASE slot = None
      BY <1>10, <1>4, <3>1 DEF HandleAllo, DownloadTyped
    <3>2. CASE slot # None
      <4>1. Doing("send", slot, 0) \in Parser
        BY <1>10, DoingType
      <4> QED
        BY <1>10, <1>4, <3>2, <4>1, ParseType DEF HandleAllo
    <3> QED
      BY <3>1, <3>2
  <2>3. UNCHANGED <<client, reply, link, inward, outward, stored, dc2s, m_fd, ds2c, event, acceptor,
                    reader>>
    BY <1>4 DEF HandleAllo
  <2>4. WiresTyped'
    BY <2>1, <2>3 DEF WiresTyped, Count, TypeOK
  <2>5. DownloadTyped'
    BY <2>2, <2>3 DEF DownloadTyped, ds2c, TypeOK
  <2> QED
    BY <1>0, <2>3, <2>4, <2>5, SameClients, SameUpload, SameSlot DEF TypeOK
<1>5. CASE SendChunk(s)
  <2> DEFINE to == parser[s].sock
             n == parser[s].sendSize
  <2>1. FileSize \in Nat /\ filePos \in Nat /\ link[to] = "up"
    BY <1>5 DEF SendChunk, TypeOK, DownloadTyped, Sized
  <2>20. PICK read \in 1..(FileSize - filePos) : \E m \in 1..read :
          /\ outward[to] + m <= MaxOut
          /\ outward' = [outward EXCEPT ![to] = @ + m]
          /\ Parse(s, Doing("send", to, n + m))
          /\ filePos' = SeekTo(filePos + read, n + m)
    BY <1>5 DEF SendChunk
  <2>2. PICK m \in 1..read :
          /\ outward[to] + m <= MaxOut
          /\ outward' = [outward EXCEPT ![to] = @ + m]
          /\ Parse(s, Doing("send", to, n + m))
          /\ filePos' = SeekTo(filePos + read, n + m)
    BY <2>20
  <2>3. outward' \in [Session -> 0..MaxOut]
    <3>1. outward \in [Session -> 0..MaxOut]
      BY DEF TypeOK, WiresTyped
    <3> HIDE DEF to, n
    <3>2. CASE to \in Session
      <4>1. outward[to] + m \in 0..MaxOut
        BY <3>1, <3>2, <2>2, <2>1 DEF Sized
      <4> QED
        BY <3>1, <4>1, <2>2
    <3>3. CASE to \notin Session
      BY <3>1, <3>3, <2>2
    <3> QED
      BY <3>2, <3>3
  <2>4. n + m \in Nat /\ filePos' \in Nat
    <3>1. m \in Nat
      BY <2>2, <2>1
    <3> QED
      BY <1>10, <2>2, <3>1 DEF SeekTo
  <2>5. Doing("send", to, n + m) \in Parser
    BY <1>10, <2>4, DoingType
  <2>6. parser' \in [Session -> Parser]
    BY <1>10, <2>2, <2>5, ParseType
  <2>7. UNCHANGED <<client, control, reply, link, inward, stored, dc2s, m_fd, FileSize, file_fd, event,
                    acceptor, reader>>
    BY <1>5 DEF SendChunk
  <2>8. WiresTyped'
    BY <2>3, <2>7 DEF WiresTyped, Count, TypeOK
  <2>9. DownloadTyped'
    BY <2>4, <2>6, <2>7 DEF DownloadTyped, TypeOK
  <2> QED
    BY <1>0, <2>7, <2>8, <2>9, SameClients, SameUpload, SameSlot DEF TypeOK
<1>6. CASE SendDone(s) \/ SendFails(s)
  <2>1. /\ CloseUnheld /\ Parse(s, Idle) /\ file_fd' \in {None, file_fd}
        /\ UNCHANGED <<client, control, reply, stored, dc2s, m_fd, FileSize, filePos, slot, m_status,
                       acceptor, reader>>
    BY <1>6 DEF SendDone, SendFails, ds2c
  <2>2. SlotTyped'
    BY <2>1, CloseType DEF SlotTyped, acceptor, reader, TypeOK
  <2>3. DownloadTyped'
    BY <2>1, <1>10, IdleType, ParseType DEF DownloadTyped
  <2> QED
    BY <1>0, <2>1, <2>2, <2>3, ClosingTypes, SameUpload DEF TypeOK
<1>7. CASE HandleEnd(s)
  <2>1. /\ EventDel /\ Parse(s, Doing("clear", None, 0))
        /\ UNCHANGED <<client, reply, link, inward, outward, stored, dc2s, m_fd, ds2c, slot, acceptor,
                       reader>>
    BY <1>7 DEF HandleEnd
  <2>2. control' \in [Session -> Seq(Message)]
    BY <1>7, NextMessageType DEF HandleEnd, TypeOK
  <2>3. WiresTyped'
    BY <2>1, <2>2 DEF WiresTyped, Count, TypeOK
  <2>4. Doing("clear", None, 0) \in Parser
    BY DoingType
  <2>5. DownloadTyped'
    BY <2>1, <2>4, <1>10, ParseType DEF DownloadTyped, ds2c
  <2>6. SlotTyped'
    BY <2>1 DEF EventDel, SlotTyped, acceptor, reader, TypeOK
  <2> QED
    BY <1>0, <2>1, <2>3, <2>5, <2>6, SameClients, SameUpload DEF TypeOK
<1>8. CASE Clear(s)
  <2>1. /\ CloseUnheld /\ ClearSlot /\ Parse(s, Idle)
        /\ UNCHANGED <<client, control, reply, stored, dc2s, m_fd, ds2c, acceptor, reader>>
    BY <1>8 DEF Clear
  <2>2. SlotTyped'
    BY <2>1, CloseType DEF ClearSlot, SlotTyped, acceptor, reader, TypeOK
  <2>3. DownloadTyped'
    BY <2>1, <1>10, IdleType, ParseType DEF DownloadTyped, ds2c
  <2> QED
    BY <1>0, <2>1, <2>2, <2>3, ClosingTypes, SameUpload DEF TypeOK
<1> QED
  BY <1>1, <1>2, <1>3, <1>4, <1>5, <1>6, <1>7, <1>8 DEF ControlStep

LEMMA TypeStep == ASSUME Sized, TypeOK, [Next]_vars PROVE TypeOK'
<1>1. CASE UNCHANGED vars
  BY <1>1, SameClients, SameWires, SameUpload, SameDownload, SameSlot DEF vars, TypeOK
<1> QED
  BY <1>1, TypeAsk, TypeAbort, TypeClient, TypeControl, TypeAccept, TypeRead DEF Next

(* Ftp: every reachable state has its type, whatever the clients do. *)
THEOREM FilesTyped == ASSUME Sized PROVE Spec => []TypeOK
BY TypeInit, TypeStep, PTL DEF Spec

-----------------------------------------------------------------------------
(* The slot *)

\* The accept handler has a link in its hands once it has accepted one, the event
\* is off the tree until eventadd, and the slot holds that link or is empty.
AcceptorOK ==
  /\ accepting = "accept" <=> taken = None
  /\ accepting # "accept" => ~m_status
  /\ accepting = "add" => slot \in {taken, None}
SlotInv == TypeOK /\ SlotIsServed /\ AcceptorOK

\* The two parts of SlotIsServed.
OpenAreHeld == \A s \in Session : link[s] \in {"up", "closed"} <=> Held(s)
SlotWatched ==
  \/ slot \in watched \cup {None} \/ accepting = "add" \/ ending = "clear"
  \/ \E s \in Session : parser[s].at = "clear"

LEMMA ServedParts == SlotIsServed <=> OpenAreHeld /\ SlotWatched
BY DEF SlotIsServed, OpenAreHeld, SlotWatched

\* Who has dropped a pointer closes what nobody else points to.
LEMMA Unheld ==
  ASSUME TypeOK, OpenAreHeld, CloseUnheld, \A s \in Session : Held(s)' => Held(s)
  PROVE  /\ OpenAreHeld'
         /\ \A s \in Session : s \in watched /\ Held(s)' => s \in watched'
<1>1. \A s \in Session :
        /\ link'[s] = IF link[s] \in {"up", "closed"} /\ ~Held(s)' THEN "none" ELSE link[s]
        /\ s \in watched /\ Held(s)' => s \in watched'
  BY DEF CloseUnheld, TypeOK, WiresTyped
<1>2. ASSUME NEW s \in Session PROVE link'[s] \in {"up", "closed"} <=> Held(s)'
  <2>1. link[s] \in {"up", "closed"} <=> Held(s)
    BY DEF OpenAreHeld
  <2>2. Held(s)' => Held(s)
    OBVIOUS
  <2>3. link'[s] = IF link[s] \in {"up", "closed"} /\ ~Held(s)' THEN "none" ELSE link[s]
    BY <1>1
  <2> QED
    BY <2>1, <2>2, <2>3
<1> QED
  BY <1>1, <1>2 DEF OpenAreHeld

\* A worker that is done drops its pointer.
LEMMA Dropped ==
  ASSUME Sized, SlotInv, NEW s \in Session, Parse(s, Idle), parser[s].at # "clear", CloseUnheld,
         UNCHANGED <<slot, m_status, acceptor, reader>>
  PROVE  SlotIsServed' /\ AcceptorOK'
<1>1. /\ parser' = [parser EXCEPT ![s] = Idle] /\ parser \in [Session -> Parser] /\ Idle.sock = None
      /\ slot' = slot /\ taken' = taken /\ accepting' = accepting /\ ending' = ending
      /\ m_status' = m_status
  BY DEF Parse, Idle, Doing, SlotInv, TypeOK, DownloadTyped, acceptor, reader
<1>2. \A t \in Session : Held(t)' => Held(t)
  BY <1>1 DEF Held, Sized
<1>3. OpenAreHeld' /\ \A t \in Session : t \in watched /\ Held(t)' => t \in watched'
  BY <1>2, Unheld, ServedParts DEF SlotInv
<1>4. SlotWatched'
  <2>1. SlotWatched
    BY ServedParts DEF SlotInv
  <2>2. CASE slot \in watched
    <3>1. slot \in Session /\ slot \in {slot, taken}'
      BY <1>1, <2>2 DEF SlotInv, TypeOK, SlotTyped
    <3>2. PICK f \in Session : f = slot
      BY <3>1
    <3>3. Held(f)'
      BY <1>1, <3>2 DEF Held
    <3>4. f \in watched'
      BY <1>3, <2>2, <3>2, <3>3
    <3> QED
      BY <1>1, <3>2, <3>4 DEF SlotWatched
  <2>3. CASE slot = None \/ accepting = "add" \/ ending = "clear"
    BY <1>1, <2>3 DEF SlotWatched
  <2>4. ASSUME NEW t \in Session, parser[t].at = "clear" PROVE SlotWatched'
    <3>1. t # s
      BY <2>4
    <3>2. parser'[t] = parser[t]
      BY <1>1, <3>1
    <3> QED
      BY <2>4, <3>2 DEF SlotWatched
  <2> QED
    BY <2>1, <2>2, <2>3, <2>4 DEF SlotWatched
<1>5. AcceptorOK'
  BY <1>1 DEF SlotInv, AcceptorOK
<1> QED
  BY <1>3, <1>4, <1>5, ServedParts DEF SlotIsServed, OpenAreHeld, SlotWatched

\* Nothing changes that SlotIsServed is about, but that some worker gets a pointer.
LEMMA Kept ==
  ASSUME Sized, SlotInv,
         UNCHANGED <<link, watched, m_status, acceptor, slot>>, ending' = ending,
         \A t \in Session :
           /\ parser'[t].sock = parser[t].sock \/ (parser[t].sock = None /\ parser'[t].sock = slot)
           /\ parser[t].at = "clear" => parser'[t].at = "clear"
  PROVE  SlotIsServed' /\ AcceptorOK'
<1>1. \A s \in Session : Held(s)' <=> Held(s)
  <2> SUFFICES ASSUME NEW s \in Session PROVE Held(s)' <=> Held(s)
    OBVIOUS
  <2>1. CASE s \in {slot, taken}
    BY <2>1 DEF Held, acceptor
  <2>2. CASE s \notin {slot, taken}
    <3>1. \A t \in Session : parser'[t].sock = s <=> parser[t].sock = s
      BY <2>2 DEF Sized
    <3> QED
      BY <2>2, <3>1 DEF Held, acceptor
  <2> QED
    BY <2>1, <2>2
<1>2. OpenAreHeld'
  BY <1>1, ServedParts DEF SlotInv, OpenAreHeld
<1>3. SlotWatched'
  BY ServedParts DEF SlotInv, SlotWatched, acceptor
<1>4. AcceptorOK'
  BY DEF SlotInv, AcceptorOK, acceptor
<1> QED
  BY <1>2, <1>3, <1>4 DEF SlotIsServed, OpenAreHeld, SlotWatched

\* The slot is emptied.
LEMMA Emptied ==
  ASSUME Sized, SlotInv, ClearSlot, CloseUnheld, UNCHANGED acceptor,
         \A t \in Session : parser'[t].sock \in {parser[t].sock, None}
  PROVE  SlotIsServed' /\ AcceptorOK'
<1>1. slot' = None /\ taken' = taken /\ accepting' = accepting /\ m_status' = FALSE
  BY DEF ClearSlot, acceptor
<1>2. \A t \in Session : Held(t)' => Held(t)
  BY <1>1 DEF Held, Sized
<1>3. OpenAreHeld'
  BY <1>2, Unheld, ServedParts DEF SlotInv
<1>4. SlotWatched'
  BY <1>1 DEF SlotWatched
<1>5. AcceptorOK'
  BY <1>1 DEF SlotInv, AcceptorOK
<1> QED
  BY <1>3, <1>4, <1>5 DEF SlotIsServed, OpenAreHeld, SlotWatched

LEMMA SlotAccept ==
  ASSUME Sized, SlotInv, AcceptStep
  PROVE  SlotIsServed' /\ AcceptorOK'
<1>1. OpenAreHeld /\ SlotWatched /\ AcceptorOK /\ TypeOK
  BY ServedParts DEF SlotInv
<1>2. ASSUME NEW s \in Session, Accept(s) PROVE SlotIsServed' /\ AcceptorOK'
  <2>1. /\ taken = None /\ taken' = s /\ accepting = "accept" /\ accepting' = "set" /\ m_status' = FALSE
        /\ link' = [link EXCEPT ![s] = "up"]
        /\ UNCHANGED <<slot, watched, parser, ending>>
    BY <1>1, <1>2 DEF Accept, AcceptorOK, reader
  <2>2. \A t \in Session : Held(t)' <=> (Held(t) \/ t = s)
    BY <2>1 DEF Held, Sized
  <2>3. OpenAreHeld'
    BY <1>1, <2>1, <2>2 DEF OpenAreHeld, TypeOK, WiresTyped
  <2>4. SlotWatched'
    BY <1>1, <2>1 DEF SlotWatched
  <2>5. AcceptorOK'
    BY <2>1 DEF AcceptorOK, Sized
  <2> QED
    BY <2>3, <2>4, <2>5 DEF SlotIsServed, OpenAreHeld, SlotWatched
<1>3. CASE SetSlot
  <2>1. /\ CloseUnheld /\ slot' = taken /\ taken' = taken /\ parser' = parser
        /\ accepting = "set" /\ accepting' = "add" /\ m_status' = m_status
    BY <1>3 DEF SetSlot
  <2>2. \A t \in Session : Held(t)' => Held(t)
    BY <2>1 DEF Held
  <2>3. OpenAreHeld'
    BY <1>1, <2>1, <2>2, Unheld
  <2>4. SlotWatched'
    BY <2>1 DEF SlotWatched
  <2>5. AcceptorOK'
    BY <1>1, <2>1 DEF AcceptorOK
  <2> QED
    BY <2>3, <2>4, <2>5 DEF SlotIsServed, OpenAreHeld, SlotWatched
<1>4. CASE AddEvent
  <2>1. /\ slot # None /\ slot' = slot /\ taken = slot /\ taken' = None /\ parser' = parser
        /\ accepting' = "accept" /\ link' = link /\ watched' = watched \cup {slot}
    BY <1>1, <1>4 DEF AddEvent, AcceptorOK, wires
  <2>2. \A t \in Session : Held(t)' <=> Held(t)
    BY <2>1 DEF Held, Sized
  <2>3. OpenAreHeld'
    BY <1>1, <2>1, <2>2 DEF OpenAreHeld
  <2>4. SlotWatched'
    BY <2>1 DEF SlotWatched
  <2>5. AcceptorOK'
    BY <2>1 DEF AcceptorOK
  <2> QED
    BY <2>3, <2>4, <2>5 DEF SlotIsServed, OpenAreHeld, SlotWatched
<1> QED
  BY <1>2, <1>3, <1>4 DEF AcceptStep

LEMMA SlotRead ==
  ASSUME Sized, SlotInv, ReadStep
  PROVE  SlotIsServed' /\ AcceptorOK'
<1>1. CASE RecvFile \/ ReadAll
  <2>1. UNCHANGED <<link, parser, event, acceptor, ending>>
    BY <1>1 DEF RecvFile, ReadAll, wires
  <2> QED
    BY <2>1, Kept DEF event
<1>2. CASE ReadEnd
  <2>1. UNCHANGED <<link, parser, event, acceptor>> /\ ending = "no"
    BY <1>2 DEF ReadEnd, wires
  <2>2. \A s \in Session : Held(s)' <=> Held(s)
    BY <2>1 DEF Held, event, acceptor
  <2>3. SlotIsServed'
    BY <2>1, <2>2 DEF SlotInv, SlotIsServed, event, acceptor
  <2>4. AcceptorOK'
    BY <2>1 DEF SlotInv, AcceptorOK, event, acceptor
  <2> QED
    BY <2>3, <2>4
<1>3. CASE DeleteAtEnd
  <2>1. UNCHANGED <<link, parser, slot, acceptor>> /\ ending' = "clear" /\ m_status' = FALSE
    BY <1>3 DEF DeleteAtEnd, EventDel, wires
  <2>2. \A s \in Session : Held(s)' <=> Held(s)
    BY <2>1 DEF Held, acceptor
  <2>3. SlotIsServed'
    BY <2>1, <2>2 DEF SlotInv, SlotIsServed
  <2>4. AcceptorOK'
    BY <2>1 DEF SlotInv, AcceptorOK, acceptor
  <2> QED
    BY <2>3, <2>4
<1>4. CASE ClearAtEnd
  BY <1>4, Emptied DEF ClearAtEnd
<1> QED
  BY <1>1, <1>2, <1>3, <1>4 DEF ReadStep

LEMMA SlotControl ==
  ASSUME Sized, SlotInv, NEW s \in Session, ControlStep(s)
  PROVE  SlotIsServed' /\ AcceptorOK'
<1>0. parser \in [Session -> Parser] /\ parser[s] \in Parser
  BY DEF SlotInv, TypeOK, DownloadTyped
<1>1. CASE HandleStor(s) \/ (HandleAllo(s) /\ slot # None)
  <2>1. /\ parser[s] = Idle /\ UNCHANGED <<link, event, acceptor, reader>>
        /\ \E what \in {"setFd", "send"} : parser' = [parser EXCEPT ![s] = Doing(what, slot, 0)]
    BY <1>1 DEF HandleStor, HandleAllo, NextMessage, Parse
  <2>2. /\ parser[s].sock = None /\ parser[s].at = "idle" /\ parser'[s].sock = slot
        /\ \A t \in Session \ {s} : parser'[t] = parser[t]
    BY <1>0, <2>1 DEF Idle, Doing
  <2> QED
    BY <2>1, <2>2, Kept DEF event, reader
<1>2. CASE HandleRetr(s) \/ (HandleAllo(s) /\ slot = None)
  <2>1. UNCHANGED <<link, parser, event, acceptor, reader>>
    BY <1>2 DEF HandleRetr, HandleAllo
  <2> QED
    BY <2>1, Kept DEF event, reader
<1>3. CASE SetFd(s) \/ SendDone(s) \/ SendFails(s)
  <2>1. /\ Parse(s, Idle) /\ parser[s].at # "clear" /\ CloseUnheld
        /\ UNCHANGED <<slot, m_status, acceptor, reader>>
    BY <1>3 DEF SetFd, SendDone, SendFails
  <2> QED
    BY <2>1, Dropped
<1>4. CASE SendChunk(s)
  <2>1. /\ UNCHANGED <<link, event, acceptor, reader>> /\ parser[s].at = "send"
        /\ \E k : parser' = [parser EXCEPT ![s] = Doing("send", parser[s].sock, k)]
    BY <1>4 DEF SendChunk, Parse
  <2>2. /\ parser'[s].sock = parser[s].sock
        /\ \A t \in Session \ {s} : parser'[t] = parser[t]
    BY <1>0, <2>1 DEF Doing
  <2> QED
    BY <2>1, <2>2, Kept DEF event, reader
<1>5. CASE HandleEnd(s)
  <2>1. /\ parser[s] = Idle /\ parser' = [parser EXCEPT ![s] = Doing("clear", None, 0)]
        /\ m_status' = FALSE /\ UNCHANGED <<link, slot, acceptor>>
    BY <1>5 DEF HandleEnd, NextMessage, Parse, EventDel
  <2>2. /\ parser[s].sock = None /\ parser'[s].sock = None /\ parser'[s].at = "clear"
        /\ \A t \in Session \ {s} : parser'[t] = parser[t]
    BY <1>0, <2>1 DEF Idle, Doing
  <2>3. \A t \in Session : Held(t)' <=> Held(t)
    BY <2>1, <2>2 DEF Held, acceptor, Sized
  <2>4. SlotIsServed'
    BY <2>1, <2>2, <2>3 DEF SlotInv, SlotIsServed
  <2>5. AcceptorOK'
    BY <2>1 DEF SlotInv, AcceptorOK, acceptor
  <2> QED
    BY <2>4, <2>5
<1>6. CASE Clear(s)
  <2>1. ClearSlot /\ CloseUnheld /\ UNCHANGED acceptor /\ parser' = [parser EXCEPT ![s] = Idle]
    BY <1>6 DEF Clear, Parse
  <2>2. \A t \in Session : parser'[t].sock \in {parser[t].sock, None}
    BY <1>0, <2>1 DEF Idle, Doing
  <2> QED
    BY <2>1, <2>2, Emptied
<1> QED
  BY <1>1, <1>2, <1>3, <1>4, <1>5, <1>6 DEF ControlStep

LEMMA SlotClient ==
  ASSUME Sized, SlotInv, NEW s \in Session, Ask(s) \/ Abort(s) \/ ClientStep(s)
  PROVE  SlotIsServed' /\ AcceptorOK'
<1>1. UNCHANGED <<parser, event, acceptor, reader>>
  BY DEF Ask, Abort, ClientStep, SeeReply, Connect, SendBytes, SayAllo, ReceiveBytes
<1>2. \A t \in Session : Held(t)' <=> Held(t)
  BY <1>1 DEF Held, event, acceptor
<1>3. \A t \in Session : link'[t] \in {"up", "closed"} <=> link[t] \in {"up", "closed"}
  <2>1. \/ UNCHANGED link
        \/ link[s] = "none" /\ link' = [link EXCEPT ![s] = "backlog"]
        \/ link[s] = "up" /\ link' = [link EXCEPT ![s] = "closed"]
    BY DEF Ask, Abort, ClientStep, SeeReply, Connect, SendBytes, SayAllo, ReceiveBytes
  <2> QED
    BY <2>1 DEF SlotInv, TypeOK, WiresTyped
<1>4. SlotIsServed'
  BY <1>1, <1>2, <1>3 DEF SlotInv, SlotIsServed, event, acceptor, reader
<1>5. AcceptorOK'
  BY <1>1 DEF SlotInv, AcceptorOK, event, acceptor
<1> QED
  BY <1>4, <1>5

LEMMA SlotInit == ASSUME Sized, Init PROVE SlotInv
<1>1. /\ slot = None /\ taken = None /\ accepting = "accept" /\ link = [s \in Session |-> "none"]
      /\ parser = [s \in Session |-> Idle]
  BY DEF Init
<1>2. \A s \in Session : ~Held(s)
  BY <1>1 DEF Held, Idle, Doing, Sized
<1>3. SlotIsServed
  BY <1>1, <1>2 DEF SlotIsServed
<1>4. AcceptorOK
  BY <1>1 DEF AcceptorOK
<1> QED
  BY <1>3, <1>4, TypeInit DEF SlotInv

LEMMA SlotStep == ASSUME Sized, SlotInv, [Next]_vars PROVE SlotInv'
<1>1. TypeOK'
  BY TypeStep DEF SlotInv
<1>2. CASE UNCHANGED vars
  <2>1. UNCHANGED <<link, parser, event, acceptor, ending>>
    BY <1>2 DEF vars, wires, reader
  <2> QED
    BY <1>1, <2>1, Kept DEF event, SlotInv
<1> QED
  BY <1>1, <1>2, SlotClient, SlotControl, SlotAccept, SlotRead DEF Next, SlotInv

(* Ftp: whatever several clients do at once, an open data connection is in  *)
(* the slot, or in the hands of filedata_acceptconnect or of a worker that  *)
(* still sends on it, and what these point to is open.  And epoll watches   *)
(* the one in the slot, unless eventadd is next or a worker is between the  *)
(* two halves of free_client_resources: no client is connected and never    *)
(* read, in whatever order links are accepted, replaced and freed.          *)
THEOREM SlotAndLinks == ASSUME Sized PROVE Spec => []SlotIsServed
<1>1. SlotInv => SlotIsServed
  BY DEF SlotInv
<1> QED
  BY <1>1, SlotInit, SlotStep, PTL DEF Spec

-----------------------------------------------------------------------------
(* Calm behaviours *)

\* The clients a calm behaviour has no use for.
OthersRest ==
  \A t \in Session \ {Only} :
    /\ phase[t] = "idle" /\ control[t] = << >> /\ reply[t] = "none" /\ link[t] = "none"
    /\ inward[t] = 0 /\ outward[t] = 0 /\ parser[t] = Idle

\* All the server knows is about Only, and nothing is given up.
ServesOnly ==
  /\ slot \in {Only, None} /\ taken \in {Only, None} /\ m_fd \in {Only, None}
  /\ ending = "no" /\ link[Only] # "closed" /\ parser[Only].sock \in {slot, None}

\* No worker is sending or about to clear the slot.
Quiet == parser[Only].at \in {"idle", "setFd"}

\* Bytes that server_2_client_sendFile has yet to send.
Unsent == FileSize - parser[Only].sendSize

\* A worker that is sending has sent the bytes that Only does not wait for, and
\* the next ones are where its file is read.
SendingOK ==
  parser[Only].at = "send" =>
    /\ parser[Only].sock = Only
    /\ IF phase[Only] = "moving" THEN left[Only] = outward[Only] + Unsent /\ Unsent >= 0
       ELSE Unsent = 0
    /\ Unsent > 0 => file_fd = Only /\ filePos = parser[Only].sendSize

\* No upload is open, and none has left anything behind ...
NoUpload == file = None /\ filesize = 0 /\ filerecv = 0 /\ inward[Only] = 0

\* ... or one is, and so many bytes are still to come.
Uploading(rest) ==
  /\ file = Only /\ filesize = size[Only] /\ filesize - filerecv = rest
  /\ stored[Only] = [i \in 1..filerecv |-> Only]

\* A download is open, and none of its bytes have been read.
Opened == FileSize = left[Only] /\ file_fd = Only /\ filePos = 0

IdleOK ==
  /\ control[Only] \in {<< >>, <<"MSG_SUCCESSED">>} /\ reply[Only] = "none"
  /\ NoUpload /\ outward[Only] = 0

\* The request has not been handled, or its answer has not been seen.
Waiting ==
  /\ reply[Only] = "none" /\ NoUpload
  /\ control[Only] \in {<<kind[Only]>>, <<"MSG_SUCCESSED", kind[Only]>>}
  /\ stored[Only] = << >>
Answered ==
  /\ control[Only] = << >> /\ Quiet
  /\ IF kind[Only] = "STOR"
     THEN reply[Only] = "220" /\ inward[Only] = 0 /\ Uploading(left[Only])
     ELSE /\ NoUpload /\ reply[Only] \in {"150", "550"}
          /\ reply[Only] = "150" => Opened
AskedOK ==
  /\ left[Only] = size[Only] /\ size[Only] < IntRange /\ outward[Only] = 0
  /\ Waiting \/ Answered

\* STOR: bytes are on their way, or all of them are in the file.
Stored ==
  /\ reply[Only] \in {"none", "200"} /\ NoUpload /\ left[Only] = 0
  /\ stored[Only] = [i \in 1..size[Only] |-> Only]
ReadyOK ==
  /\ control[Only] = << >> /\ Quiet /\ outward[Only] = 0
  /\ IF kind[Only] = "STOR"
     THEN (reply[Only] = "none" /\ Uploading(inward[Only] + left[Only])) \/ Stored
     ELSE reply[Only] = "none" /\ NoUpload /\ Opened

\* RETR: ALLO has not been handled, or has been.
Asking == control[Only] = <<"ALLO">> /\ Quiet /\ outward[Only] = 0 /\ Opened
Served == control[Only] = << >> /\ (Quiet => outward[Only] \in {0, left[Only]})
MovingOK ==
  /\ kind[Only] = "RETR" /\ reply[Only] = "none" /\ NoUpload /\ parser[Only].at # "clear"
  /\ Asking \/ Served

StageOK ==
  /\ phase[Only] = "idle" => IdleOK
  /\ phase[Only] = "asked" => AskedOK
  /\ phase[Only] = "ready" => ReadyOK
  /\ phase[Only] = "moving" => MovingOK

CalmInv == OthersRest /\ ServesOnly /\ SendingOK /\ StageOK

\* What a step of a calm behaviour starts from.
CalmState == Sized /\ SlotInv /\ calm /\ CalmInv /\ Only \in Session

LEMMA OnlyIsOne == ASSUME NEW s \in Session PROVE Only \in Session
BY DEF Only

LEMMA OthersStay ==
  ASSUME OthersRest,
         \A t \in Session \ {Only} :
           /\ phase'[t] = phase[t] /\ control'[t] = control[t] /\ reply'[t] = reply[t]
           /\ link'[t] = link[t] /\ inward'[t] = inward[t] /\ outward'[t] = outward[t]
           /\ parser'[t] = parser[t]
  PROVE  OthersRest'
BY DEF OthersRest

\* The values of Only.
LEMMA OnlyTyped ==
  ASSUME CalmState
  PROVE  /\ phase[Only] \in {"idle", "asked", "ready", "moving"} /\ kind[Only] \in {"STOR", "RETR"}
         /\ size[Only] \in Nat /\ left[Only] \in Nat /\ inward[Only] \in Nat /\ outward[Only] \in Nat
         /\ filesize \in Nat /\ filerecv \in Nat /\ FileSize \in Nat /\ filePos \in Nat
         /\ parser[Only].at \in {"idle", "setFd", "send", "clear"} /\ parser[Only].sendSize \in Nat
         /\ control[Only] \in Seq(Message)
<1>1. /\ phase[Only] \in {"idle", "asked", "ready", "moving"} /\ kind[Only] \in {"STOR", "RETR"}
      /\ size[Only] \in Nat /\ left[Only] \in Nat
  BY DEF CalmState, SlotInv, Sized, TypeOK, ClientsTyped
<1>2. inward[Only] \in Nat /\ outward[Only] \in Nat /\ control[Only] \in Seq(Message)
  BY DEF CalmState, SlotInv, Sized, TypeOK, WiresTyped, Count
<1>3. filesize \in Nat /\ filerecv \in Nat
  BY DEF CalmState, SlotInv, Sized, TypeOK, UploadTyped
<1>4. FileSize \in Nat /\ filePos \in Nat
  BY DEF CalmState, SlotInv, Sized, TypeOK, DownloadTyped
<1>5. parser[Only].at \in {"idle", "setFd", "send", "clear"} /\ parser[Only].sendSize \in Nat
  BY ParserTyped DEF CalmState, SlotInv, TypeOK
<1> QED
  BY <1>1, <1>2, <1>3, <1>4, <1>5

\* A value of Only that a step replaces; the other clients keep theirs.
LEMMA OnlyParses ==
  ASSUME CalmState, NEW p, Parse(Only, p)
  PROVE  parser'[Only] = p /\ \A t \in Session \ {Only} : parser'[t] = parser[t]
BY DEF Parse, CalmState, SlotInv, TypeOK, DownloadTyped

\* Nobody else does anything.
LEMMA OnlyActs ==
  ASSUME CalmState, NEW s \in Session,
         \/ Ask(s) \/ Abort(s) \/ SeeReply(s) \/ Connect(s) \/ SendBytes(s) \/ SayAllo(s)
         \/ ReceiveBytes(s) \/ Accept(s) \/ HandleStor(s) \/ SetFd(s) \/ HandleRetr(s)
         \/ HandleAllo(s) \/ SendChunk(s) \/ SendDone(s) \/ SendFails(s) \/ HandleEnd(s) \/ Clear(s)
  PROVE  s = Only /\ ~Abort(s)
<1>0. calm /\ OthersRest
  BY DEF CalmState, CalmInv
<1>1. ~Abort(s)
  BY <1>0 DEF Abort
<1>2. Ask(s) => s = Only
  BY <1>0 DEF Ask
<1>3. ASSUME s # Only
      PROVE  ~(SeeReply(s) \/ Connect(s) \/ SendBytes(s) \/ SayAllo(s) \/ ReceiveBytes(s) \/ Accept(s))
  BY <1>0, <1>3 DEF OthersRest, SeeReply, Connect, SendBytes, SayAllo, ReceiveBytes, Accept
<1>4. ASSUME s # Only
      PROVE  ~(HandleStor(s) \/ HandleRetr(s) \/ HandleAllo(s) \/ HandleEnd(s))
  BY <1>0, <1>4 DEF OthersRest, HandleStor, HandleRetr, HandleAllo, HandleEnd, NextMessage
<1>5. ASSUME s # Only
      PROVE  ~(SetFd(s) \/ SendChunk(s) \/ SendDone(s) \/ SendFails(s) \/ Clear(s))
  <2>1. parser[s].at = "idle"
    BY <1>0, <1>5 DEF OthersRest, Idle, Doing
  <2> QED
    BY <2>1 DEF SetFd, SendChunk, SendDone, SendFails, Clear
<1> QED
  BY <1>1, <1>2, <1>3, <1>4, <1>5

\* Nothing is closed while all that is pointed to stays so.
LEMMA NoneClosed ==
  ASSUME SlotInv, CloseUnheld, \A s \in Session : Held(s) => Held(s)'
  PROVE  UNCHANGED <<link, inward, outward, watched>>
<1>1. /\ link \in [Session -> {"none", "backlog", "up", "closed"}]
      /\ inward \in [Session -> Nat] /\ outward \in [Session -> 0..MaxOut]
  BY DEF SlotInv, TypeOK, WiresTyped, Count
<1>2. PICK gone :
        /\ gone = {s \in Session : link[s] \in {"up", "closed"} /\ ~Held(s)'}
        /\ link' = [s \in Session |-> IF s \in gone THEN "none" ELSE link[s]]
        /\ inward' = [s \in Session |-> IF s \in gone THEN 0 ELSE inward[s]]
        /\ outward' = [s \in Session |-> IF s \in gone THEN 0 ELSE outward[s]]
        /\ watched' = watched \ gone
  BY DEF CloseUnheld
<1>3. \A s \in Session : link[s] \in {"up", "closed"} => Held(s)
  BY DEF SlotInv, SlotIsServed
<1>4. gone = {}
  BY <1>2, <1>3
<1> QED
  BY <1>1, <1>2, <1>4

\* The worker of the one client drops its pointer: the slot has the link, too.
LEMMA CalmDropped ==
  ASSUME CalmState, CloseUnheld, Parse(Only, Idle), slot' = slot, taken' = taken
  PROVE  UNCHANGED <<link, inward, outward, watched>>
<1>1. parser'[Only] = Idle /\ \A t \in Session \ {Only} : parser'[t] = parser[t]
  BY OnlyParses
<1>2. ASSUME NEW s \in Session, Held(s) PROVE Held(s)'
  <2>1. parser[Only].sock \in {slot, None} /\ s # None
    BY DEF CalmState, Sized, CalmInv, ServesOnly
  <2>2. CASE s \in {slot, taken}
    BY <2>2 DEF Held
  <2>3. ASSUME NEW t \in Session, parser[t].sock = s PROVE Held(s)'
    <3>1. CASE t = Only
      BY <2>1, <2>3, <3>1 DEF Held
    <3>2. CASE t # Only
      BY <1>1, <2>3, <3>2 DEF Held
    <3> QED
      BY <3>1, <3>2
  <2> QED
    BY <1>2, <2>2, <2>3 DEF Held
<1> QED
  BY <1>2, NoneClosed DEF CalmState

\* What queues of one and two messages are.
LEMMA AppendToOne == ASSUME NEW S, NEW c \in S, NEW k \in S PROVE Append(<<c>>, k) = <<c, k>>
<1> DEFINE q == Append(<<c>>, k)
<1>1. <<c>> \in Seq(S) /\ Len(<<c>>) = 1 /\ <<c>>[1] = c
  OBVIOUS
<1>2. q \in Seq(S) /\ Len(q) = 2 /\ q[1] = c /\ q[2] = k
  BY <1>1, AppendProperties
<1>3. /\ <<c, k>> \in Seq(S) /\ Len(<<c, k>>) = 2
      /\ <<c, k>>[1] = c /\ <<c, k>>[2] = k
  OBVIOUS
<1>4. \A i \in 1..2 : q[i] = <<c, k>>[i]
  BY <1>2, <1>3
<1> HIDE DEF q
<1>5. q = <<c, k>>
  BY <1>2, <1>3, <1>4, SeqEqual
<1> QED
  BY <1>5 DEF q

LEMMA Queued ==
  ASSUME NEW k \in Message
  PROVE  Append(<< >>, k) = <<k>> /\ Append(<<"MSG_SUCCESSED">>, k) = <<"MSG_SUCCESSED", k>>
<1>1. "MSG_SUCCESSED" \in Message
  BY DEF Message
<1> QED
  BY <1>1, AppendToOne

LEMMA Taken ==
  ASSUME NEW c, NEW k
  PROVE  /\ <<c>> # << >> /\ Head(<<c>>) = c /\ Tail(<<c>>) = << >>
         /\ <<c, k>> # << >> /\ Head(<<c, k>>) = c /\ Tail(<<c, k>>) = <<k>>
OBVIOUS

LEMMA CalmInit == ASSUME Sized, Init, NEW s \in Session PROVE CalmInv
<1>1. Only \in Session
  BY OnlyIsOne
<1>2. OthersRest
  BY DEF Init, OthersRest
<1>3. parser[Only] = Idle /\ phase[Only] = "idle"
  BY <1>1 DEF Init
<1>4. parser[Only].at = "idle" /\ parser[Only].sock = None
  BY <1>3 DEF Idle, Doing
<1>5. ServesOnly
  BY <1>1, <1>4 DEF Init, ServesOnly
<1>6. IdleOK
  BY <1>1 DEF Init, IdleOK, NoUpload
<1> QED
  BY <1>2, <1>3, <1>4, <1>5, <1>6 DEF CalmInv, SendingOK, StageOK

LEMMA CalmAsk == ASSUME CalmState, Ask(Only) PROVE CalmInv'
<1>1. PICK k \in {"STOR", "RETR"}, n \in 0..MaxSize :
        /\ n < IntRange /\ kind' = [kind EXCEPT ![Only] = k] /\ Say(Only, k)
        /\ size' = [size EXCEPT ![Only] = n] /\ left' = [left EXCEPT ![Only] = n]
  BY DEF Ask, CalmState
<1>2. /\ phase[Only] = "idle" /\ phase' = [phase EXCEPT ![Only] = "asked"]
      /\ stored' = [stored EXCEPT ![Only] = << >>]
      /\ UNCHANGED <<reply, link, inward, outward, dc2s, m_fd, ds2c, parser, event, acceptor, reader>>
  BY DEF Ask, Goto
<1>3. IdleOK /\ Only \in Session
  BY <1>2 DEF CalmState, CalmInv, StageOK
<1>4. /\ phase'[Only] = "asked" /\ kind'[Only] = k /\ size'[Only] = n /\ left'[Only] = n
      /\ stored'[Only] = << >>
  BY <1>1, <1>2 DEF CalmState, SlotInv, TypeOK, ClientsTyped, UploadTyped, Sized
<1>5. control'[Only] = Append(control[Only], k)
  BY <1>1 DEF Say, CalmState, SlotInv, TypeOK, WiresTyped
<1>6. control'[Only] \in {<<k>>, <<"MSG_SUCCESSED", k>>}
  <2>1. k \in Message
    BY DEF Message
  <2>2. CASE control[Only] = << >>
    BY <1>5, <2>1, <2>2, Queued
  <2>3. CASE control[Only] = <<"MSG_SUCCESSED">>
    BY <1>5, <2>1, <2>3, Queued
  <2> QED
    BY <1>3, <2>2, <2>3 DEF IdleOK
<1>7. NoUpload' /\ reply'[Only] = "none" /\ outward'[Only] = 0
  BY <1>2, <1>3 DEF IdleOK, NoUpload, dc2s
<1>8. AskedOK'
  BY <1>1, <1>4, <1>6, <1>7 DEF AskedOK, Waiting
<1>9. OthersRest'
  <2>1. \A t \in Session \ {Only} : phase'[t] = phase[t] /\ control'[t] = control[t]
    BY <1>1, <1>2 DEF Say, CalmState, SlotInv, TypeOK, WiresTyped, ClientsTyped
  <2> QED
    BY <1>2, <2>1, OthersStay DEF CalmState, CalmInv
<1>10. SendingOK'
  BY <1>2, <1>4 DEF CalmState, CalmInv, SendingOK, Unsent, ds2c
<1>11. ServesOnly'
  BY <1>2 DEF CalmState, CalmInv, ServesOnly, event, acceptor, reader
<1> QED
  BY <1>4, <1>8, <1>9, <1>10, <1>11 DEF CalmInv, StageOK

\* Steps that only concern the connection and who is told.
LEMMA StageStays ==
  ASSUME CalmInv,
         UNCHANGED <<client, control, reply, inward, outward, stored, dc2s, ds2c>>,
         UNCHANGED parser \/ (Quiet /\ Quiet')
  PROVE  SendingOK' /\ StageOK'
<1>0. (Quiet' <=> Quiet) /\ (parser'[Only].at = "clear" <=> parser[Only].at = "clear")
  BY DEF Quiet
<1>1. SendingOK'
  BY DEF CalmInv, SendingOK, Unsent, Quiet, client, ds2c
<1>2. NoUpload' <=> NoUpload
  BY DEF NoUpload, dc2s
<1>3. Opened' <=> Opened
  BY DEF Opened, client, ds2c
<1>4. IdleOK' <=> IdleOK
  BY <1>2 DEF IdleOK
<1>5. AskedOK' <=> AskedOK
  BY <1>0, <1>2, <1>3 DEF AskedOK, Waiting, Answered, Uploading, client, dc2s
<1>6. ReadyOK' <=> ReadyOK
  BY <1>0, <1>2, <1>3 DEF ReadyOK, Stored, Uploading, client, dc2s
<1>7. MovingOK' <=> MovingOK
  BY <1>0, <1>2, <1>3 DEF MovingOK, Asking, Served, client
<1> QED
  BY <1>1, <1>4, <1>5, <1>6, <1>7 DEF CalmInv, StageOK, client

LEMMA CalmConnect == ASSUME CalmState, Connect(Only) PROVE CalmInv'
<1>1. /\ link' = [link EXCEPT ![Only] = "backlog"]
      /\ UNCHANGED <<client, control, reply, inward, outward, stored, dc2s, m_fd, ds2c, parser,
                     event, acceptor, reader>>
  BY DEF Connect
<1>2. SendingOK' /\ StageOK'
  BY <1>1, StageStays DEF CalmState
<1>3. ServesOnly'
  BY <1>1 DEF CalmState, SlotInv, CalmInv, ServesOnly, TypeOK, WiresTyped, event, acceptor, reader
<1>4. OthersRest'
  BY <1>1, OthersStay DEF CalmState, SlotInv, CalmInv, TypeOK, WiresTyped, client
<1> QED
  BY <1>2, <1>3, <1>4 DEF CalmInv

LEMMA CalmSetFd == ASSUME CalmState, SetFd(Only) PROVE CalmInv'
<1>1. /\ Parse(Only, Idle) /\ parser[Only].at = "setFd" /\ m_fd' = Only /\ CloseUnheld
      /\ UNCHANGED <<client, control, reply, stored, dc2s, ds2c, slot, m_status, acceptor, reader>>
  BY DEF SetFd
<1>2. UNCHANGED <<link, inward, outward, watched>>
  BY <1>1, CalmDropped DEF acceptor
<1>3. /\ parser'[Only].at = "idle" /\ parser'[Only].sock = None
      /\ \A t \in Session \ {Only} : parser'[t] = parser[t]
  BY <1>1, OnlyParses DEF Idle, Doing
<1>4. SendingOK' /\ StageOK'
  BY <1>1, <1>2, <1>3, StageStays DEF CalmState, Quiet
<1>5. ServesOnly'
  BY <1>1, <1>2, <1>3 DEF CalmState, CalmInv, ServesOnly, acceptor, reader
<1>6. OthersRest'
  BY <1>1, <1>2, <1>3, OthersStay DEF CalmState, CalmInv, client
<1> QED
  BY <1>4, <1>5, <1>6 DEF CalmInv

\* The accept handler and the loop that reads leave the transfers alone.
LEMMA CalmAccept == ASSUME CalmState, AcceptStep PROVE CalmInv'
<1>1. ASSUME NEW s \in Session, Accept(s) PROVE CalmInv'
  <2>1. s = Only
    BY <1>1, OnlyActs
  <2>2. /\ taken' = Only /\ link' = [link EXCEPT ![Only] = "up"]
        /\ UNCHANGED <<client, control, reply, inward, outward, stored, dc2s, m_fd, ds2c, parser, slot,
                       reader>>
    BY <1>1, <2>1 DEF Accept
  <2>3. SendingOK' /\ StageOK'
    BY <2>2, StageStays DEF CalmState
  <2>4. ServesOnly'
    BY <2>2 DEF CalmState, SlotInv, CalmInv, ServesOnly, TypeOK, WiresTyped, reader
  <2>5. OthersRest'
    BY <2>2, OthersStay DEF CalmState, SlotInv, CalmInv, TypeOK, WiresTyped, client
  <2> QED
    BY <2>3, <2>4, <2>5 DEF CalmInv
<1>2. CASE SetSlot
  <2>1. /\ CloseUnheld /\ accepting = "set" /\ slot' = taken
        /\ UNCHANGED <<client, control, reply, stored, dc2s, m_fd, ds2c, parser, taken, reader>>
    BY <1>2 DEF SetSlot
  <2>2. taken = Only
    BY <2>1 DEF CalmState, SlotInv, AcceptorOK, CalmInv, ServesOnly
  <2>3. \A s \in Session : Held(s) => Held(s)'
    BY <2>1, <2>2 DEF Held, CalmState, CalmInv, ServesOnly, Sized
  <2>4. UNCHANGED <<link, inward, outward, watched>>
    BY <2>1, <2>3, NoneClosed DEF CalmState
  <2>5. SendingOK' /\ StageOK'
    BY <2>1, <2>4, StageStays DEF CalmState
  <2>6. ServesOnly'
    BY <2>1, <2>2, <2>4 DEF CalmState, CalmInv, ServesOnly, reader
  <2>7. OthersRest'
    BY <2>1, <2>4, OthersStay DEF CalmState, CalmInv, client
  <2> QED
    BY <2>5, <2>6, <2>7 DEF CalmInv
<1>3. CASE AddEvent
  <2>1. taken' = None /\ UNCHANGED <<client, wires, stored, dc2s, m_fd, ds2c, parser, slot, reader>>
    BY <1>3 DEF AddEvent
  <2>2. SendingOK' /\ StageOK'
    BY <2>1, StageStays DEF CalmState, wires
  <2>3. ServesOnly'
    BY <2>1 DEF CalmState, CalmInv, ServesOnly, wires, reader
  <2>4. OthersRest'
    BY <2>1, OthersStay DEF CalmState, CalmInv, client, wires
  <2> QED
    BY <2>2, <2>3, <2>4 DEF CalmInv
<1> QED
  BY <1>1, <1>2, <1>3 DEF AcceptStep

LEMMA CalmReadAll == ASSUME CalmState, ReadAll PROVE CalmInv'
<1>1. UNCHANGED <<client, wires, stored, dc2s, m_fd, ds2c, parser, event, acceptor, ending>>
  BY DEF ReadAll
<1>2. SendingOK' /\ StageOK'
  BY <1>1, StageStays DEF CalmState, wires
<1>3. ServesOnly'
  BY <1>1 DEF CalmState, CalmInv, ServesOnly, wires, event, acceptor
<1>4. OthersRest'
  BY <1>1, OthersStay DEF CalmState, CalmInv, client, wires
<1> QED
  BY <1>2, <1>3, <1>4 DEF CalmInv

LEMMA CalmSeeReply == ASSUME CalmState, SeeReply(Only) PROVE CalmInv'
<1>1. /\ reply[Only] # "none" /\ reply' = [reply EXCEPT ![Only] = "none"]
      /\ phase' = [phase EXCEPT ![Only] = IF reply[Only] \in {"220", "150"} THEN "ready" ELSE "idle"]
      /\ UNCHANGED <<kind, size, left, jobs, control, link, inward, outward, stored, dc2s, m_fd, ds2c,
                     parser, event, acceptor, reader>>
  BY DEF SeeReply, Goto
<1>2. /\ reply'[Only] = "none"
      /\ phase'[Only] = IF reply[Only] \in {"220", "150"} THEN "ready" ELSE "idle"
  BY <1>1 DEF CalmState, SlotInv, TypeOK, ClientsTyped, WiresTyped
<1>3. phase[Only] \notin {"idle", "moving"}
  BY <1>1 DEF CalmState, CalmInv, StageOK, IdleOK, MovingOK
<1>4. ServesOnly'
  BY <1>1 DEF CalmState, CalmInv, ServesOnly, event, acceptor, reader
<1>5. OthersRest'
  BY <1>1, OthersStay DEF CalmState, SlotInv, CalmInv, TypeOK, ClientsTyped, WiresTyped
<1>6. CASE phase[Only] = "asked"
  <2>1. AskedOK /\ Answered
    BY <1>1, <1>6 DEF CalmState, CalmInv, StageOK, AskedOK, Waiting
  <2>2. Quiet /\ Quiet'
    BY <1>1, <2>1 DEF Answered, Quiet
  <2>3. SendingOK'
    BY <2>2 DEF SendingOK, Quiet
  <2>4. CASE kind[Only] = "STOR"
    <3>1. reply[Only] = "220" /\ inward[Only] = 0 /\ Uploading(left[Only])
      BY <2>1, <2>4 DEF Answered
    <3>2. Uploading(inward[Only] + left[Only])'
      BY <1>1, <3>1, OnlyTyped DEF Uploading, dc2s
    <3>3. ReadyOK'
      BY <1>1, <1>2, <2>1, <2>2, <2>4, <3>1, <3>2 DEF AskedOK, Answered, ReadyOK
    <3> QED
      BY <1>2, <1>4, <1>5, <2>3, <3>1, <3>3 DEF CalmInv, StageOK
  <2>5. CASE kind[Only] # "STOR"
    <3>1. NoUpload /\ reply[Only] \in {"150", "550"} /\ (reply[Only] = "150" => Opened)
      BY <2>1, <2>5 DEF Answered
    <3>2. NoUpload' /\ (Opened => Opened')
      BY <1>1, <3>1 DEF NoUpload, Opened, dc2s, ds2c
    <3>3. CASE reply[Only] = "150"
      <4>1. ReadyOK'
        BY <1>1, <1>2, <2>1, <2>2, <2>5, <3>1, <3>2, <3>3 DEF AskedOK, Answered, ReadyOK
      <4> QED
        BY <1>2, <1>4, <1>5, <2>3, <3>3, <4>1 DEF CalmInv, StageOK
    <3>4. CASE reply[Only] = "550"
      <4>1. IdleOK'
        BY <1>1, <1>2, <2>1, <3>2 DEF AskedOK, Answered, IdleOK
      <4> QED
        BY <1>2, <1>4, <1>5, <2>3, <3>4, <4>1 DEF CalmInv, StageOK
    <3> QED
      BY <3>1, <3>3, <3>4
  <2> QED
    BY <2>4, <2>5
<1>7. CASE phase[Only] = "ready"
  <2>1. ReadyOK
    BY <1>7 DEF CalmState, CalmInv, StageOK
  <2>2. Stored /\ reply[Only] = "200"
    BY <1>1, <2>1 DEF ReadyOK, Stored
  <2>3. IdleOK'
    BY <1>1, <1>2, <2>1, <2>2 DEF ReadyOK, Stored, IdleOK, NoUpload, dc2s
  <2>4. SendingOK'
    BY <1>1, <2>1 DEF ReadyOK, Quiet, SendingOK
  <2> QED
    BY <1>2, <1>4, <1>5, <2>2, <2>3, <2>4 DEF CalmInv, StageOK
<1> QED
  BY <1>3, <1>6, <1>7, OnlyTyped

LEMMA CalmSendBytes == ASSUME CalmState, SendBytes(Only) PROVE CalmInv'
<1>1. PICK n \in 1..left[Only] :
        left' = [left EXCEPT ![Only] = @ - n] /\ inward' = [inward EXCEPT ![Only] = @ + n]
  BY DEF SendBytes
<1>2. /\ phase[Only] = "ready" /\ kind[Only] = "STOR"
      /\ UNCHANGED <<phase, kind, size, jobs, control, reply, link, outward, stored, dc2s, m_fd, ds2c,
                     parser, event, acceptor, reader>>
  BY DEF SendBytes
<1>3. left'[Only] = left[Only] - n /\ inward'[Only] = inward[Only] + n
  BY <1>1 DEF CalmState, SlotInv, TypeOK, ClientsTyped, WiresTyped, Count
<1>4. /\ ReadyOK /\ reply[Only] = "none" /\ Uploading(inward[Only] + left[Only])
  BY <1>1, <1>2, OnlyTyped DEF CalmState, CalmInv, StageOK, ReadyOK, Stored
<1>5. inward'[Only] + left'[Only] = inward[Only] + left[Only]
  BY <1>1, <1>3, OnlyTyped
<1>6. Uploading(inward[Only] + left[Only])'
  BY <1>2, <1>4, <1>5 DEF Uploading, dc2s
<1>7. ReadyOK' /\ phase'[Only] = "ready" /\ Quiet'
  BY <1>2, <1>4, <1>6 DEF ReadyOK, Quiet
<1>8. OthersRest'
  BY <1>1, <1>2, OthersStay DEF CalmState, SlotInv, CalmInv, TypeOK, ClientsTyped, WiresTyped, Count
<1>9. ServesOnly'
  BY <1>2 DEF CalmState, CalmInv, ServesOnly, event, acceptor, reader
<1>10. SendingOK'
  BY <1>7 DEF SendingOK, Quiet
<1> QED
  BY <1>7, <1>8, <1>9, <1>10 DEF CalmInv, StageOK

LEMMA CalmSayAllo == ASSUME CalmState, SayAllo(Only) PROVE CalmInv'
<1>1. /\ phase[Only] = "ready" /\ kind[Only] = "RETR"
      /\ phase' = [phase EXCEPT ![Only] = "moving"] /\ control' = [control EXCEPT ![Only] = Append(@, "ALLO")]
      /\ UNCHANGED <<kind, size, left, jobs, reply, link, inward, outward, stored, dc2s, m_fd, ds2c,
                     parser, event, acceptor, reader>>
  BY DEF SayAllo, Say, Goto
<1>2. ReadyOK /\ NoUpload /\ Opened /\ Quiet /\ reply[Only] = "none"
  BY <1>1 DEF CalmState, CalmInv, StageOK, ReadyOK
<1>3. phase'[Only] = "moving" /\ control'[Only] = Append(control[Only], "ALLO")
  BY <1>1 DEF CalmState, SlotInv, TypeOK, ClientsTyped, WiresTyped
<1>4. control'[Only] = <<"ALLO">>
  BY <1>2, <1>3, Queued, MessageKinds DEF ReadyOK
<1>5. Asking'
  BY <1>1, <1>2, <1>4 DEF ReadyOK, Asking, Quiet, Opened, ds2c
<1>6. MovingOK'
  BY <1>1, <1>2, <1>5 DEF MovingOK, Quiet, NoUpload, dc2s
<1>7. OthersRest'
  BY <1>1, OthersStay DEF CalmState, SlotInv, CalmInv, TypeOK, ClientsTyped, WiresTyped
<1>8. ServesOnly'
  BY <1>1 DEF CalmState, CalmInv, ServesOnly, event, acceptor, reader
<1>9. SendingOK'
  BY <1>5 DEF SendingOK, Asking, Quiet
<1> QED
  BY <1>3, <1>6, <1>7, <1>8, <1>9 DEF CalmInv, StageOK

\* The last bytes are not taken before the last bytes have been sent.
LEMMA CalmReceiveBytes == ASSUME CalmState, ReceiveBytes(Only) PROVE CalmInv'
<1>1. /\ phase[Only] = "moving" /\ outward[Only] > 0
      /\ left' = [left EXCEPT ![Only] = IF outward[Only] > @ THEN 0 ELSE @ - outward[Only]]
      /\ outward' = [outward EXCEPT ![Only] = 0]
      /\ UNCHANGED <<kind, size, jobs, reply, link, inward, stored, dc2s, m_fd, ds2c, parser, event,
                     acceptor, reader>>
  BY DEF ReceiveBytes
<1>2. MovingOK /\ Served
  BY <1>1 DEF CalmState, CalmInv, StageOK, MovingOK, Asking
<1>3. outward'[Only] = 0 /\ left'[Only] = IF outward[Only] > left[Only] THEN 0 ELSE left[Only] - outward[Only]
  BY <1>1 DEF CalmState, SlotInv, TypeOK, ClientsTyped, WiresTyped
<1>4. NoUpload' /\ reply'[Only] = "none"
  BY <1>1, <1>2 DEF MovingOK, NoUpload, dc2s
<1>5. Quiet => left[Only] = outward[Only]
  BY <1>1, <1>2 DEF Served
<1>6. parser[Only].at = "send" =>
        /\ parser[Only].sock = Only /\ left[Only] = outward[Only] + Unsent /\ Unsent >= 0
        /\ Unsent > 0 => file_fd = Only /\ filePos = parser[Only].sendSize
  BY <1>1 DEF CalmState, CalmInv, SendingOK
<1>7. Unsent \in Int /\ Unsent' = Unsent
  BY <1>1, OnlyTyped DEF Unsent, ds2c
<1>8. parser[Only].at = "send" \/ Quiet
  BY <1>2, OnlyTyped DEF MovingOK, Quiet
<1>9. /\ Quiet => left'[Only] = 0
      /\ parser[Only].at = "send" => left'[Only] = Unsent
  BY <1>3, <1>5, <1>6, <1>7, OnlyTyped
<1>10. ServesOnly'
  BY <1>1 DEF CalmState, CalmInv, ServesOnly, event, acceptor, reader
<1>11. CASE left'[Only] > 0
  <2>1. UNCHANGED <<phase, control>>
    BY <1>11 DEF ReceiveBytes
  <2>2. SendingOK'
    <3>1. left'[Only] = Unsent => left'[Only] = outward'[Only] + Unsent'
      BY <1>3, <1>7
    <3> QED
      BY <1>1, <1>6, <1>7, <1>9, <2>1, <3>1 DEF SendingOK, ds2c
  <2>3. Served'
    BY <1>1, <1>2, <1>3, <2>1 DEF Served, Quiet
  <2>4. MovingOK'
    BY <1>1, <1>2, <1>4, <2>3 DEF MovingOK
  <2>5. OthersRest'
    BY <1>1, <2>1, OthersStay DEF CalmState, SlotInv, CalmInv, TypeOK, ClientsTyped, WiresTyped
  <2> QED
    BY <1>1, <1>10, <2>1, <2>2, <2>4, <2>5 DEF CalmInv, StageOK
<1>12. CASE ~(left'[Only] > 0)
  <2>1. phase' = [phase EXCEPT ![Only] = "idle"] /\ control' = [control EXCEPT ![Only] = Append(@, "MSG_SUCCESSED")]
    BY <1>12 DEF ReceiveBytes, Say, Goto
  <2>2. phase'[Only] = "idle" /\ control'[Only] = Append(control[Only], "MSG_SUCCESSED")
    BY <2>1 DEF CalmState, SlotInv, TypeOK, ClientsTyped, WiresTyped
  <2>3. control'[Only] = <<"MSG_SUCCESSED">>
    BY <1>2, <2>2, Queued, MessageKinds DEF Served
  <2>4. IdleOK'
    BY <1>3, <1>4, <2>3 DEF IdleOK
  <2>5. parser[Only].at = "send" => Unsent' = 0
    BY <1>6, <1>7, <1>9, <1>12
  <2>6. SendingOK'
    BY <1>1, <1>6, <2>2, <2>5 DEF SendingOK
  <2>7. OthersRest'
    BY <1>1, <2>1, OthersStay DEF CalmState, SlotInv, CalmInv, TypeOK, ClientsTyped, WiresTyped
  <2> QED
    BY <1>10, <2>2, <2>4, <2>6, <2>7 DEF CalmInv, StageOK
<1> QED
  BY <1>11, <1>12

\* The bytes of two readings, one behind the other.
LEMMA Appended ==
  ASSUME NEW S, NEW s \in S, NEW k \in Nat, NEW n \in Nat
  PROVE  [i \in 1..k |-> s] \o [i \in 1..n |-> s] = [i \in 1..k + n |-> s]
OBVIOUS

LEMMA CalmRecvFile == ASSUME CalmState, RecvFile PROVE CalmInv'
<1>1. slot = Only /\ Only # None /\ inward[Only] > 0
  BY DEF RecvFile, Reads, CalmState, CalmInv, ServesOnly, Sized
<1>2. phase[Only] = "ready" /\ kind[Only] = "STOR"
  BY <1>1, OnlyTyped DEF CalmState, CalmInv, StageOK, IdleOK, AskedOK, Waiting, Answered, ReadyOK,
     MovingOK, NoUpload
<1>3. ReadyOK /\ reply[Only] = "none" /\ Uploading(inward[Only] + left[Only])
  BY <1>1, <1>2 DEF CalmState, CalmInv, StageOK, ReadyOK, Stored, NoUpload
<1>4. /\ file = Only /\ filesize = size[Only] /\ filesize - filerecv = inward[Only] + left[Only]
      /\ stored[Only] = [i \in 1..filerecv |-> Only]
  BY <1>3 DEF Uploading
<1>5. PICK n \in 1..inward[Only] :
        /\ inward' = [inward EXCEPT ![Only] = @ - n]
        /\ stored' = [stored EXCEPT ![Only] = @ \o [i \in 1..n |-> Only]]
        /\ IF Complete(filerecv + n)
           THEN filesize' = 0 /\ file' = None /\ Reply(m_fd, "200")
           ELSE UNCHANGED <<filesize, file, reply>>
        /\ filerecv' = CountAfter(filerecv + n)
  <2>1. PICK n \in 1..inward[slot] : \E kept \in 0..n, whole \in BOOLEAN :
          LET received == IF whole THEN filerecv + n ELSE filerecv IN
          /\ Written(n, kept, whole)
          /\ inward' = [inward EXCEPT ![slot] = @ - n]
          /\ stored' = IF file = None THEN stored
                       ELSE [stored EXCEPT ![file] = @ \o [i \in 1..kept |-> slot]]
          /\ IF Complete(received)
             THEN filesize' = 0 /\ file' = None /\ Reply(m_fd, "200")
             ELSE UNCHANGED <<filesize, file, reply>>
          /\ filerecv' = CountAfter(received)
    BY DEF RecvFile
  <2>2. PICK kept \in 0..n, whole \in BOOLEAN :
          LET received == IF whole THEN filerecv + n ELSE filerecv IN
          /\ Written(n, kept, whole)
          /\ inward' = [inward EXCEPT ![slot] = @ - n]
          /\ stored' = IF file = None THEN stored
                       ELSE [stored EXCEPT ![file] = @ \o [i \in 1..kept |-> slot]]
          /\ IF Complete(received)
             THEN filesize' = 0 /\ file' = None /\ Reply(m_fd, "200")
             ELSE UNCHANGED <<filesize, file, reply>>
          /\ filerecv' = CountAfter(received)
    BY <2>1
  <2>3. kept = n /\ whole
    BY <1>1, <1>4, <2>2 DEF Written, MayFail, CalmState
  <2>4. n \in 1..inward[Only]
    BY <1>1
  <2> QED
    BY <1>1, <1>4, <2>2, <2>3, <2>4
<1>6. UNCHANGED <<client, control, link, outward, m_fd, ds2c, parser, event, acceptor, ending>>
  BY DEF RecvFile
<1>7. inward'[Only] = inward[Only] - n
  BY <1>5 DEF CalmState, SlotInv, TypeOK, WiresTyped, Count
<1>8. stored'[Only] = [i \in 1..filerecv + n |-> Only]
  <2>1. stored'[Only] = stored[Only] \o [i \in 1..n |-> Only]
    BY <1>5 DEF CalmState, SlotInv, TypeOK, UploadTyped
  <2>2. Only \in Session /\ filerecv \in Nat /\ n \in Nat
    BY <1>5, OnlyTyped DEF CalmState
  <2>3. [i \in 1..filerecv |-> Only] \o [i \in 1..n |-> Only] = [i \in 1..filerecv + n |-> Only]
    BY <2>2, Appended
  <2> QED
    BY <1>4, <2>1, <2>3
<1>9. Complete(filerecv + n) <=> n = inward[Only] + left[Only]
  BY <1>4, <1>5, OnlyTyped DEF Complete
<1>10. ServesOnly'
  BY <1>6 DEF CalmState, CalmInv, ServesOnly, event, acceptor
<1>11. OthersRest'
  <2>1. \A t \in Session \ {Only} : reply'[t] = reply[t]
    BY <1>5 DEF Reply, CalmState, SlotInv, CalmInv, ServesOnly, TypeOK, WiresTyped
  <2>2. \A t \in Session \ {Only} : inward'[t] = inward[t]
    BY <1>5 DEF CalmState, SlotInv, TypeOK, WiresTyped
  <2> QED
    BY <1>6, <2>1, <2>2, OthersStay DEF CalmState, CalmInv, client
<1>12. /\ phase'[Only] = "ready" /\ kind'[Only] = "STOR" /\ control'[Only] = << >>
       /\ Quiet' /\ outward'[Only] = 0
  BY <1>2, <1>3, <1>6 DEF ReadyOK, Quiet, client
<1>13. ReadyOK'
  <2>1. CASE Complete(filerecv + n)
    <3>1. n = inward[Only] /\ left[Only] = 0 /\ inward'[Only] = 0 /\ filerecv + n = size[Only]
      <4>1. PICK x, y, r, e : x = inward[Only] /\ y = left[Only] /\ r = filerecv /\ e = filesize
        OBVIOUS
      <4>2. x \in Nat /\ y \in Nat /\ r \in Nat /\ e \in Nat /\ n \in 1..x
        BY <4>1, <1>5, OnlyTyped
      <4>3. e - r = x + y /\ n = x + y
        BY <4>1, <1>4, <1>9, <2>1
      <4>4. n = x /\ y = 0 /\ x - n = 0 /\ r + n = e
        BY ONLY <4>2, <4>3
      <4> QED
        BY <4>1, <4>4, <1>4, <1>7
    <3>2. filesize' = 0 /\ file' = None /\ filerecv' = 0
      BY <1>5, <2>1 DEF CountAfter
    <3>3. reply'[Only] \in {"none", "200"}
      BY <1>3, <1>5, <2>1 DEF Reply, CalmState, SlotInv, TypeOK, WiresTyped
    <3>4. Stored'
      BY <1>6, <1>8, <3>1, <3>2, <3>3 DEF Stored, NoUpload, client
    <3> QED
      BY <1>12, <3>4 DEF ReadyOK
  <2>2. CASE ~Complete(filerecv + n)
    <3>1. UNCHANGED <<filesize, file, reply>> /\ filerecv' = filerecv + n
      BY <1>5, <2>2 DEF CountAfter
    <3>2. filesize' - filerecv' = inward'[Only] + left'[Only]
      <4>1. PICK x, y, r, e : x = inward[Only] /\ y = left[Only] /\ r = filerecv /\ e = filesize
        OBVIOUS
      <4>2. x \in Nat /\ y \in Nat /\ r \in Nat /\ e \in Nat /\ n \in Int
        BY <4>1, <1>5, OnlyTyped
      <4>3. e - r = x + y
        BY <4>1, <1>4
      <4>4. e - (r + n) = x - n + y
        BY ONLY <4>2, <4>3
      <4>5. filesize' = e /\ filerecv' = r + n /\ inward'[Only] = x - n /\ left'[Only] = y
        BY <4>1, <1>6, <1>7, <3>1 DEF client
      <4> QED
        BY <4>4, <4>5
    <3>3. Uploading(inward[Only] + left[Only])'
      BY <1>4, <1>6, <1>8, <3>1, <3>2 DEF Uploading, client
    <3> QED
      BY <1>3, <1>12, <3>1, <3>3 DEF ReadyOK
  <2> QED
    BY <2>1, <2>2
<1>14. SendingOK'
  BY <1>12 DEF SendingOK, Quiet
<1> QED
  BY <1>10, <1>11, <1>12, <1>13, <1>14 DEF CalmInv, StageOK

\* What is first in the queue of Only, and when.
LEMMA CalmQueue ==
  ASSUME CalmState, NEW msg, NextMessage(Only, msg)
  PROVE  /\ \/ /\ phase[Only] = "idle" /\ control[Only] = <<"MSG_SUCCESSED">>
               /\ msg = "MSG_SUCCESSED" /\ control'[Only] = << >>
            \/ /\ phase[Only] = "asked" /\ Waiting /\ control[Only] = <<"MSG_SUCCESSED", kind[Only]>>
               /\ msg = "MSG_SUCCESSED" /\ control'[Only] = <<kind[Only]>>
            \/ /\ phase[Only] = "asked" /\ Waiting /\ control[Only] = <<kind[Only]>>
               /\ msg = kind[Only] /\ control'[Only] = << >>
            \/ /\ phase[Only] = "moving" /\ MovingOK /\ Asking
               /\ msg = "ALLO" /\ control'[Only] = << >>
         /\ Quiet /\ parser[Only].at = "idle"
         /\ \A t \in Session \ {Only} : control'[t] = control[t]
<1>1. /\ control[Only] # << >> /\ msg = Head(control[Only]) /\ parser[Only] = Idle
      /\ control'[Only] = Tail(control[Only])
  BY DEF NextMessage, CalmState, SlotInv, TypeOK, WiresTyped
<1>2. \A t \in Session \ {Only} : control'[t] = control[t]
  BY DEF NextMessage, CalmState, SlotInv, TypeOK, WiresTyped
<1>3. phase[Only] # "ready"
  BY <1>1 DEF CalmState, CalmInv, StageOK, ReadyOK
<1>4. parser[Only].at = "idle" /\ Quiet
  BY <1>1 DEF Idle, Doing, Quiet
<1>5. CASE phase[Only] = "idle"
  <2>1. control[Only] = <<"MSG_SUCCESSED">>
    BY <1>1, <1>5 DEF CalmState, CalmInv, StageOK, IdleOK
  <2> QED
    BY <1>1, <1>2, <1>4, <1>5, <2>1, Taken
<1>6. CASE phase[Only] = "asked"
  <2>1. Waiting
    BY <1>1, <1>6 DEF CalmState, CalmInv, StageOK, AskedOK, Answered
  <2>2. CASE control[Only] = <<kind[Only]>>
    BY <1>1, <1>2, <1>4, <1>6, <2>1, <2>2, Taken
  <2>3. CASE control[Only] = <<"MSG_SUCCESSED", kind[Only]>>
    BY <1>1, <1>2, <1>4, <1>6, <2>1, <2>3, Taken
  <2> QED
    BY <2>1, <2>2, <2>3 DEF Waiting
<1>7. CASE phase[Only] = "moving"
  <2>1. MovingOK /\ Asking
    BY <1>1, <1>7 DEF CalmState, CalmInv, StageOK, MovingOK, Served
  <2>2. control[Only] = <<"ALLO">>
    BY <2>1 DEF Asking
  <2> QED
    BY <1>1, <1>2, <1>4, <1>7, <2>1, <2>2, Taken
<1> QED
  BY <1>3, <1>5, <1>6, <1>7, OnlyTyped

LEMMA CalmHandleStor == ASSUME CalmState, HandleStor(Only) PROVE CalmInv'
<1>1. /\ NextMessage(Only, "STOR") /\ filesize' = size[Only] /\ file' = Only /\ Reply(Only, "220")
      /\ Parse(Only, Doing("setFd", slot, 0))
      /\ UNCHANGED <<client, link, inward, outward, stored, filerecv, m_fd, ds2c, event, acceptor, reader>>
  BY DEF HandleStor, MayFail, CalmState
<1>2. /\ phase[Only] = "asked" /\ kind[Only] = "STOR" /\ Waiting /\ control'[Only] = << >>
      /\ \A t \in Session \ {Only} : control'[t] = control[t]
  BY <1>1, CalmQueue, OnlyTyped
<1>3. /\ parser'[Only].at = "setFd" /\ parser'[Only].sock = slot
      /\ \A t \in Session \ {Only} : parser'[t] = parser[t]
  BY <1>1, OnlyParses DEF Doing
<1>4. AskedOK
  BY <1>2 DEF CalmState, CalmInv, StageOK
<1>5. reply'[Only] = "220" /\ \A t \in Session \ {Only} : reply'[t] = reply[t]
  BY <1>1 DEF Reply, CalmState, SlotInv, Sized, TypeOK, WiresTyped
<1>6. Uploading(left[Only])'
  <2>1. filesize' - filerecv' = left'[Only] /\ filerecv' = 0
    BY <1>1, <1>2, <1>4, OnlyTyped DEF Waiting, NoUpload, AskedOK, client
  <2>2. stored'[Only] = [i \in 1..0 |-> Only]
    BY <1>1, <1>2 DEF Waiting
  <2> QED
    BY <1>1, <2>1, <2>2 DEF Uploading, client
<1>7. AskedOK'
  <2>1. inward'[Only] = 0 /\ kind'[Only] = "STOR" /\ Quiet'
    BY <1>1, <1>2, <1>3 DEF Waiting, NoUpload, Quiet, client
  <2>2. Answered'
    BY <1>2, <1>5, <1>6, <2>1 DEF Answered
  <2> QED
    BY <1>1, <1>4, <2>2 DEF AskedOK, client
<1>8. ServesOnly'
  BY <1>1, <1>3 DEF CalmState, CalmInv, ServesOnly, event, acceptor, reader
<1>9. OthersRest'
  BY <1>1, <1>2, <1>3, <1>5, OthersStay DEF CalmState, CalmInv, client
<1>10. phase'[Only] = "asked" /\ SendingOK'
  BY <1>1, <1>2, <1>3 DEF client, SendingOK
<1> QED
  BY <1>7, <1>8, <1>9, <1>10 DEF CalmInv, StageOK

LEMMA CalmHandleRetr == ASSUME CalmState, HandleRetr(Only) PROVE CalmInv'
<1>1. /\ NextMessage(Only, "RETR")
      /\ UNCHANGED <<phase, kind, size, jobs, link, inward, outward, stored, dc2s, m_fd, parser, event,
                     acceptor, reader>>
  BY DEF HandleRetr
<1>2. /\ phase[Only] = "asked" /\ kind[Only] = "RETR" /\ Waiting /\ control'[Only] = << >>
      /\ Quiet /\ \A t \in Session \ {Only} : control'[t] = control[t]
  BY <1>1, CalmQueue, OnlyTyped
<1>3. AskedOK
  BY <1>2 DEF CalmState, CalmInv, StageOK
<1>4. Told(size[Only]) = size[Only] /\ left[Only] = size[Only]
  BY <1>3 DEF AskedOK, Told
<1>5. /\ left'[Only] = left[Only]
      /\ \/ FileSize' = size[Only] /\ file_fd' = Only /\ filePos' = 0 /\ reply'[Only] = "150"
         \/ reply'[Only] = "550"
      /\ \A t \in Session \ {Only} : reply'[t] = reply[t]
  BY <1>4 DEF HandleRetr, Reply, CalmState, SlotInv, Sized, TypeOK, WiresTyped, ClientsTyped
<1>6. NoUpload'
  BY <1>1, <1>2 DEF Waiting, NoUpload, dc2s
<1>7. size'[Only] = size[Only] /\ kind'[Only] = "RETR" /\ Quiet'
  BY <1>1, <1>2 DEF Quiet
<1>8. Answered'
  BY <1>2, <1>4, <1>5, <1>6, <1>7 DEF Answered, Opened
<1>9. AskedOK'
  BY <1>1, <1>3, <1>5, <1>7, <1>8 DEF AskedOK
<1>10. ServesOnly'
  BY <1>1 DEF CalmState, CalmInv, ServesOnly, event, acceptor, reader
<1>11. OthersRest'
  BY <1>1, <1>2, <1>5, OthersStay DEF CalmState, CalmInv
<1>12. phase'[Only] = "asked" /\ SendingOK'
  BY <1>1, <1>2, <1>7 DEF SendingOK, Quiet
<1> QED
  BY <1>9, <1>10, <1>11, <1>12 DEF CalmInv, StageOK

LEMMA CalmHandleAllo == ASSUME CalmState, HandleAllo(Only) PROVE CalmInv'
<1>1. /\ NextMessage(Only, "ALLO")
      /\ IF slot = None THEN UNCHANGED parser ELSE Parse(Only, Doing("send", slot, 0))
      /\ UNCHANGED <<client, reply, link, inward, outward, stored, dc2s, m_fd, ds2c, event, acceptor,
                     reader>>
  BY DEF HandleAllo
<1>2. /\ phase[Only] = "moving" /\ MovingOK /\ Asking /\ control'[Only] = << >>
      /\ parser[Only].at = "idle" /\ \A t \in Session \ {Only} : control'[t] = control[t]
  BY <1>1, CalmQueue, OnlyTyped
<1>3. /\ outward'[Only] = 0 /\ left'[Only] = FileSize' /\ phase'[Only] = "moving"
      /\ file_fd' = Only /\ filePos' = 0
  BY <1>1, <1>2 DEF Asking, Opened, client, ds2c
<1>4. /\ \/ parser'[Only] = parser[Only]
         \/ parser'[Only].at = "send" /\ parser'[Only].sock = Only /\ slot = Only /\ parser'[Only].sendSize = 0
      /\ \A t \in Session \ {Only} : parser'[t] = parser[t]
  <2>1. CASE slot = None
    BY <1>1, <2>1
  <2>2. CASE slot # None
    <3>1. slot = Only
      BY <2>2 DEF CalmState, CalmInv, ServesOnly
    <3>2. Parse(Only, Doing("send", Only, 0))
      BY <1>1, <2>2, <3>1
    <3>3. parser'[Only] = Doing("send", Only, 0) /\ \A t \in Session \ {Only} : parser'[t] = parser[t]
      BY <3>2, OnlyParses
    <3> QED
      BY <3>1, <3>3 DEF Doing
  <2> QED
    BY <2>1, <2>2
<1>5. Served'
  BY <1>2, <1>3 DEF Served
<1>6. MovingOK'
  BY <1>1, <1>2, <1>4, <1>5 DEF MovingOK, NoUpload, client, dc2s
<1>7. SendingOK'
  <2>1. CASE parser'[Only] = parser[Only]
    BY <1>2, <2>1 DEF SendingOK
  <2>2. CASE parser'[Only].at = "send" /\ parser'[Only].sock = Only /\ parser'[Only].sendSize = 0
    <3>1. FileSize' \in Nat
      BY <1>1, OnlyTyped DEF ds2c
    <3>2. Unsent' = FileSize'
      <4>1. PICK f, z : f = FileSize' /\ z = parser'[Only].sendSize
        OBVIOUS
      <4>2. f \in Nat /\ z = 0
        BY <2>2, <3>1, <4>1
      <4>3. f - z = f
        BY ONLY <4>2
      <4> QED
        BY <4>1, <4>3 DEF Unsent
    <3>3. left'[Only] = outward'[Only] + Unsent' /\ Unsent' >= 0
      <4>1. PICK x, y, z : x = left'[Only] /\ y = outward'[Only] /\ z = Unsent'
        OBVIOUS
      <4>2. z \in Nat /\ x = z /\ y = 0
        BY <4>1, <1>3, <3>1, <3>2
      <4>3. x = y + z /\ z >= 0
        BY ONLY <4>2
      <4> QED
        BY <4>1, <4>3
    <3> QED
      BY <1>3, <2>2, <3>3 DEF SendingOK
  <2> QED
    BY <1>4, <2>1, <2>2
<1>8. ServesOnly'
  BY <1>1, <1>4 DEF CalmState, CalmInv, ServesOnly, event, acceptor, reader
<1>9. OthersRest'
  BY <1>1, <1>2, <1>4, OthersStay DEF CalmState, CalmInv, client
<1> QED
  BY <1>3, <1>6, <1>7, <1>8, <1>9 DEF CalmInv, StageOK

LEMMA CalmSendChunk == ASSUME CalmState, SendChunk(Only) PROVE CalmInv'
<1>1. parser[Only].at = "send" /\ parser[Only].sendSize < FileSize
  BY DEF SendChunk
<1>2. Unsent > 0
  BY <1>1, OnlyTyped DEF Unsent
<1>3. /\ parser[Only].sock = Only /\ phase[Only] = "moving" /\ left[Only] = outward[Only] + Unsent
      /\ file_fd = Only /\ filePos = parser[Only].sendSize
  BY <1>1, <1>2 DEF CalmState, CalmInv, SendingOK
<1>4. PICK n \in 1..Unsent :
        /\ outward' = [outward EXCEPT ![Only] = @ + n]
        /\ Parse(Only, Doing("send", Only, parser[Only].sendSize + n))
        /\ filePos' = parser[Only].sendSize + n
  <2>1. PICK read \in 1..(FileSize - filePos) : \E m \in 1..read :
          /\ outward' = [outward EXCEPT ![parser[Only].sock] = @ + m]
          /\ Parse(Only, Doing("send", parser[Only].sock, parser[Only].sendSize + m))
          /\ filePos' = parser[Only].sendSize + m
    BY DEF SendChunk, SeekTo
  <2>2. PICK m \in 1..read :
          /\ outward' = [outward EXCEPT ![Only] = @ + m]
          /\ Parse(Only, Doing("send", Only, parser[Only].sendSize + m))
          /\ filePos' = parser[Only].sendSize + m
    BY <1>3, <2>1
  <2>3. read \in 1..Unsent
    BY <1>3 DEF Unsent
  <2>4. Unsent \in Int
    BY OnlyTyped DEF Unsent
  <2>5. m \in 1..Unsent
    BY <2>3, <2>4
  <2> QED
    BY <2>2, <2>5
<1>5. UNCHANGED <<client, control, reply, link, inward, stored, dc2s, m_fd, FileSize, file_fd, event,
                  acceptor, reader>>
  BY DEF SendChunk
<1>6. outward'[Only] = outward[Only] + n
  BY <1>4 DEF CalmState, SlotInv, TypeOK, WiresTyped
<1>7. /\ parser'[Only].at = "send" /\ parser'[Only].sock = Only
      /\ parser'[Only].sendSize = parser[Only].sendSize + n
      /\ \A t \in Session \ {Only} : parser'[t] = parser[t]
  <2>1. parser'[Only] = Doing("send", Only, parser[Only].sendSize + n)
    BY <1>4, OnlyParses
  <2>2. \A t \in Session \ {Only} : parser'[t] = parser[t]
    BY <1>4, OnlyParses
  <2> QED
    BY <2>1, <2>2 DEF Doing
<1>8. left'[Only] = outward'[Only] + Unsent' /\ Unsent' >= 0
  <2>1. PICK x, y, z, f : x = left[Only] /\ y = outward[Only] /\ z = parser[Only].sendSize /\ f = FileSize
    OBVIOUS
  <2>2. x \in Nat /\ y \in Nat /\ z \in Nat /\ f \in Nat
    BY <2>1, OnlyTyped
  <2>3. Unsent = f - z /\ Unsent' = f - (z + n)
    BY <2>1, <1>5, <1>7 DEF Unsent
  <2>4. x = y + (f - z) /\ n \in 1..f - z
    BY <2>1, <2>3, <1>3
  <2>5. left'[Only] = x /\ outward'[Only] = y + n
    BY <2>1, <1>5, <1>6 DEF client
  <2>6. x = y + n + (f - (z + n)) /\ f - (z + n) >= 0
    BY ONLY <2>2, <2>4
  <2> QED
    BY <2>3, <2>5, <2>6
<1>9. phase'[Only] = "moving" /\ file_fd' = Only /\ filePos' = parser'[Only].sendSize
  BY <1>3, <1>4, <1>5, <1>7 DEF client
<1>10. SendingOK'
  BY <1>7, <1>8, <1>9 DEF SendingOK
<1>11. MovingOK /\ Served
  BY <1>1, <1>3 DEF CalmState, CalmInv, StageOK, MovingOK, Asking, Quiet
<1>12. MovingOK'
  BY <1>5, <1>7, <1>11 DEF MovingOK, Served, Quiet, NoUpload, client, dc2s
<1>13. ServesOnly'
  BY <1>3, <1>5, <1>7 DEF CalmState, CalmInv, ServesOnly, event, acceptor, reader
<1>14. OthersRest'
  BY <1>4, <1>5, <1>7, OthersStay DEF CalmState, SlotInv, CalmInv, client, TypeOK, WiresTyped
<1> QED
  BY <1>9, <1>10, <1>12, <1>13, <1>14 DEF CalmInv, StageOK

LEMMA CalmSendDone == ASSUME CalmState, SendDone(Only) PROVE CalmInv'
<1>1. /\ parser[Only].at = "send" /\ parser[Only].sendSize >= FileSize
      /\ Parse(Only, Idle) /\ CloseUnheld
      /\ UNCHANGED <<client, control, reply, stored, dc2s, m_fd, FileSize, filePos, slot, acceptor, reader>>
  BY DEF SendDone, MayFail, CalmState
<1>2. UNCHANGED <<link, inward, outward, watched>>
  BY <1>1, CalmDropped DEF acceptor
<1>3. /\ parser'[Only].at = "idle" /\ parser'[Only].sock = None
      /\ \A t \in Session \ {Only} : parser'[t] = parser[t]
  BY <1>1, OnlyParses DEF Idle, Doing
<1>4. NoUpload' <=> NoUpload
  BY <1>1, <1>2 DEF NoUpload, dc2s
<1>5. phase[Only] = "moving" => outward[Only] = left[Only]
  BY <1>1, OnlyTyped DEF CalmState, CalmInv, SendingOK, Unsent
<1>6. ~Quiet
  BY <1>1 DEF Quiet
<1>7. IdleOK => IdleOK'
  BY <1>1, <1>2, <1>4 DEF IdleOK
<1>8. AskedOK => AskedOK'
  BY <1>1, <1>2, <1>4, <1>6 DEF AskedOK, Waiting, Answered, client
<1>9. ~ReadyOK
  BY <1>6 DEF ReadyOK
<1>10. ASSUME phase[Only] = "moving", MovingOK PROVE MovingOK'
  <2>1. Served
    BY <1>6, <1>10 DEF MovingOK, Asking
  <2>2. Served'
    BY <1>1, <1>2, <1>5, <1>10, <2>1 DEF Served, client
  <2> QED
    BY <1>1, <1>3, <1>4, <1>10, <2>2 DEF MovingOK, client
<1>11. StageOK'
  BY <1>1, <1>7, <1>8, <1>9, <1>10 DEF CalmState, CalmInv, StageOK, client
<1>12. ServesOnly'
  BY <1>1, <1>2, <1>3 DEF CalmState, CalmInv, ServesOnly, acceptor, reader
<1>13. OthersRest'
  BY <1>1, <1>2, <1>3, OthersStay DEF CalmState, CalmInv, client
<1> QED
  BY <1>3, <1>11, <1>12, <1>13 DEF CalmInv, SendingOK

LEMMA CalmHandleEnd == ASSUME CalmState, HandleEnd(Only) PROVE CalmInv'
<1>1. PICK msg \in {"ABOR", "MSG_SUCCESSED"} : NextMessage(Only, msg)
  BY DEF HandleEnd
<1>2. /\ Parse(Only, Doing("clear", None, 0))
      /\ UNCHANGED <<client, reply, link, inward, outward, stored, dc2s, m_fd, ds2c, slot, acceptor, reader>>
  BY DEF HandleEnd
<1>3. /\ parser'[Only].at = "clear" /\ parser'[Only].sock = None
      /\ \A t \in Session \ {Only} : parser'[t] = parser[t]
  BY <1>2, OnlyParses DEF Doing
<1>4. \A t \in Session \ {Only} : control'[t] = control[t]
  BY <1>1, CalmQueue
<1>5. ServesOnly'
  BY <1>2, <1>3 DEF CalmState, CalmInv, ServesOnly, acceptor, reader
<1>6. OthersRest'
  BY <1>2, <1>3, <1>4, OthersStay DEF CalmState, CalmInv, client
<1>7. (NoUpload => NoUpload') /\ SendingOK'
  BY <1>2, <1>3 DEF NoUpload, SendingOK, dc2s
<1>8. CASE phase[Only] = "idle" /\ control'[Only] = << >>
  <2>1. IdleOK'
    BY <1>2, <1>7, <1>8 DEF CalmState, CalmInv, StageOK, IdleOK
  <2> QED
    BY <1>2, <1>5, <1>6, <1>7, <1>8, <2>1 DEF CalmInv, StageOK, client
<1>9. CASE phase[Only] = "asked" /\ Waiting /\ control'[Only] = <<kind[Only]>>
  <2>1. Waiting'
    BY <1>2, <1>7, <1>9 DEF Waiting, client
  <2>2. AskedOK'
    BY <1>2, <1>9, <2>1 DEF CalmState, CalmInv, StageOK, AskedOK, client
  <2> QED
    BY <1>2, <1>5, <1>6, <1>7, <1>9, <2>2 DEF CalmInv, StageOK, client
<1> QED
  BY <1>1, <1>8, <1>9, CalmQueue, OnlyTyped

\* The link that is closed is one of which nothing is expected any more.
LEMMA CalmClear == ASSUME CalmState, Clear(Only) PROVE CalmInv'
<1>1. /\ parser[Only].at = "clear" /\ Parse(Only, Idle) /\ slot' = None /\ CloseUnheld
      /\ UNCHANGED <<client, control, reply, stored, dc2s, m_fd, ds2c, acceptor, reader>>
  BY DEF Clear, ClearSlot
<1>2. /\ parser'[Only].at = "idle" /\ parser'[Only].sock = None
      /\ \A t \in Session \ {Only} : parser'[t] = parser[t]
  BY <1>1, OnlyParses DEF Idle, Doing
<1>3. /\ \A t \in Session : link'[t] \in {link[t], "none"}
      /\ \A t \in Session : inward'[t] \in {inward[t], 0} /\ outward'[t] \in {outward[t], 0}
  BY <1>1 DEF CloseUnheld
<1>4. ~Quiet
  BY <1>1 DEF Quiet
<1>5. (phase[Only] = "idle" /\ IdleOK) \/ (phase[Only] = "asked" /\ AskedOK /\ Waiting)
  BY <1>1, <1>4, OnlyTyped DEF CalmState, CalmInv, StageOK, AskedOK, Answered, ReadyOK, MovingOK
<1>6. NoUpload /\ outward[Only] = 0 /\ Only \in Session
  BY <1>5 DEF IdleOK, AskedOK, Waiting, CalmState
<1>7. NoUpload' /\ outward'[Only] = 0
  BY <1>1, <1>3, <1>6 DEF NoUpload, dc2s
<1>8. StageOK'
  <2>1. CASE phase[Only] = "idle" /\ IdleOK
    <3>1. IdleOK' /\ phase'[Only] = "idle"
      BY <1>1, <1>7, <2>1 DEF IdleOK, client
    <3> QED
      BY <3>1 DEF StageOK
  <2>2. CASE phase[Only] = "asked" /\ AskedOK /\ Waiting
    <3>1. Waiting' /\ phase'[Only] = "asked"
      BY <1>1, <1>7, <2>2 DEF Waiting, client
    <3>2. AskedOK'
      BY <1>1, <1>7, <2>2, <3>1 DEF AskedOK, client
    <3> QED
      BY <3>1, <3>2 DEF StageOK
  <2> QED
    BY <1>5, <2>1, <2>2
<1>9. SendingOK'
  BY <1>2 DEF SendingOK
<1>10. ServesOnly'
  BY <1>1, <1>2, <1>3 DEF CalmState, CalmInv, ServesOnly, acceptor, reader
<1>11. OthersRest'
  <2>1. \A t \in Session \ {Only} : link'[t] = link[t] /\ inward'[t] = inward[t] /\ outward'[t] = outward[t]
    BY <1>3 DEF CalmState, CalmInv, OthersRest
  <2> QED
    BY <1>1, <1>2, <2>1, OthersStay DEF CalmState, CalmInv, client
<1> QED
  BY <1>8, <1>9, <1>10, <1>11 DEF CalmInv

LEMMA CalmStep ==
  ASSUME CalmState, [Next]_vars
  PROVE  CalmInv'
<1>1. CASE UNCHANGED vars
  <2>1. SendingOK' /\ StageOK'
    BY <1>1, StageStays DEF vars, wires, CalmState
  <2>2. ServesOnly'
    BY <1>1 DEF CalmState, CalmInv, ServesOnly, vars, wires, event, acceptor, reader
  <2>3. OthersRest'
    BY <1>1, OthersStay DEF CalmState, CalmInv, vars, client, wires
  <2> QED
    BY <2>1, <2>2, <2>3 DEF CalmInv
<1>2. ASSUME NEW s \in Session, Ask(s) \/ Abort(s) PROVE CalmInv'
  BY <1>2, OnlyActs, CalmAsk
<1>3. ASSUME NEW s \in Session, ClientStep(s) PROVE CalmInv'
  <2>1. s = Only
    BY <1>3, OnlyActs DEF ClientStep
  <2> QED
    BY <1>3, <2>1, CalmSeeReply, CalmConnect, CalmSendBytes, CalmSayAllo, CalmReceiveBytes
    DEF ClientStep
<1>4. ASSUME NEW s \in Session, ControlStep(s) PROVE CalmInv'
  <2>1. s = Only
    BY <1>4, OnlyActs DEF ControlStep
  <2>2. ~SendFails(Only)
    BY DEF SendFails, CalmState, CalmInv, SendingOK, ServesOnly
  <2> QED
    BY <1>4, <2>1, <2>2, CalmHandleStor, CalmSetFd, CalmHandleRetr, CalmHandleAllo, CalmSendChunk,
       CalmSendDone, CalmHandleEnd, CalmClear DEF ControlStep
<1>5. ASSUME ReadStep PROVE CalmInv'
  <2>1. ~ReadEnd /\ ~DeleteAtEnd /\ ~ClearAtEnd
    BY DEF ReadEnd, Reads, DeleteAtEnd, ClearAtEnd, CalmState, CalmInv, ServesOnly
  <2> QED
    BY <1>5, <2>1, CalmRecvFile, CalmReadAll DEF ReadStep
<1> QED
  BY <1>1, <1>2, <1>3, <1>4, <1>5, CalmAccept DEF Next

\* The inductive invariant of Ftp.
FilesInv == SlotInv /\ (calm /\ Only \in Session => CalmInv)

LEMMA FilesInit == ASSUME Sized, Init PROVE FilesInv
BY SlotInit, CalmInit DEF FilesInv

LEMMA CalmStays == ASSUME [Next]_vars PROVE calm' = calm
BY DEF Next, ClientStep, ControlStep, AcceptStep, ReadStep, vars

LEMMA FilesStep == ASSUME Sized, FilesInv, [Next]_vars PROVE FilesInv'
BY SlotStep, CalmStep, CalmStays DEF FilesInv, CalmState

LEMMA FilesInvariant == ASSUME Sized PROVE Spec => []FilesInv
BY FilesInit, FilesStep, PTL DEF Spec

(* Ftp, dc2s: with one client that gives nothing up, a disk that does not     *)
(* fail and files whose size is an int, the static variables of               *)
(* client_2_server_recvFile are enough from file to file: code 200 is sent    *)
(* when just the bytes of the client are in the file, in whatever pieces      *)
(* they came, and bytes on their way have an open FILE that waits for them.   *)
THEOREM CalmUploads == ASSUME Sized PROVE Spec => []CalmUploadsExact
<1>1. FilesInv => CalmUploadsExact
  <2> SUFFICES ASSUME FilesInv, calm, NEW s \in Session
               PROVE  /\ reply[s] = "200" => stored[s] = [i \in 1..size[s] |-> s]
                      /\ inward[s] + left[s] > 0 /\ phase[s] = "ready" /\ kind[s] = "STOR" =>
                           file = s /\ filesize - filerecv = inward[s] + left[s]
    BY DEF CalmUploadsExact, SuccessMeansStored, BytesHaveAFile
  <2>1. CalmState
    BY OnlyIsOne DEF FilesInv, SlotInv, CalmState
  <2>2. CASE s # Only
    BY <2>1, <2>2 DEF CalmState, CalmInv, OthersRest
  <2>3. CASE s = Only
    <3>1. reply[Only] = "200" => phase[Only] = "ready" /\ kind[Only] = "STOR" /\ Stored
      BY <2>1, OnlyTyped DEF CalmState, CalmInv, StageOK, IdleOK, AskedOK, Waiting, Answered, ReadyOK,
         MovingOK
    <3>2. inward[Only] + left[Only] > 0 /\ phase[Only] = "ready" /\ kind[Only] = "STOR" =>
            Uploading(inward[Only] + left[Only])
      BY <2>1, OnlyTyped DEF CalmState, CalmInv, StageOK, ReadyOK, Stored, NoUpload
    <3> QED
      BY <2>3, <3>1, <3>2 DEF Stored, Uploading
  <2> QED
    BY <2>2, <2>3
<1> QED
  BY <1>1, FilesInvariant, PTL

(* Ftp, ds2c: then a download brings the file, no byte less and no byte more, *)
(* however the socket cuts it in server_2_client_sendFile, and each turn of   *)
(* the loop reads the bytes behind those that have been sent.                 *)
THEOREM CalmDownloads == ASSUME Sized PROVE Spec => []DownloadExact
<1>1. FilesInv => DownloadExact
  <2> SUFFICES ASSUME FilesInv, calm, NEW s \in Session, parser[s].at = "send"
               PROVE  LET rest == FileSize - parser[s].sendSize IN
                      /\ parser[s].sock = s
                      /\ IF phase[s] = "moving" THEN left[s] = outward[s] + rest ELSE rest = 0
                      /\ rest > 0 => file_fd = s /\ filePos = parser[s].sendSize
    BY DEF DownloadExact
  <2>1. CalmState
    BY OnlyIsOne DEF FilesInv, SlotInv, CalmState
  <2>2. s = Only
    BY <2>1 DEF CalmState, CalmInv, OthersRest, Idle, Doing
  <2> QED
    BY <2>1, <2>2 DEF CalmState, CalmInv, SendingOK, Unsent
<1> QED
  BY <1>1, FilesInvariant, PTL
=============================================================================
