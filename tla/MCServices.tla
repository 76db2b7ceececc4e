----------------------------- MODULE MCServices -----------------------------
(***************************************************************************)
(* The parts of the server that share no state with the others, checked    *)
(* side by side: path planning (AStar), file transfers (Ftp), the buffer   *)
(* of the streams (ByteArray), its integers (Varint) and the accounts      *)
(* (Accounts).  A behaviour is one of one part, "which", and the others    *)
(* stay in an initial state.                                               *)
(***************************************************************************)
EXTENDS AStar, Varint

CONSTANTS
  Session, MaxFile, MaxJobs, MaxOut, IntRange, DiskFails, None,   \* of Ftp
  Crowd,                                            \* see FilesStep
  Byte, Raw, m_baseSize, MaxBytes, MaxNodes,        \* of ByteArray
  User, Busy, Password, Worker                      \* of Accounts; Busy: see AccountsStep

VARIABLES
  which,
  calm, step, kind, size, left, jobs, control, reply, link, inward, outward, stored,
  filesize, filerecv, file, m_fd, FileSize, file_fd, filePos, parser, slot, m_status, watched,
  accepting, taken, reading, ending,
  nodes, m_cur, m_position, m_size, passed, crashed,
  alone, rows, tables, m, User_ID, userID_modelpath, worker

filesVars == <<calm, step, kind, size, left, jobs, control, reply, link, inward, outward, stored,
  filesize, filerecv, file, m_fd, FileSize, file_fd, filePos, parser, slot, m_status, watched,
  accepting, taken, reading, ending>>
bufferVars == <<nodes, m_cur, m_position, m_size, passed, crashed>>
accountVars == <<alone, rows, tables, m, User_ID, userID_modelpath, worker>>

Files == INSTANCE Ftp WITH MaxSize <- MaxFile, phase <- step
Buffer == INSTANCE ByteArray WITH MaxSize <- MaxBytes
Users == INSTANCE Accounts WITH calm <- alone

ASSUME Sizes == {MaxFile, MaxJobs, MaxOut, IntRange, MaxBytes} \subseteq Nat /\ m_baseSize \in Nat \ {0}
ASSUME OneWrap == MaxFile < 2 * IntRange /\ DiskFails \in BOOLEAN
ASSUME NoneIsApart == None \notin Session /\ None \notin Users!Replies

OneCorner == {<<0, 0>>}
FourPlaces == {<<0, 2>>, <<1, 1>>, <<2, 0>>, <<2, 2>>}

ServicesInit ==
  /\ which \in {"plan", "files", "bytes", "ints", "accounts"}
  /\ Init /\ Files!Init /\ Buffer!Init /\ Users!Init
  /\ which # "plan" => blocked = {} /\ ends = <<<<1, 1>>>>
  /\ which # "files" => calm
  /\ which # "accounts" => alone

PlanStep == which = "plan" /\ Next /\ UNCHANGED <<which, filesVars, bufferVars, accountVars>>
Go(A) == which = "files" /\ A /\ UNCHANGED <<which, vars, bufferVars, accountVars>>

\* Bound: several clients, or a client that gives up, ask for files with a size in Crowd.
FilesStep == Go(Files!Next) /\ (~calm => \A s \in Session : size'[s] \in Crowd \cup {0})
BufferStep == which = "bytes" /\ Buffer!Next /\ UNCHANGED <<which, vars, filesVars, accountVars>>

\* Bound: requests that overlap are about the users of Busy.
AccountsStep ==
  /\ which = "accounts" /\ Users!Next
  /\ ~alone => \A w \in Worker : worker'[w].u \in Busy \cup {None}
  /\ UNCHANGED <<which, vars, filesVars, bufferVars>>

ServicesNext == PlanStep \/ FilesStep \/ BufferStep \/ AccountsStep
allVars == <<which, vars, filesVars, bufferVars, accountVars>>

\* Ftp's Fairness; only calm behaviours need it.
FilesFairness ==
  /\ \A s \in Session : /\ WF_allVars(calm /\ Go(Files!ClientStep(s)))
                      /\ WF_allVars(calm /\ Go(Files!ControlStep(s)))
  /\ WF_allVars(calm /\ Go(Files!AcceptStep))
  /\ WF_allVars(calm /\ slot \in watched /\ Go(Files!ReadStep))

ServicesSpec == ServicesInit /\ [][ServicesNext]_allVars /\ FilesFairness

\* The properties of the parts, each stated in its module.
CalmUploadsExact == Files!CalmUploadsExact
DownloadExact == Files!DownloadExact
SlotIsServed == Files!SlotIsServed
EveryUploadStored == which = "files" => Files!EveryUploadStored
IntsComeBack == which = "ints" => ComeBack
PointerFits == Buffer!PointerFits
FlatSpec == Buffer!FlatSpec
NothingOfTheClosed == Users!NothingOfTheClosed
JudgedByAccount == Users!JudgedByAccount
DataSetNotInherited == Users!DataSetNotInherited
=============================================================================
