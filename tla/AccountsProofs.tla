--------------------------- MODULE AccountsProofs ---------------------------
(***************************************************************************)
(* Proofs about Accounts for any users, passwords and number of workers.   *)
(*                                                                         *)
(* What holds however requests overlap follows from each step by itself:   *)
(* a spent name stays spent, and closing has a result map of its own.      *)
(* What holds of requests that do not overlap needs CalmInv: the account   *)
(* that m was read from is there until the answer, a close deletes the     *)
(* account whose password it has compared and no other after it, and what  *)
(* a closed account has left is what the worker is about to remove.        *)
(***************************************************************************)
EXTENDS Accounts, TLAPS

Serving(w) == ~At(w, "idle")
LoggingOn(w) == Req(w) = "LOGON" /\ (At(w, "dataSet_path") \/ At(w, "sample_number"))

Closing(w) == At(w, "log_off") \/ At(w, "delete_user") \/ At(w, "erase")
ToClose(w) == At(w, "query_user_info") \/ At(w, "delete")

CalmInv ==
  /\ \A v, w \in Worker : Serving(v) /\ Serving(w) => v = w
  /\ \A w \in Worker : At(w, "passward_right_wrong") =>
       Exists(UserID(w)) /\ m = LastRow(UserID(w))
  /\ \A w \in Worker : LoggingOn(w) => Exists(UserID(w))
  /\ \A w \in Worker : ToClose(w) => Req(w) = "CLOSE_ACCOUNT"
  /\ \A w \in Worker : At(w, "delete") => Right(w)
  /\ \A w \in Worker : At(w, "log_off") \/ At(w, "delete_user") => ~Exists(UserID(w))
  /\ \A u \in User_ID : ~Exists(u) => \E w \in Worker : At(w, "log_off") /\ UserID(w) = u
  /\ \A u \in userID_modelpath : ~Exists(u) => \E w \in Worker : Closing(w) /\ UserID(w) = u

AccountsInv == TypeOK /\ (calm => CalmInv)

-----------------------------------------------------------------------------
(* Rows. *)

LEMMA LastRowIsRow ==
  ASSUME rows \in [User -> Seq(Row)], NEW u \in User, Exists(u) PROVE LastRow(u) \in Row
BY DEF Exists, LastRow

LEMMA AppendRow ==
  ASSUME NEW q \in Seq(Row), NEW r \in Row
  PROVE  /\ Append(q, r) \in Seq(Row) /\ Append(q, r) # << >>
         /\ Len(Append(q, r)) = Len(q) + 1 /\ Len(q) \in Nat
         /\ \A i \in 1..Len(q) : Append(q, r)[i] = q[i]
         /\ Append(q, r)[Len(q) + 1] = r
OBVIOUS

LEMMA PathedRows ==
  ASSUME NEW q \in Seq(Row), NEW u \in User
  PROVE  LET p == [i \in 1..Len(q) |-> [q[i] EXCEPT !.u_database = u]] IN
         /\ p \in Seq(Row) /\ Len(p) = Len(q)
         /\ \A i \in 1..Len(q) : p[i].password = q[i].password /\ p[i].u_database = u
         /\ p # << >> <=> q # << >>
<1> DEFINE p == [i \in 1..Len(q) |-> [q[i] EXCEPT !.u_database = u]]
<1>1. ASSUME NEW i \in 1..Len(q)
      PROVE  p[i] \in Row /\ p[i].password = q[i].password /\ p[i].u_database = u
  <2>1. q[i] \in Row
    OBVIOUS
  <2> QED
    BY <2>1 DEF Row
<1> HIDE DEF p
<1>2. Len(q) \in Nat /\ p = [i \in 1..Len(q) |-> p[i]]
  BY DEF p
<1>3. p \in Seq(Row) /\ Len(p) = Len(q)
  BY <1>1, <1>2
<1>4. p # << >> <=> q # << >>
  BY <1>3
<1> QED
  BY <1>1, <1>3, <1>4 DEF p

-----------------------------------------------------------------------------
(* How workers move. *)

\* At these places a worker may still insert its password.
HasPassword(w) == At(w, "isExistUser") \/ At(w, "insert_userID")
WorkerOK ==
  /\ worker \in [Worker -> WorkerType]
  /\ \A w \in Worker : /\ ~At(w, "idle") => UserID(w) \in User
                       /\ At(w, "isExistUser") \/ At(w, "insert_userID") => Given(w) \in Password

OthersStay(w) == \A v \in Worker \ {w} : worker'[v] = worker[v]
MovesTo(w, place, r) ==
  /\ WorkerOK' /\ OthersStay(w)
  /\ At(w, place)' /\ worker'[w].reply = r
  /\ UserID(w)' = UserID(w) /\ Req(w)' = Req(w) /\ Given(w)' = Given(w)

LEMMA GoMoves ==
  ASSUME WorkerOK, NEW w \in Worker, Serving(w), NEW place \in Places, Go(w, place),
         place \notin {"isExistUser", "insert_userID"} \/ HasPassword(w)
  PROVE  MovesTo(w, place, worker[w].reply)
<1>1. worker' \in [Worker -> WorkerType]
  BY DEF WorkerOK, WorkerType, Go
<1>2. OthersStay(w)
  BY DEF WorkerOK, OthersStay, Go
<1>3. /\ At(w, place)' /\ worker'[w].reply = worker[w].reply
      /\ UserID(w)' = UserID(w) /\ Req(w)' = Req(w) /\ Given(w)' = Given(w)
  BY DEF WorkerOK, WorkerType, Go, At, UserID, Req, Given
<1>4. ASSUME NEW v \in Worker, v # w
      PROVE  At(v, "idle")' = At(v, "idle") /\ UserID(v)' = UserID(v) /\ Given(v)' = Given(v)
             /\ At(v, "isExistUser")' = At(v, "isExistUser")
             /\ At(v, "insert_userID")' = At(v, "insert_userID")
  BY <1>2, <1>4 DEF OthersStay, At, UserID, Given
<1>5. WorkerOK'
  BY <1>1, <1>3, <1>4 DEF WorkerOK, Serving, HasPassword, At
<1> QED
  BY <1>2, <1>3, <1>5 DEF MovesTo

LEMMA RespondMoves ==
  ASSUME WorkerOK, NEW w \in Worker, Serving(w), NEW place \in Places, NEW r \in Replies,
         Respond(w, place, r), place \notin {"isExistUser", "insert_userID"}
  PROVE  MovesTo(w, place, r)
<1>1. worker' \in [Worker -> WorkerType]
  BY DEF WorkerOK, WorkerType, Respond
<1>2. OthersStay(w)
  BY DEF WorkerOK, OthersStay, Respond
<1>3. /\ At(w, place)' /\ worker'[w].reply = r
      /\ UserID(w)' = UserID(w) /\ Req(w)' = Req(w) /\ Given(w)' = Given(w)
  BY DEF WorkerOK, WorkerType, Respond, At, UserID, Req, Given
<1>4. ASSUME NEW v \in Worker, v # w
      PROVE  At(v, "idle")' = At(v, "idle") /\ UserID(v)' = UserID(v) /\ Given(v)' = Given(v)
             /\ At(v, "isExistUser")' = At(v, "isExistUser")
             /\ At(v, "insert_userID")' = At(v, "insert_userID")
  BY <1>2, <1>4 DEF OthersStay, At, UserID, Given
<1>5. WorkerOK'
  BY <1>1, <1>3, <1>4 DEF WorkerOK, Serving, HasPassword, At
<1> QED
  BY <1>2, <1>3, <1>5 DEF MovesTo

LEMMA IdleMoves ==
  ASSUME WorkerOK, NEW w \in Worker, worker' = [worker EXCEPT ![w] = Idle]
  PROVE  WorkerOK' /\ OthersStay(w) /\ worker'[w] = Idle
<1>1. Idle \in WorkerType
  BY DEF Idle, Places, WorkerType
<1>2. worker'[w] = Idle /\ OthersStay(w)
  BY DEF WorkerOK, OthersStay
<1>3. Idle.at = "idle"
  BY DEF Idle
<1> HIDE DEF Idle
<1> QED
  BY <1>1, <1>2, <1>3 DEF WorkerOK, OthersStay, At, UserID, Given

\* A request is addressed to an idle worker, which moves to its first place.
LEMMA RequestMoves ==
  ASSUME WorkerOK, NEW w \in Worker, NEW req \in Requests, NEW u \in User,
         NEW p \in Password \cup {None}, Request(w, req, u, p)
  PROVE  /\ WorkerOK' /\ OthersStay(w) /\ UserID(w)' = u /\ Req(w)' = req
         /\ worker'[w].reply = None /\ ~At(w, "delete")' /\ ~Closing(w)'
         /\ ToClose(w)' => req = "CLOSE_ACCOUNT"
         /\ ~At(w, "passward_right_wrong")' /\ ~LoggingOn(w)' /\ ~At(w, "update_path")'
<1> DEFINE q == [at |-> FirstPlace(req), req |-> req, u |-> u, p |-> p, reply |-> None]
<1>1. /\ FirstPlace(req) \in Places
      /\ FirstPlace(req) \notin {"delete", "log_off", "delete_user", "erase", "passward_right_wrong",
                                  "update_path", "sample_number"}
      /\ FirstPlace(req) = "query_user_info" => req = "CLOSE_ACCOUNT"
      /\ FirstPlace(req) = "dataSet_path" => req # "LOGON"
  BY DEF FirstPlace, Requests, Places
<1>2. q \in WorkerType
  BY <1>1 DEF WorkerType
<1>3. worker'[w] = q /\ OthersStay(w)
  BY DEF WorkerOK, OthersStay, Request
<1>4. q.at = FirstPlace(req) /\ q.u = u /\ q.req = req /\ q.reply = None /\ q.p = p
  OBVIOUS
<1>5. worker' = [worker EXCEPT ![w] = q]
  BY DEF Request
<1> HIDE DEF q
<1>6. req \in {"LOGON", "SIGNUP"} <=> FirstPlace(req) = "isExistUser"
  BY DEF FirstPlace, Requests
<1>7. FirstPlace(req) # "insert_userID" /\ (FirstPlace(req) = "isExistUser" => p \in Password)
  BY <1>6 DEF Request, FirstPlace, Requests
<1>8. WorkerOK'
  BY <1>2, <1>3, <1>4, <1>5, <1>7 DEF WorkerOK, OthersStay, At, UserID, Given
<1> QED
  BY <1>1, <1>3, <1>4, <1>8 DEF LoggingOn, Closing, ToClose, At, UserID, Req

-----------------------------------------------------------------------------
(* Types. *)

LEMMA RowIsResult == Row \subseteq Result /\ Nothing \in Result
BY DEF Row, Result, Nothing

LEMMA TypeInit == Init => TypeOK
<1> SUFFICES ASSUME Init PROVE TypeOK
  OBVIOUS
<1>1. Idle \in WorkerType
  BY DEF Idle, Places, WorkerType
<1>2. \A w \in Worker : At(w, "idle") /\ ~At(w, "isExistUser") /\ ~At(w, "insert_userID")
  BY DEF Init, At, Idle
<1>3. worker \in [Worker -> WorkerType]
  BY <1>1 DEF Init
<1>4. rows \in [User -> Seq(Row)]
  <2>1. << >> \in Seq(Row)
    OBVIOUS
  <2> QED
    BY <2>1 DEF Init
<1>5. m \in Result /\ User_ID \subseteq User /\ userID_modelpath \subseteq User /\ tables \subseteq User
  BY RowIsResult DEF Init
<1> QED
  BY <1>2, <1>3, <1>4, <1>5 DEF Init, TypeOK

Typed ==
  /\ WorkerOK /\ rows \in [User -> Seq(Row)] /\ tables \subseteq User /\ m \in Result
  /\ User_ID \subseteq User /\ userID_modelpath \subseteq User

LEMMA TypedIsTypeOK == TypeOK <=> calm \in BOOLEAN /\ Typed
BY DEF TypeOK, Typed, WorkerOK

LEMMA StepIsServing ==
  ASSUME NEW w \in Worker, Step(w) PROVE Serving(w)
BY DEF Step, Serving, At, IsExistUser, PasswardRightWrong, InsertUserID, JudgeUser, CreateTable,
   UpdateDataSetPath, SelectDataSetPath, SelectSampleNumber, QueryUserInfo, Delete, LogOff,
   DeleteUser, ErasePath, LogOut, DeleteVar

\* Each statement of a callback keeps the types.
LEMMA StepType == ASSUME Typed, NEW w \in Worker, Step(w) PROVE Typed'
<1> USE RowIsResult
<1>1. WorkerOK /\ Serving(w)
  BY StepIsServing DEF Typed
<1>2. UserID(w) \in User /\ Given(w) \in Password \cup {None} /\ Req(w) \in Requests \cup {None}
  <2>1. worker[w] \in WorkerType
    BY <1>1 DEF WorkerOK
  <2>2. Given(w) \in Password \cup {None} /\ Req(w) \in Requests \cup {None}
    BY <2>1 DEF WorkerType, Given, Req
  <2> QED
    BY <2>2, <1>1 DEF WorkerOK, Serving
<1>3. \A r \in Replies, place \in Places \ {"isExistUser", "insert_userID"} :
        Respond(w, place, r) => WorkerOK'
  BY <1>1, RespondMoves DEF MovesTo
<1>4. \A place \in Places : place \notin {"isExistUser", "insert_userID"} \/ HasPassword(w) =>
        (Go(w, place) => WorkerOK')
  BY <1>1, GoMoves DEF MovesTo
<1>5. worker' = [worker EXCEPT ![w] = Idle] => WorkerOK'
  BY <1>1, IdleMoves
<1>6. AfterDataSet(w) => WorkerOK'
  BY <1>4, <1>5 DEF AfterDataSet, Places
<1>0. << >> \in Seq(Row)
  OBVIOUS
<1> USE <1>0, <1>2 DEF Typed, Places, Replies
<1>7. Fails(w) \/ QueryError(w) => Typed'
  BY <1>3, <1>4 DEF Fails, QueryError, database, memory
<1>7a. Exists(UserID(w)) => LastRow(UserID(w)) \in Result
  BY LastRowIsRow
<1>8. CASE IsExistUser(w)
  BY <1>3, <1>4, <1>5, <1>6, <1>7, <1>8, <1>7a DEF IsExistUser, HasPassword, database, memory
<1>9. CASE PasswardRightWrong(w)
  BY <1>3, <1>4, <1>5, <1>6, <1>9 DEF PasswardRightWrong, database
<1>10. CASE InsertUserID(w)
  <2>1. Given(w) \in Password
    BY <1>1, <1>10 DEF WorkerOK, HasPassword, InsertUserID
  <2>2. [password |-> Given(w), u_database |-> None] \in Row
    BY <2>1 DEF Row
  <2>3. Append(rows[UserID(w)], [password |-> Given(w), u_database |-> None]) \in Seq(Row)
    BY <2>2, AppendRow
  <2> QED
    BY <1>3, <1>4, <1>5, <1>6, <1>7, <1>10, <2>3 DEF InsertUserID, memory
<1>11. CASE JudgeUser(w)
  BY <1>3, <1>4, <1>5, <1>6, <1>11, <1>7a DEF JudgeUser, database, memory
<1>12. CASE CreateTable(w)
  BY <1>3, <1>4, <1>5, <1>6, <1>7, <1>12 DEF CreateTable, memory
<1>13. CASE UpdateDataSetPath(w)
  <2> DEFINE q == rows[UserID(w)]
  <2>1. [i \in 1..Len(q) |-> [q[i] EXCEPT !.u_database = UserID(w)]] \in Seq(Row)
    BY PathedRows
  <2> QED
    BY <1>3, <1>4, <1>5, <1>6, <1>7, <1>13, <2>1 DEF UpdateDataSetPath, memory
<1>14. CASE SelectDataSetPath(w)
  <2>1. Exists(UserID(w)) => [m EXCEPT !.u_database = LastRow(UserID(w)).u_database] \in Result
    <3>1. Exists(UserID(w)) => LastRow(UserID(w)).u_database \in User \cup {None}
      BY <1>7a DEF Result
    <3> QED
      BY <3>1 DEF Result
  <2> QED
    BY <1>3, <1>4, <1>5, <1>6, <1>14, <2>1 DEF SelectDataSetPath, database, memory
<1>15. CASE SelectSampleNumber(w)
  BY <1>3, <1>4, <1>5, <1>6, <1>15 DEF SelectSampleNumber, database
<1>16. CASE QueryUserInfo(w)
  BY <1>3, <1>4, <1>5, <1>6, <1>7, <1>16 DEF QueryUserInfo, database, memory
<1>17. CASE Delete(w)
  BY <1>3, <1>4, <1>5, <1>6, <1>17 DEF Delete, memory
<1>18. CASE LogOff(w) \/ DeleteUser(w) \/ ErasePath(w)
  BY <1>3, <1>4, <1>5, <1>6, <1>18 DEF LogOff, DeleteUser, ErasePath, database, memory
<1>19. CASE LogOut(w)
  BY <1>3, <1>4, <1>5, <1>6, <1>19 DEF LogOut, database
<1>20. CASE DeleteVar(w)
  BY <1>3, <1>4, <1>5, <1>6, <1>20 DEF DeleteVar, database, memory
<1> QED
  BY <1>8, <1>9, <1>10, <1>11, <1>12, <1>13, <1>14, <1>15, <1>16, <1>17, <1>18, <1>19, <1>20 DEF Step

LEMMA TypeStep == TypeOK /\ [Next]_vars => TypeOK'
<1>1. ASSUME Typed, NEW w \in Worker, NEW req \in Requests, NEW u \in User,
             NEW p \in Password \cup {None}, Request(w, req, u, p)
      PROVE  Typed'
  BY <1>1, RequestMoves DEF Request, Typed, database, memory
<1>2. Typed /\ UNCHANGED vars => Typed'
  BY DEF Typed, WorkerOK, Serving, HasPassword, At, UserID, Given, vars, database, memory
<1>3. Typed /\ Next => Typed'
  BY <1>1, StepType DEF Next
<1>4. TypeOK' <=> calm' \in BOOLEAN /\ Typed'
  BY DEF TypeOK, Typed, WorkerOK
<1>5. [Next]_vars => calm' = calm
  BY DEF Next, vars
<1> QED
  BY <1>2, <1>3, <1>4, <1>5, TypedIsTypeOK

-----------------------------------------------------------------------------
(* Requests that do not overlap. *)

LEMMA CalmInit == Init => CalmInv
BY DEF Init, CalmInv, Serving, LoggingOn, ToClose, At, Idle

\* When w alone is serving, only what concerns w is left to show.
LEMMA AloneStep ==
  ASSUME CalmInv, NEW w \in Worker, OthersStay(w), \A v \in Worker \ {w} : ~Serving(v),
         At(w, "passward_right_wrong")' => Exists(UserID(w))' /\ m' = LastRow(UserID(w))',
         LoggingOn(w)' => Exists(UserID(w))',
         ToClose(w)' => Req(w)' = "CLOSE_ACCOUNT",
         At(w, "delete")' => Right(w)',
         At(w, "log_off")' \/ At(w, "delete_user")' => ~Exists(UserID(w))',
         \A u \in User_ID' : ~Exists(u)' => At(w, "log_off")' /\ UserID(w)' = u,
         \A u \in userID_modelpath' : ~Exists(u)' => Closing(w)' /\ UserID(w)' = u
  PROVE  CalmInv'
<1>1. ASSUME NEW v \in Worker, v # w
      PROVE  /\ ~Serving(v)' /\ ~At(v, "passward_right_wrong")' /\ ~LoggingOn(v)'
             /\ ~ToClose(v)' /\ ~At(v, "delete")' /\ ~At(v, "log_off")' /\ ~At(v, "delete_user")'
  <2>1. v \in Worker \ {w} /\ worker'[v] = worker[v] /\ ~Serving(v)
    BY <1>1 DEF OthersStay
  <2> QED
    BY <2>1 DEF Serving, LoggingOn, ToClose, At, Req
<1>2. \A u, v \in Worker : Serving(u)' /\ Serving(v)' => u = v
  BY <1>1
<1>3. \A v \in Worker : At(v, "passward_right_wrong")' => Exists(UserID(v))' /\ m' = LastRow(UserID(v))'
  BY <1>1
<1>4. \A v \in Worker : LoggingOn(v)' => Exists(UserID(v))'
  BY <1>1
<1>5. /\ \A u \in User_ID' : ~Exists(u)' => \E v \in Worker : At(v, "log_off")' /\ UserID(v)' = u
      /\ \A u \in userID_modelpath' : ~Exists(u)' => \E v \in Worker : Closing(v)' /\ UserID(v)' = u
  OBVIOUS
<1>6. \A v \in Worker :
        /\ ToClose(v)' => Req(v)' = "CLOSE_ACCOUNT"
        /\ At(v, "delete")' => Right(v)'
        /\ At(v, "log_off")' \/ At(v, "delete_user")' => ~Exists(UserID(v))'
  BY <1>1
<1> QED
  BY <1>2, <1>3, <1>4, <1>5, <1>6 DEF CalmInv

\* Where a step of w leads, as far as AloneStep asks.
LEMMA StepGoes ==
  ASSUME WorkerOK, NEW w \in Worker, Serving(w)
  PROVE  /\ \A place \in Places : place \notin {"isExistUser", "insert_userID"} \/ HasPassword(w) =>
              (Go(w, place) => MovesTo(w, place, worker[w].reply))
         /\ \A place \in Places \ {"isExistUser", "insert_userID"}, r \in Replies :
              Respond(w, place, r) => MovesTo(w, place, r)
         /\ worker' = [worker EXCEPT ![w] = Idle] => OthersStay(w) /\ worker'[w] = Idle
<1>1. \A place \in Places : place \notin {"isExistUser", "insert_userID"} \/ HasPassword(w) =>
        (Go(w, place) => MovesTo(w, place, worker[w].reply))
  BY GoMoves
<1>2. \A place \in Places \ {"isExistUser", "insert_userID"}, r \in Replies :
        Respond(w, place, r) => MovesTo(w, place, r)
  BY RespondMoves
<1>3. worker' = [worker EXCEPT ![w] = Idle] => OthersStay(w) /\ worker'[w] = Idle
  BY IdleMoves
<1> QED
  BY <1>1, <1>2, <1>3

LEMMA CalmStep == ASSUME Typed, CalmInv, NEW w \in Worker, Step(w) PROVE CalmInv'
<1>1. WorkerOK /\ Serving(w) /\ UserID(w) \in User
  BY StepIsServing DEF Typed, WorkerOK, Serving
<1>2. \A v \in Worker \ {w} : ~Serving(v)
  BY <1>1 DEF CalmInv
<1>3. /\ \A u \in User_ID : ~Exists(u) => At(w, "log_off") /\ UserID(w) = u
      /\ \A u \in userID_modelpath : ~Exists(u) => Closing(w) /\ UserID(w) = u
  BY <1>2 DEF CalmInv, Serving, Closing, At
<1>3a. ~Closing(w) => \A u \in User_ID \cup userID_modelpath : Exists(u)
  BY <1>3 DEF Closing
<1> DEFINE Goal ==
      /\ OthersStay(w)
      /\ At(w, "passward_right_wrong")' => Exists(UserID(w))' /\ m' = LastRow(UserID(w))'
      /\ LoggingOn(w)' => Exists(UserID(w))'
      /\ ToClose(w)' => Req(w)' = "CLOSE_ACCOUNT"
      /\ At(w, "delete")' => Right(w)'
      /\ At(w, "log_off")' \/ At(w, "delete_user")' => ~Exists(UserID(w))'
      /\ \A u \in User_ID' : ~Exists(u)' => At(w, "log_off")' /\ UserID(w)' = u
      /\ \A u \in userID_modelpath' : ~Exists(u)' => Closing(w)' /\ UserID(w)' = u
<1>4. SUFFICES Goal
  BY <1>2, AloneStep
<1> DEFINE Rest == rows' = rows /\ User_ID' = User_ID /\ userID_modelpath' = userID_modelpath
<1>5. ASSUME Rest, ~Closing(w), NEW place \in Places, NEW r, MovesTo(w, place, r),
             place \notin {"passward_right_wrong", "dataSet_path", "sample_number", "query_user_info",
                           "delete", "log_off", "delete_user"}
      PROVE  Goal
  BY <1>3a, <1>5 DEF MovesTo, LoggingOn, ToClose, At, Exists
<1>6. ASSUME Rest, ~Closing(w), worker' = [worker EXCEPT ![w] = Idle]
      PROVE  Goal
  <2>1. OthersStay(w) /\ worker'[w] = Idle
    BY <1>1, <1>6, StepGoes
  <2>2. /\ ~At(w, "passward_right_wrong")' /\ ~LoggingOn(w)' /\ ~ToClose(w)' /\ ~At(w, "delete")'
        /\ ~At(w, "log_off")' /\ ~At(w, "delete_user")'
    BY <2>1 DEF At, LoggingOn, ToClose, Idle
  <2> QED
    BY <1>3a, <1>6, <2>1, <2>2 DEF Exists
<1>7. Fails(w) /\ ~Closing(w) => Goal
  BY <1>1, <1>5, StepGoes DEF Fails, Places, database, memory
<1>8. QueryError(w) /\ ~Closing(w) => Goal
  BY <1>1, <1>5, StepGoes DEF QueryError, Places, Replies, database, memory
<1>9. AfterDataSet(w) /\ ~Closing(w) /\ Rest => Goal
  BY <1>1, <1>5, <1>6, StepGoes DEF AfterDataSet, Places
<1> HIDE DEF Goal
<1>10. CASE IsExistUser(w)
  <2>1. ~Closing(w) /\ HasPassword(w)
    BY <1>10 DEF IsExistUser, Closing, At, HasPassword
  <2>2. CASE /\ Exists(UserID(w)) /\ m' = LastRow(UserID(w))
             /\ Go(w, "passward_right_wrong") /\ UNCHANGED <<database, memory>>
    <3>1. MovesTo(w, "passward_right_wrong", worker[w].reply) /\ Rest
      BY <1>1, <2>2, StepGoes DEF Places, database, memory
    <3> QED
      BY <1>3, <2>1, <2>2, <3>1 DEF Goal, MovesTo, LoggingOn, ToClose, At, Exists, LastRow
  <2>3. CASE Respond(w, "delete_var", "SIGNUP_RESPOND_EXIST") /\ UNCHANGED <<database, memory>>
    BY <1>1, <1>5, <2>1, <2>3, StepGoes DEF Places, Replies, database, memory
  <2>4. CASE Respond(w, "delete_var", "LOGON_RESPOND_NOUSER") /\ UNCHANGED <<database, memory>>
    BY <1>1, <1>5, <2>1, <2>4, StepGoes DEF Places, Replies, database, memory
  <2>5. CASE Go(w, "insert_userID") /\ UNCHANGED <<database, memory>>
    BY <1>1, <1>5, <2>1, <2>5, StepGoes DEF Places, database, memory
  <2> QED
    BY <1>8, <1>10, <2>1, <2>2, <2>3, <2>4, <2>5 DEF IsExistUser
<1>11. CASE PasswardRightWrong(w)
  <2>1. ~Closing(w) /\ Exists(UserID(w)) /\ rows' = rows /\ userID_modelpath' = userID_modelpath
    BY <1>11 DEF PasswardRightWrong, CalmInv, Closing, At, database
  <2>2. CASE User_ID' = User_ID \cup {UserID(w)} /\ Respond(w, "dataSet_path", "LOGON_RESPOND_PWRIGHT")
    <3>1. MovesTo(w, "dataSet_path", "LOGON_RESPOND_PWRIGHT")
      BY <1>1, <2>2, StepGoes DEF Places, Replies
    <3> QED
      BY <1>3, <2>1, <2>2, <3>1 DEF Goal, MovesTo, LoggingOn, ToClose, At, Exists
  <2>3. CASE Respond(w, "delete_var", "LOGON_RESPOND_PWERROR") /\ UNCHANGED User_ID
    BY <1>1, <1>5, <2>1, <2>3, StepGoes DEF Places, Replies
  <2> QED
    BY <1>11, <2>2, <2>3 DEF PasswardRightWrong
<1>12. CASE InsertUserID(w)
  <2>1. ~Closing(w)
    BY <1>12 DEF InsertUserID, Closing, At
  <2> DEFINE r == [password |-> Given(w), u_database |-> None]
  <2>2. CASE /\ rows' = [rows EXCEPT ![UserID(w)] = Append(@, r)] /\ UNCHANGED memory
             /\ Respond(w, "judge_user", "SIGNUP_RESPOND_SUCCESS")
    <3>1. MovesTo(w, "judge_user", "SIGNUP_RESPOND_SUCCESS")
      BY <1>1, <2>2, StepGoes DEF Places, Replies
    <3>2. Given(w) \in Password
      BY <1>1, <1>12 DEF InsertUserID, WorkerOK
    <3>3. r \in Row
      BY <3>2 DEF Row
    <3>4. Append(rows[UserID(w)], r) # << >>
      BY <1>1, <3>3, AppendRow DEF Typed
    <3>5. \A u \in User : Exists(u) => Exists(u)'
      BY <1>1, <2>2, <3>4 DEF Typed, Exists
    <3> QED
      BY <1>3a, <2>1, <2>2, <3>1, <3>5 DEF Goal, MovesTo, LoggingOn, ToClose, At, memory, Typed
  <2> QED
    BY <1>7, <1>12, <2>1, <2>2 DEF InsertUserID
<1>13. CASE JudgeUser(w)
  BY <1>1, <1>5, <1>13, StepGoes DEF JudgeUser, Closing, At, Places, database, memory
<1>14. CASE CreateTable(w)
  BY <1>1, <1>5, <1>7, <1>14, StepGoes DEF CreateTable, Closing, At, Places, memory
<1>15. CASE UpdateDataSetPath(w)
  <2>1. ~Closing(w)
    BY <1>15 DEF UpdateDataSetPath, Closing, At
  <2> DEFINE q == rows[UserID(w)]
             p == [i \in 1..Len(q) |-> [q[i] EXCEPT !.u_database = UserID(w)]]
  <2>2. CASE rows' = [rows EXCEPT ![UserID(w)] = p] /\ UNCHANGED memory /\ Go(w, "delete_var")
    <3>1. MovesTo(w, "delete_var", worker[w].reply)
      BY <1>1, <2>2, StepGoes DEF Places
    <3>2. p # << >> <=> q # << >>
      BY <1>1, PathedRows DEF Typed
    <3> HIDE DEF p
    <3>3. \A u \in User : Exists(u) => Exists(u)'
      BY <1>1, <2>2, <3>2 DEF Typed, Exists
    <3> QED
      BY <1>3a, <2>1, <2>2, <3>1, <3>3 DEF Goal, MovesTo, LoggingOn, ToClose, At, memory, Typed
  <2> QED
    BY <1>7, <1>15, <2>1, <2>2 DEF UpdateDataSetPath
<1>16. CASE SelectDataSetPath(w)
  <2>1. ~Closing(w) /\ Rest
    BY <1>16 DEF SelectDataSetPath, Closing, At, database, memory
  <2>2. CASE Exists(UserID(w)) /\ Go(w, "sample_number")
    <3>1. MovesTo(w, "sample_number", worker[w].reply)
      BY <1>1, <2>2, StepGoes DEF Places
    <3> QED
      BY <1>3, <2>1, <2>2, <3>1 DEF Goal, MovesTo, LoggingOn, ToClose, At, Exists
  <2> QED
    BY <1>9, <1>16, <2>1, <2>2 DEF SelectDataSetPath
<1>17. CASE SelectSampleNumber(w)
  <2>1. rows' = rows /\ User_ID' = User_ID /\ AfterDataSet(w) /\ At(w, "sample_number")
    BY <1>17 DEF SelectSampleNumber, database
  <2>2. \A u \in userID_modelpath' \ userID_modelpath : Exists(u)
    <3>1. Req(w) = "LOGON" => Exists(UserID(w))
      BY <2>1 DEF CalmInv, LoggingOn
    <3> QED
      BY <1>17, <3>1 DEF SelectSampleNumber
  <2>3. /\ OthersStay(w) /\ ~At(w, "passward_right_wrong")' /\ ~LoggingOn(w)' /\ ~ToClose(w)'
        /\ ~At(w, "delete")' /\ ~At(w, "log_off")' /\ ~At(w, "delete_user")'
    <3>1. CASE Go(w, "delete_var")
      BY <1>1, <3>1, StepGoes DEF Places, MovesTo, LoggingOn, ToClose, At
    <3>2. CASE worker' = [worker EXCEPT ![w] = Idle]
      <4>1. OthersStay(w) /\ worker'[w] = Idle
        BY <1>1, <3>2, StepGoes
      <4> QED
        BY <4>1 DEF Idle, LoggingOn, ToClose, At
    <3> QED
      BY <2>1, <3>1, <3>2 DEF AfterDataSet
  <2>4. ~Closing(w)
    BY <2>1 DEF Closing, At
  <2> QED
    BY <1>3a, <2>1, <2>2, <2>3, <2>4 DEF Goal, Exists
<1>18. CASE QueryUserInfo(w)
  <2>1. ~Closing(w) /\ ToClose(w) /\ Req(w) = "CLOSE_ACCOUNT"
    BY <1>18 DEF QueryUserInfo, Closing, ToClose, At, CalmInv
  <2>2. CASE Right(w) /\ Go(w, "delete") /\ UNCHANGED <<database, memory>>
    <3>1. MovesTo(w, "delete", worker[w].reply)
      BY <1>1, <2>2, StepGoes DEF Places
    <3> QED
      BY <1>3, <2>1, <2>2, <3>1 DEF Goal, MovesTo, LoggingOn, At, Exists, LastRow, Right, database, memory
  <2>3. CASE Respond(w, "delete_var", "CLOSE_RESPOND_PWERROR") /\ UNCHANGED <<database, memory>>
    BY <1>1, <1>5, <2>1, <2>3, StepGoes DEF Places, Replies, database, memory
  <2> QED
    BY <1>8, <1>18, <2>1, <2>2, <2>3 DEF QueryUserInfo, Right
<1>19. CASE Delete(w)
  <2>1. ~Closing(w)
    BY <1>19 DEF Delete, Closing, At
  <2>2. CASE rows' = [rows EXCEPT ![UserID(w)] = << >>] /\ Respond(w, "log_off", "CLOSE_RESPOND_SUCCESS")
    <3>1. MovesTo(w, "log_off", "CLOSE_RESPOND_SUCCESS")
      BY <1>1, <2>2, StepGoes DEF Places, Replies
    <3>2. /\ \A u \in User : u # UserID(w) => (Exists(u)' <=> Exists(u))
          /\ rows'[UserID(w)] = << >>
      BY <1>1, <2>2 DEF Typed, Exists
    <3>3. ~Exists(UserID(w))'
      BY <3>1, <3>2 DEF MovesTo, Exists
    <3> QED
      BY <1>3, <1>19, <2>1, <3>1, <3>2, <3>3
      DEF Delete, Goal, MovesTo, LoggingOn, Closing, ToClose, At, memory, Typed
  <2>3. CASE Respond(w, "delete_var", "CLOSE_RESPOND_ERROR") /\ UNCHANGED rows
    BY <1>1, <1>5, <1>19, <2>1, <2>3, StepGoes DEF Delete, Places, Replies, memory
  <2> QED
    BY <1>19, <2>2, <2>3 DEF Delete
<1>20. CASE LogOff(w)
  <2>1. MovesTo(w, "delete_user", worker[w].reply)
    BY <1>1, <1>20, StepGoes DEF LogOff, Places
  <2>2. At(w, "log_off") /\ ~Exists(UserID(w)) /\ rows' = rows /\ userID_modelpath' = userID_modelpath
        /\ User_ID' = User_ID \ {UserID(w)}
    BY <1>20 DEF LogOff, CalmInv, database
  <2> QED
    BY <1>3, <2>1, <2>2 DEF Goal, MovesTo, LoggingOn, Closing, ToClose, At, Exists
<1>20a. CASE DeleteUser(w)
  <2>1. MovesTo(w, "erase", worker[w].reply)
    BY <1>1, <1>20a, StepGoes DEF DeleteUser, Places
  <2>2. At(w, "delete_user") /\ ~At(w, "log_off") /\ UNCHANGED memory
    BY <1>20a DEF DeleteUser, At
  <2>3. rows[UserID(w)] = << >>
    BY <2>2 DEF CalmInv, Exists
  <2>4. rows' = rows
    BY <1>1, <1>20a, <2>3 DEF DeleteUser, Typed
  <2> QED
    BY <1>3, <2>1, <2>2, <2>4 DEF Goal, MovesTo, LoggingOn, Closing, ToClose, At, Exists, memory
<1>20b. CASE ErasePath(w)
  <2>1. MovesTo(w, "delete_var", worker[w].reply)
    BY <1>1, <1>20b, StepGoes DEF ErasePath, Places
  <2>2. /\ ~At(w, "log_off") /\ rows' = rows /\ User_ID' = User_ID
        /\ userID_modelpath' = userID_modelpath \ {UserID(w)}
    BY <1>20b DEF ErasePath, At, database
  <2> QED
    BY <1>3, <2>1, <2>2 DEF Goal, MovesTo, LoggingOn, ToClose, At, Exists
<1>21. CASE LogOut(w)
  <2>1. MovesTo(w, "delete_var", worker[w].reply)
    BY <1>1, <1>21, StepGoes DEF LogOut, Places
  <2> QED
    BY <1>3, <1>21, <2>1 DEF LogOut, Goal, MovesTo, LoggingOn, Closing, ToClose, At, Exists, database
<1>22. CASE DeleteVar(w)
  BY <1>6, <1>22 DEF DeleteVar, Closing, At, database, memory
<1> QED
  BY <1>10, <1>11, <1>12, <1>13, <1>14, <1>15, <1>16, <1>17, <1>18, <1>19, <1>20, <1>20a, <1>20b, <1>21,
     <1>22 DEF Step

-----------------------------------------------------------------------------
(* What a step of w may lead to, however requests overlap. *)

Leads(w) ==
  /\ OthersStay(w)
  /\ At(w, "delete")' => Right(w)
  /\ At(w, "update_path")' => UserID(w)' = UserID(w) /\ UserID(w) \notin tables
  /\ Answers(w, "CLOSE_RESPOND_PWERROR") => Wrong(w)
  /\ Answers(w, "LOGON_RESPOND_PWRIGHT") => At(w, "passward_right_wrong") /\ m.password = Given(w)
  /\ Answers(w, "LOGON_RESPOND_PWERROR") => At(w, "passward_right_wrong") /\ m.password # Given(w)

Judgements == {"CLOSE_RESPOND_PWERROR", "LOGON_RESPOND_PWRIGHT", "LOGON_RESPOND_PWERROR"}

LEMMA StepLeads == ASSUME None \notin Replies, Typed, NEW w \in Worker, Step(w) PROVE Leads(w)
<1>1. WorkerOK /\ Serving(w)
  BY StepIsServing DEF Typed
<1>2. ASSUME NEW place \in Places \ {"delete", "update_path"}, MovesTo(w, place, worker[w].reply)
      PROVE  Leads(w)
  BY <1>2 DEF MovesTo, Leads, At, Answers
<1>3. ASSUME NEW place \in Places \ {"delete", "update_path"}, NEW r \in Replies \ Judgements,
             MovesTo(w, place, r)
      PROVE  Leads(w)
  BY <1>3 DEF MovesTo, Leads, At, Answers, Judgements
<1>4. ASSUME worker' = [worker EXCEPT ![w] = Idle]
      PROVE  Leads(w)
  <2>1. OthersStay(w) /\ worker'[w] = Idle
    BY <1>1, <1>4, StepGoes
  <2>2. Idle.at = "idle" /\ Idle.reply = None
    BY DEF Idle
  <2> HIDE DEF Idle
  <2>3. None \notin Judgements
    BY DEF Judgements, Replies
  <2> QED
    BY <2>1, <2>2, <2>3 DEF Leads, At, Answers, Judgements
<1>5. Fails(w) => Leads(w)
  BY <1>1, <1>2, StepGoes DEF Fails, Places
<1>6. QueryError(w) => Leads(w)
  BY <1>1, <1>3, StepGoes DEF QueryError, Places, Replies, Judgements
<1>7. AfterDataSet(w) => Leads(w)
  BY <1>1, <1>2, <1>4, StepGoes DEF AfterDataSet, Places
<1>8. CASE IsExistUser(w)
  <2>1. HasPassword(w)
    BY <1>8 DEF IsExistUser, HasPassword
  <2>2. Go(w, "passward_right_wrong") \/ Go(w, "insert_userID") => Leads(w)
    BY <1>1, <1>2, <2>1, StepGoes DEF Places
  <2>3. Respond(w, "delete_var", "SIGNUP_RESPOND_EXIST") \/ Respond(w, "delete_var", "LOGON_RESPOND_NOUSER")
          => Leads(w)
    BY <1>1, <1>3, StepGoes DEF Places, Replies, Judgements
  <2> QED
    BY <1>6, <1>8, <2>2, <2>3 DEF IsExistUser
<1>9. CASE PasswardRightWrong(w)
  <2>1. CASE m.password = Given(w) /\ Respond(w, "dataSet_path", "LOGON_RESPOND_PWRIGHT")
    <3>1. MovesTo(w, "dataSet_path", "LOGON_RESPOND_PWRIGHT")
      BY <1>1, <2>1, StepGoes DEF Places, Replies
    <3> QED
      BY <1>9, <2>1, <3>1 DEF PasswardRightWrong, MovesTo, Leads, At, Answers
  <2>2. CASE m.password # Given(w) /\ Respond(w, "delete_var", "LOGON_RESPOND_PWERROR")
    <3>1. MovesTo(w, "delete_var", "LOGON_RESPOND_PWERROR")
      BY <1>1, <2>2, StepGoes DEF Places, Replies
    <3> QED
      BY <1>9, <2>2, <3>1 DEF PasswardRightWrong, MovesTo, Leads, At, Answers
  <2> QED
    BY <1>9, <2>1, <2>2 DEF PasswardRightWrong
<1>10. CASE InsertUserID(w)
  <2>1. Respond(w, "judge_user", "SIGNUP_RESPOND_SUCCESS") => Leads(w)
    BY <1>1, <1>3, StepGoes DEF Places, Replies, Judgements
  <2> QED
    BY <1>5, <1>10, <2>1 DEF InsertUserID
<1>11. CASE JudgeUser(w)
  BY <1>1, <1>2, <1>11, StepGoes DEF JudgeUser, Places
<1>12. CASE CreateTable(w)
  <2>1. CASE UserID(w) \notin tables /\ Go(w, "update_path")
    <3>1. MovesTo(w, "update_path", worker[w].reply)
      BY <1>1, <2>1, StepGoes DEF Places
    <3> QED
      BY <2>1, <3>1 DEF MovesTo, Leads, At, Answers
  <2> QED
    BY <1>5, <1>12, <2>1 DEF CreateTable
<1>13. CASE UpdateDataSetPath(w)
  <2>1. Go(w, "delete_var") => Leads(w)
    BY <1>1, <1>2, StepGoes DEF Places
  <2> QED
    BY <1>5, <1>13, <2>1 DEF UpdateDataSetPath
<1>14. CASE SelectDataSetPath(w)
  <2>1. Go(w, "sample_number") => Leads(w)
    BY <1>1, <1>2, StepGoes DEF Places
  <2> QED
    BY <1>7, <1>14, <2>1 DEF SelectDataSetPath
<1>15. CASE SelectSampleNumber(w)
  BY <1>7, <1>15 DEF SelectSampleNumber
<1>16. CASE QueryUserInfo(w)
  <2>1. CASE Right(w) /\ Go(w, "delete")
    <3>1. MovesTo(w, "delete", worker[w].reply)
      BY <1>1, <2>1, StepGoes DEF Places
    <3> QED
      BY <2>1, <3>1 DEF MovesTo, Leads, At, Answers
  <2>2. CASE Wrong(w) /\ Respond(w, "delete_var", "CLOSE_RESPOND_PWERROR")
    <3>1. MovesTo(w, "delete_var", "CLOSE_RESPOND_PWERROR")
      BY <1>1, <2>2, StepGoes DEF Places, Replies
    <3> QED
      BY <2>2, <3>1 DEF MovesTo, Leads, At, Answers
  <2> QED
    BY <1>6, <1>16, <2>1, <2>2 DEF QueryUserInfo, Right, Wrong
<1>17. CASE Delete(w)
  BY <1>1, <1>3, <1>17, StepGoes DEF Delete, Places, Replies, Judgements
<1>18. CASE LogOff(w) \/ DeleteUser(w) \/ ErasePath(w)
  BY <1>1, <1>2, <1>18, StepGoes DEF LogOff, DeleteUser, ErasePath, Places
<1>19. CASE LogOut(w)
  BY <1>1, <1>2, <1>19, StepGoes DEF LogOut, Places
<1>20. CASE DeleteVar(w)
  BY <1>4, <1>20 DEF DeleteVar
<1> QED
  BY <1>8, <1>9, <1>10, <1>11, <1>12, <1>13, <1>14, <1>15, <1>16, <1>17, <1>18, <1>19, <1>20 DEF Step

\* Only the worker at update_path gives an account its data set.
LEMMA StepDataSet ==
  ASSUME Typed, NEW w \in Worker, Step(w), NEW u \in User
  PROVE  /\ tables \subseteq tables'
         /\ HasDataSet(u)' => HasDataSet(u) \/ (At(w, "update_path") /\ UserID(w) = u)
<1>1. WorkerOK /\ UserID(w) \in User
  BY StepIsServing DEF Typed, WorkerOK, Serving
<1>2. UNCHANGED rows => HasDataSet(u)' = HasDataSet(u)
  BY DEF HasDataSet
<1>3. ASSUME rows' = [rows EXCEPT ![UserID(w)] = << >>]
      PROVE  HasDataSet(u)' => HasDataSet(u)
  <2>1. u # UserID(w) => rows'[u] = rows[u]
    BY <1>3 DEF Typed
  <2>2. u = UserID(w) => rows'[u] = << >> /\ Len(rows'[u]) = 0
    BY <1>3 DEF Typed
  <2>3. u = UserID(w) => ~HasDataSet(u)'
    BY <2>2 DEF HasDataSet
  <2> QED
    BY <2>1, <2>3 DEF HasDataSet
<1>4. ASSUME At(w, "insert_userID"),
             rows' = [rows EXCEPT ![UserID(w)] = Append(@, [password |-> Given(w), u_database |-> None])]
      PROVE  HasDataSet(u)' => HasDataSet(u)
  <2> DEFINE r == [password |-> Given(w), u_database |-> None]
             q == rows[UserID(w)]
  <2>1. q \in Seq(Row) /\ Given(w) \in Password
    BY <1>1, <1>4 DEF Typed, WorkerOK
  <2>2. r \in Row /\ r.u_database = None
    BY <2>1 DEF Row
  <2> HIDE DEF r
  <2>3. /\ Len(Append(q, r)) = Len(q) + 1 /\ Len(q) \in Nat
        /\ \A i \in 1..Len(q) : Append(q, r)[i] = q[i]
        /\ Append(q, r)[Len(q) + 1] = r
    BY <2>1, <2>2, AppendRow
  <2>4. CASE u = UserID(w)
    <3>1. rows'[u] = Append(q, r)
      BY <1>1, <1>4, <2>4 DEF Typed, r
    <3> QED
      BY <2>2, <2>3, <2>4, <3>1 DEF HasDataSet
  <2>5. CASE u # UserID(w)
    BY <1>4, <2>5 DEF Typed, HasDataSet
  <2> QED
    BY <2>4, <2>5
<1>5. ASSUME UpdateDataSetPath(w), u # UserID(w)
      PROVE  rows'[u] = rows[u]
  BY <1>5 DEF UpdateDataSetPath, Fails, Typed, database
<1>6. tables \subseteq tables'
  BY DEF Step, Fails, QueryError, IsExistUser, PasswardRightWrong, InsertUserID, JudgeUser,
     CreateTable, UpdateDataSetPath, SelectDataSetPath, SelectSampleNumber, QueryUserInfo,
     Delete, LogOff, DeleteUser, ErasePath, LogOut, DeleteVar, database
<1>7. CASE InsertUserID(w)
  <2>1. At(w, "insert_userID")
    BY <1>7 DEF InsertUserID
  <2>2. CASE Fails(w)
    BY <1>2, <1>6, <2>2 DEF Fails, database
  <2>3. CASE ~Fails(w)
    BY <1>4, <1>6, <1>7, <2>1, <2>3 DEF InsertUserID
  <2> QED
    BY <2>2, <2>3
<1>8. CASE UpdateDataSetPath(w)
  <2>1. At(w, "update_path")
    BY <1>8 DEF UpdateDataSetPath
  <2>2. u # UserID(w) => rows'[u] = rows[u]
    BY <1>5, <1>8
  <2> QED
    BY <1>6, <2>1, <2>2 DEF HasDataSet
<1>9. CASE Delete(w) \/ DeleteUser(w)
  BY <1>2, <1>3, <1>6, <1>9 DEF Delete, DeleteUser
<1>10. CASE UNCHANGED database
  BY <1>2, <1>6, <1>10 DEF database
<1>11. CASE CreateTable(w)
  BY <1>2, <1>6, <1>11 DEF CreateTable, Fails, database
<1> QED
  BY <1>7, <1>8, <1>9, <1>10, <1>11 DEF Step, Fails, QueryError, IsExistUser, PasswardRightWrong,
     JudgeUser, SelectDataSetPath, SelectSampleNumber, QueryUserInfo, LogOff, ErasePath, LogOut,
     DeleteVar, database

-----------------------------------------------------------------------------
(* Theorems. *)

LEMMA InvInit == Init => AccountsInv
BY TypeInit, CalmInit DEF AccountsInv

LEMMA InvStep == AccountsInv /\ [Next]_vars => AccountsInv'
<1> SUFFICES ASSUME AccountsInv, [Next]_vars, calm' PROVE CalmInv'
  BY TypeStep DEF AccountsInv
<1>1. calm /\ CalmInv /\ Typed
  BY TypedIsTypeOK DEF AccountsInv, Next, vars
<1>2. CASE UNCHANGED vars
  BY <1>1, <1>2 DEF CalmInv, Serving, LoggingOn, Closing, ToClose, Right, At, UserID, Req, Given, Exists,
     LastRow, vars, database, memory
<1>3. ASSUME NEW w \in Worker, NEW req \in Requests, NEW u \in User, NEW p \in Password \cup {None},
             Request(w, req, u, p)
      PROVE  CalmInv'
  <2>1. \A v \in Worker : At(v, "idle")
    BY <1>1, <1>3 DEF Request
  <2>2. \A u1 \in User_ID \cup userID_modelpath : Exists(u1)
    BY <1>1, <2>1 DEF CalmInv, Closing, At
  <2>3. /\ OthersStay(w) /\ ~At(w, "passward_right_wrong")' /\ ~LoggingOn(w)'
        /\ (ToClose(w)' => Req(w)' = "CLOSE_ACCOUNT") /\ ~At(w, "delete")' /\ ~Closing(w)'
    BY <1>1, <1>3, RequestMoves DEF Typed
  <2>4. rows' = rows /\ User_ID' = User_ID /\ userID_modelpath' = userID_modelpath
    BY <1>3 DEF Request, database, memory
  <2> QED
    BY <1>1, <2>1, <2>2, <2>3, <2>4, AloneStep DEF Serving, Exists, Closing
<1> QED
  BY <1>1, <1>2, <1>3, CalmStep DEF Next

\* AccountsInv holds of every reachable state.
THEOREM AccountsInvariant == Spec => []AccountsInv
BY InvInit, InvStep, PTL DEF Spec

(* Every reachable state of the accounts has its type. *)
THEOREM AccountsTyped == Spec => []TypeOK
<1>1. AccountsInv => TypeOK
  BY DEF AccountsInv
<1> QED
  BY <1>1, AccountsInvariant, PTL

(* Closing leaves nothing: between requests that do not overlap, a name    *)
(* without an account is not logged on and has no model.                   *)
THEOREM ClosedLeavesNothing == Spec => []NothingOfTheClosed
<1>1. AccountsInv => NothingOfTheClosed
  BY DEF AccountsInv, CalmInv, NothingOfTheClosed, TypeOK, Closing, At
<1> QED
  BY <1>1, AccountsInvariant, PTL

\* The statement that takes the last row of a name away.
LEMMA StepCloses ==
  ASSUME Typed, calm => CalmInv, calm, NEW w \in Worker, Step(w), NEW u \in User, Exists(u), ~Exists(u)'
  PROVE  Req(w) = "CLOSE_ACCOUNT" /\ UserID(w) = u /\ Right(w)
<1>1. WorkerOK /\ UserID(w) \in User /\ rows \in [User -> Seq(Row)]
  BY StepIsServing DEF Typed, WorkerOK, Serving
<1>2. rows' # rows
  BY DEF Exists
<1>3. CASE InsertUserID(w)
  <2>1. Append(rows[UserID(w)], [password |-> Given(w), u_database |-> None]) # << >>
    <3>1. Given(w) \in Password
      BY <1>1, <1>3 DEF WorkerOK, InsertUserID
    <3>2. [password |-> Given(w), u_database |-> None] \in Row
      BY <3>1 DEF Row
    <3> QED
      BY <1>1, <3>2, AppendRow
  <2>2. rows' = [rows EXCEPT ![UserID(w)] = Append(@, [password |-> Given(w), u_database |-> None])]
    BY <1>2, <1>3 DEF InsertUserID, Fails, database
  <2> QED
    BY <1>1, <2>1, <2>2 DEF Exists
<1>4. CASE UpdateDataSetPath(w)
  <2> DEFINE q == rows[UserID(w)]
             p == [i \in 1..Len(q) |-> [q[i] EXCEPT !.u_database = UserID(w)]]
  <2>1. q \in Seq(Row) /\ (p # << >> <=> q # << >>)
    BY <1>1, PathedRows
  <2>2. rows' = [rows EXCEPT ![UserID(w)] = p]
    BY <1>2, <1>4 DEF UpdateDataSetPath, Fails, database
  <2> HIDE DEF p
  <2>3. UserID(w) = u => rows'[u] = p
    BY <1>1, <2>2
  <2>4. UserID(w) # u => rows'[u] = rows[u]
    BY <1>1, <2>2
  <2> QED
    BY <2>1, <2>3, <2>4 DEF Exists
<1>5. CASE Delete(w)
  <2>1. At(w, "delete") /\ rows' = [rows EXCEPT ![UserID(w)] = << >>]
    BY <1>2, <1>5 DEF Delete
  <2>2. UserID(w) = u
    BY <1>1, <2>1 DEF Exists
  <2> QED
    BY <2>1, <2>2 DEF CalmInv, ToClose
<1>6. CASE DeleteUser(w)
  <2>1. At(w, "delete_user") /\ rows' = [rows EXCEPT ![UserID(w)] = << >>]
    BY <1>2, <1>6 DEF DeleteUser
  <2>2. ~Exists(UserID(w))
    BY <2>1 DEF CalmInv
  <2> QED
    BY <1>1, <2>1, <2>2 DEF Exists
<1>7. CASE ~(InsertUserID(w) \/ UpdateDataSetPath(w) \/ Delete(w) \/ DeleteUser(w))
  BY <1>2, <1>7 DEF Step, Fails, QueryError, IsExistUser, PasswardRightWrong, JudgeUser, CreateTable,
     SelectDataSetPath, SelectSampleNumber, QueryUserInfo, LogOff, ErasePath, LogOut, DeleteVar, database
<1> QED
  BY <1>3, <1>4, <1>5, <1>6, <1>7

(* A user is judged by the account, if NULL is not one of the answers.  Of *)
(* requests that do not overlap an account goes only when a close gives    *)
(* its own password, and a log-on is answered by the account's row; a      *)
(* close is refused by that row even when requests overlap.                *)
THEOREM UsersJudgedByAccount == ASSUME None \notin Replies PROVE Spec => JudgedByAccount
<1> DEFINE Judged(w) ==
      /\ Answers(w, "CLOSE_RESPOND_PWERROR") => Wrong(w)
      /\ calm /\ Answers(w, "LOGON_RESPOND_PWRIGHT") => Right(w)
      /\ calm /\ Answers(w, "LOGON_RESPOND_PWERROR") => Wrong(w)
    Closed(u) == Exists(u) /\ ~Exists(u)' =>
                   \E w \in Worker : Req(w) = "CLOSE_ACCOUNT" /\ UserID(w) = u /\ Right(w)
<1>1. ASSUME AccountsInv, NEW w \in Worker, worker'[w] = worker[w]
      PROVE  Judged(w)
  BY <1>1 DEF At, Answers
<1>2. ASSUME AccountsInv, NEW w \in Worker, Step(w)
      PROVE  Judged(w)
  <2>1. Typed
    BY <1>2, TypedIsTypeOK DEF AccountsInv
  <2>2. Leads(w)
    BY <1>2, <2>1, StepLeads
  <2>3. calm /\ At(w, "passward_right_wrong") => Exists(UserID(w)) /\ m = LastRow(UserID(w))
    BY <1>2 DEF AccountsInv, CalmInv
  <2> QED
    BY <2>2, <2>3 DEF Leads, Right, Wrong
<1>3. ASSUME AccountsInv, NEW w \in Worker, NEW req \in Requests, NEW u \in User,
             NEW p \in Password \cup {None}, Request(w, req, u, p)
      PROVE  Judged(w) /\ OthersStay(w)
  <2>1. WorkerOK
    BY <1>3, TypedIsTypeOK DEF AccountsInv, Typed
  <2>2. OthersStay(w) /\ worker'[w].reply = None
    BY <1>3, <2>1, RequestMoves
  <2> QED
    BY <2>2 DEF Answers, Replies
<1>4. ASSUME AccountsInv, [Next]_vars, NEW w \in Worker
      PROVE  Judged(w)
  <2>1. CASE UNCHANGED vars
    BY <1>1, <1>4, <2>1 DEF vars
  <2>2. ASSUME NEW v \in Worker, Step(v) PROVE Judged(w)
    <3>1. OthersStay(v)
      BY <1>4, <2>2, StepLeads, TypedIsTypeOK DEF Leads, AccountsInv
    <3> QED
      BY <1>1, <1>2, <1>4, <2>2, <3>1 DEF OthersStay
  <2>3. ASSUME NEW v \in Worker, NEW req \in Requests, NEW u \in User, NEW p \in Password \cup {None},
               Request(v, req, u, p)
        PROVE  Judged(w)
    <3>1. Judged(v) /\ OthersStay(v)
      BY <1>3, <1>4, <2>3
    <3> QED
      BY <1>1, <1>4, <3>1 DEF OthersStay
  <2> QED
    BY <1>4, <2>1, <2>2, <2>3 DEF Next
<1>5. ASSUME AccountsInv, [Next]_vars, calm, NEW u \in User
      PROVE  Closed(u)
  <2>1. Typed /\ CalmInv
    BY <1>5, TypedIsTypeOK DEF AccountsInv
  <2>2. rows' = rows => Closed(u)
    BY DEF Exists
  <2>3. ASSUME NEW w \in Worker, Step(w) PROVE Closed(u)
    BY <1>5, <2>1, <2>3, StepCloses
  <2> QED
    BY <1>5, <2>2, <2>3 DEF Next, Request, vars, database
<1>6. AccountsInv /\ [Next]_vars =>
        (calm => \A u \in User : Closed(u)) /\ \A w \in Worker : Judged(w)
  BY <1>4, <1>5
<1> QED
  BY <1>6, AccountsInvariant, PTL DEF Spec, JudgedByAccount

(* A name whose account and data set are gone never gets a data set again. *)
THEOREM SpentStaysSpent == ASSUME None \notin Replies PROVE Spec => DataSetNotInherited
<1>1. ASSUME TypeOK, [Next]_vars, NEW u \in User, Spent(u)
      PROVE  Spent(u)'
  <2>1. CASE UNCHANGED vars
    BY <1>1, <2>1 DEF Spent, HasDataSet, Updating, At, UserID, vars, database
  <2>2. ASSUME NEW w \in Worker, Step(w) PROVE Spent(u)'
    <3>1. Leads(w) /\ tables \subseteq tables'
      BY <1>1, <2>2, StepLeads, StepDataSet, TypedIsTypeOK
    <3>2. ~(At(w, "update_path") /\ UserID(w) = u)
      BY <1>1 DEF Spent, Updating
    <3>3. ~HasDataSet(u)'
      BY <1>1, <2>2, <3>2, StepDataSet, TypedIsTypeOK DEF Spent
    <3>4. ~Updating(u)'
      BY <1>1, <3>1 DEF Spent, Updating, Leads, OthersStay, At, UserID
    <3> QED
      BY <1>1, <3>1, <3>3, <3>4 DEF Spent
  <2>3. ASSUME NEW w \in Worker, NEW req \in Requests, NEW v \in User, NEW p \in Password \cup {None},
               Request(w, req, v, p)
        PROVE  Spent(u)'
    <3>1. OthersStay(w) /\ ~At(w, "update_path")'
      BY <1>1, <2>3, RequestMoves, TypedIsTypeOK DEF Typed
    <3>2. rows' = rows /\ tables' = tables
      BY <2>3 DEF Request, database
    <3> QED
      BY <1>1, <3>1, <3>2 DEF Spent, HasDataSet, Updating, OthersStay, At, UserID
  <2> QED
    BY <1>1, <2>1, <2>2, <2>3 DEF Next
<1>2. TypeOK /\ [Next]_vars => \A u \in User : Spent(u) => Spent(u)'
  BY <1>1
<1> QED
  BY <1>2, AccountsTyped, PTL DEF Spec, DataSetNotInherited
=============================================================================
