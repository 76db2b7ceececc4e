------------------------------ MODULE Accounts ------------------------------
(***************************************************************************)
(* The accounts: log-on, sign-up, closing, log-out and the storing of a    *)
(* sample (src/lyserver/src/EventHandle.cpp), with the database handler    *)
(* they share (db/datahandle/user_db_handle.cpp) and the part of class     *)
(* PersonaLization that keeps a data set and a model for each account      *)
(* (src/other/RF/personalization.cpp).                                     *)
(*                                                                         *)
(* Each callback is run by one worker; a statement it sends to MySQL is an *)
(* action, and so is each use of what a query has left in m, which is one  *)
(* map for all workers.  Every statement may fail.  Whether names are      *)
(* unique is up to the schema: an insertion of a name that is there may    *)
(* fail or not.  The models' directories and the samples themselves are    *)
(* left out, for nothing depends on them: select count( * ) has one row, so*)
(* the number of samples is always taken for 1 and no model is trained.    *)
(***************************************************************************)
EXTENDS Integers, Sequences

CONSTANTS
  User,        \* UserID
  Password,
  Worker,      \* the threads of the pool
  None         \* NULL, no password, no answer

VARIABLES
  calm,              \* never changes: one request at a time
  rows,              \* table User: the rows of each name
  tables,            \* the names that have a data set table
  m,                 \* the result of the last query, shared by all workers
  User_ID,           \* who is logged on
  userID_modelpath,  \* who has a model (the general one)
  worker             \* what each thread is doing

database == <<rows, tables>>
memory == <<User_ID, userID_modelpath>>
vars == <<calm, database, m, memory, worker>>

Row == [password : Password, u_database : User \cup {None}]
Result == [password : Password \cup {None}, u_database : User \cup {None}]
Nothing == [password |-> None, u_database |-> None]
Requests == {"LOGON", "SIGNUP", "CLOSE_ACCOUNT", "LOG_OUT", "DATASET"}
Places == {"idle", "isExistUser", "passward_right_wrong", "insert_userID", "judge_user", "create_table",
           "update_path", "dataSet_path", "sample_number", "query_user_info", "delete", "log_off",
           "delete_user", "erase", "log_out", "delete_var"}
Replies == {"LOGON_RESPOND_PWRIGHT", "LOGON_RESPOND_PWERROR", "LOGON_RESPOND_NOUSER", "SIGNUP_RESPOND_SUCCESS",
            "SIGNUP_RESPOND_EXIST", "CLOSE_RESPOND_SUCCESS", "CLOSE_RESPOND_ERROR", "CLOSE_RESPOND_PWERROR",
            "QUERY_RESPOND_ERROR"}
WorkerType == [at : Places, req : Requests \cup {None}, u : User \cup {None}, p : Password \cup {None},
               reply : Replies \cup {None}]
Idle == [at |-> "idle", req |-> None, u |-> None, p |-> None, reply |-> None]

At(w, place) == worker[w].at = place
Req(w) == worker[w].req
UserID(w) == worker[w].u
Given(w) == worker[w].p
Exists(u) == rows[u] # << >>
\* Of several rows query_mysql keeps the last one.
LastRow(u) == rows[u][Len(rows[u])]

Go(w, place) == worker' = [worker EXCEPT ![w].at = place]
Respond(w, place, r) == worker' = [worker EXCEPT ![w].at = place, ![w].reply = r]
Fails(w) == Go(w, "delete_var") /\ UNCHANGED <<database, m, memory>>
QueryError(w) ==
  Respond(w, "delete_var", "QUERY_RESPOND_ERROR") /\ UNCHANGED <<database, m, memory>>

Init ==
  /\ calm \in BOOLEAN
  /\ rows = [u \in User |-> << >>] /\ tables = {}
  /\ m = Nothing
  /\ User_ID = {} /\ userID_modelpath = {}
  /\ worker = [w \in Worker |-> Idle]

-----------------------------------------------------------------------------
FirstPlace(req) ==
  CASE req \in {"LOGON", "SIGNUP"} -> "isExistUser"
    [] req = "CLOSE_ACCOUNT" -> "query_user_info"
    [] req = "LOG_OUT" -> "log_out"
    [] req = "DATASET" -> "dataSet_path"

Request(w, req, u, p) ==
  /\ At(w, "idle")
  /\ calm => \A v \in Worker : At(v, "idle")
  /\ p = None <=> req \in {"LOG_OUT", "DATASET"}
  /\ worker' = [worker EXCEPT ![w] = [at |-> FirstPlace(req), req |-> req, u |-> u, p |-> p, reply |-> None]]
  /\ UNCHANGED <<database, m, memory>>

\* The destructor of ptr at the end of a callback.
DeleteVar(w) ==
  /\ At(w, "delete_var")
  /\ m' = Nothing
  /\ worker' = [worker EXCEPT ![w] = Idle]
  /\ UNCHANGED <<database, memory>>

-----------------------------------------------------------------------------
(* Log_on_CallBack and Sign_up_CallBack *)

IsExistUser(w) ==
  /\ At(w, "isExistUser")
  /\ \/ /\ Exists(UserID(w))
        /\ m' = LastRow(UserID(w))
        /\ IF Req(w) = "LOGON" THEN Go(w, "passward_right_wrong")
                               ELSE Respond(w, "delete_var", "SIGNUP_RESPOND_EXIST")
        /\ UNCHANGED <<database, memory>>
     \/ /\ ~Exists(UserID(w))
        /\ IF Req(w) = "LOGON" THEN Respond(w, "delete_var", "LOGON_RESPOND_NOUSER")
                               ELSE Go(w, "insert_userID")
        /\ UNCHANGED <<database, m, memory>>
     \/ QueryError(w)

PasswardRightWrong(w) ==
  /\ At(w, "passward_right_wrong")
  /\ IF m.password = Given(w)
       THEN /\ User_ID' = User_ID \cup {UserID(w)}
            /\ Respond(w, "dataSet_path", "LOGON_RESPOND_PWRIGHT")
       ELSE /\ Respond(w, "delete_var", "LOGON_RESPOND_PWERROR")
            /\ UNCHANGED User_ID
  /\ UNCHANGED <<database, m, userID_modelpath>>

\* When it fails the client gets no answer.
InsertUserID(w) ==
  /\ At(w, "insert_userID")
  /\ \/ /\ rows' = [rows EXCEPT ![UserID(w)] = Append(@, [password |-> Given(w), u_database |-> None])]
        /\ Respond(w, "judge_user", "SIGNUP_RESPOND_SUCCESS")
        /\ UNCHANGED <<tables, m, memory>>
     \/ Fails(w)

\* change_user_2_modeldir: its query, and an update of a column nobody reads.
JudgeUser(w) ==
  /\ At(w, "judge_user")
  /\ m' \in {m} \cup {LastRow(u) : u \in {UserID(w)} \cap {v \in User : Exists(v)}}
  /\ Go(w, "create_table")
  /\ UNCHANGED <<database, memory>>

\* Mutant: create table if not exists.
CreateTableAnyway(w) ==
  /\ At(w, "create_table")
  /\ \/ /\ tables' = tables \cup {UserID(w)}
        /\ Go(w, "update_path")
        /\ UNCHANGED <<rows, m, memory>>
     \/ Fails(w)

\* The table is named for the user, and stays when the account is closed.
CreateTable(w) ==
  /\ At(w, "create_table")
  /\ \/ /\ UserID(w) \notin tables
        /\ tables' = tables \cup {UserID(w)}
        /\ Go(w, "update_path")
        /\ UNCHANGED <<rows, m, memory>>
     \/ Fails(w)

UpdateDataSetPath(w) ==
  /\ At(w, "update_path")
  /\ \/ /\ rows' = [rows EXCEPT ![UserID(w)] =
                      [i \in 1..Len(@) |-> [@[i] EXCEPT !.u_database = UserID(w)]]]
        /\ Go(w, "delete_var")
        /\ UNCHANGED <<tables, m, memory>>
     \/ Fails(w)

-----------------------------------------------------------------------------
(* decide_userid_modelpath, at the end of a log-on, and                    *)
(* insert_userid_one_dataSet, which has no ptr to clear m at its end.      *)

AfterDataSet(w) ==
  IF Req(w) = "LOGON" THEN Go(w, "delete_var") ELSE worker' = [worker EXCEPT ![w] = Idle]

\* A failed or empty query leaves the table's name empty: the next statement fails.
SelectDataSetPath(w) ==
  /\ At(w, "dataSet_path")
  /\ \/ /\ Exists(UserID(w))
        /\ m' = [m EXCEPT !.u_database = LastRow(UserID(w)).u_database]
        /\ Go(w, "sample_number")
     \/ AfterDataSet(w) /\ UNCHANGED m
  /\ UNCHANGED <<database, memory>>

\* Reads the name from m, clears m, and asks for the number of samples.
SelectSampleNumber(w) ==
  /\ At(w, "sample_number")
  /\ m' = Nothing
  /\ userID_modelpath' \in {userID_modelpath} \cup
       {userID_modelpath \cup {u} : u \in IF Req(w) = "LOGON" /\ m.u_database \in tables
                                            THEN {UserID(w)} ELSE {}}
  /\ AfterDataSet(w)
  /\ UNCHANGED <<database, User_ID>>

-----------------------------------------------------------------------------
(* Close_account_CallBack and Log_out_CallBack *)

\* Mutant: the password is not compared.
QueryUserInfoUnchecked(w) ==
  /\ At(w, "query_user_info")
  /\ Exists(UserID(w)) /\ Go(w, "delete")
  /\ UNCHANGED <<database, m, memory>>

\* This query has a result map of its own.
QueryUserInfo(w) ==
  /\ At(w, "query_user_info")
  /\ \/ /\ Exists(UserID(w))
        /\ IF LastRow(UserID(w)).password = Given(w)
             THEN Go(w, "delete")
             ELSE Respond(w, "delete_var", "CLOSE_RESPOND_PWERROR")
        /\ UNCHANGED <<database, m, memory>>
     \/ QueryError(w)

Delete(w) ==
  /\ At(w, "delete")
  /\ \/ /\ rows' = [rows EXCEPT ![UserID(w)] = << >>]
        /\ Respond(w, "log_off", "CLOSE_RESPOND_SUCCESS")
     \/ /\ Respond(w, "delete_var", "CLOSE_RESPOND_ERROR")
        /\ UNCHANGED rows
  /\ UNCHANGED <<tables, m, memory>>

\* After the answer: change_user_log_on_state, then PersonaLization::clear,
\* whose statement deletes the name's rows once more.
LogOff(w) ==
  /\ At(w, "log_off")
  /\ User_ID' = User_ID \ {UserID(w)}
  /\ Go(w, "delete_user")
  /\ UNCHANGED <<database, m, userID_modelpath>>

DeleteUser(w) ==
  /\ At(w, "delete_user")
  /\ rows' \in {rows, [rows EXCEPT ![UserID(w)] = << >>]}
  /\ Go(w, "erase")
  /\ UNCHANGED <<tables, m, memory>>

\* Mutant: the model's path is kept.
KeepPath(w) ==
  /\ At(w, "erase")
  /\ Go(w, "delete_var")
  /\ UNCHANGED <<database, m, memory>>

ErasePath(w) ==
  /\ At(w, "erase")
  /\ userID_modelpath' = userID_modelpath \ {UserID(w)}
  /\ Go(w, "delete_var")
  /\ UNCHANGED <<database, m, User_ID>>

LogOut(w) ==
  /\ At(w, "log_out")
  /\ User_ID' = User_ID \ {UserID(w)}
  /\ Go(w, "delete_var")
  /\ UNCHANGED <<database, m, userID_modelpath>>

-----------------------------------------------------------------------------
Step(w) ==
  \/ IsExistUser(w) \/ PasswardRightWrong(w) \/ InsertUserID(w) \/ JudgeUser(w)
  \/ CreateTable(w) \/ UpdateDataSetPath(w)
  \/ SelectDataSetPath(w) \/ SelectSampleNumber(w)
  \/ QueryUserInfo(w) \/ Delete(w) \/ LogOff(w) \/ DeleteUser(w) \/ ErasePath(w)
  \/ LogOut(w) \/ DeleteVar(w)

Next ==
  /\ \E w \in Worker : Step(w) \/ \E req \in Requests, u \in User, p \in Password \cup {None} : Request(w, req, u, p)
  /\ UNCHANGED calm

Spec == Init /\ [][Next]_vars

-----------------------------------------------------------------------------
HasDataSet(u) == \E i \in 1..Len(rows[u]) : rows[u][i].u_database # None
Updating(u) == \E w \in Worker : At(w, "update_path") /\ UserID(w) = u
Spent(u) == u \in tables /\ ~HasDataSet(u) /\ ~Updating(u)

Right(w) == Exists(UserID(w)) /\ LastRow(UserID(w)).password = Given(w)
Wrong(w) == Exists(UserID(w)) /\ LastRow(UserID(w)).password # Given(w)
Answers(w, r) == worker[w].reply # r /\ worker[w].reply' = r

(* Type invariant. *)
TypeOK ==
  /\ calm \in BOOLEAN
  /\ rows \in [User -> Seq(Row)] /\ tables \subseteq User
  /\ m \in Result
  /\ User_ID \subseteq User /\ userID_modelpath \subseteq User
  /\ worker \in [Worker -> WorkerType]
  /\ \A w \in Worker : /\ ~At(w, "idle") => UserID(w) \in User
                       /\ At(w, "isExistUser") \/ At(w, "insert_userID") => Given(w) \in Password

(* A user is judged by the account.  Of requests that do not overlap: an   *)
(* account goes only when a close gives its own password, though it is     *)
(* deleted by name, twice, in statements after the one that read the       *)
(* password; and a log-on, which goes through the shared m, is answered by *)
(* the account's row.  Of all requests: a close is refused by the row of   *)
(* its own name, for query_user_info has a map of its own.  (When requests *)
(* overlap the check and the deletions are apart: a close may delete an    *)
(* account signed up in between under the same name.)                      *)
JudgedByAccount ==
  [][/\ calm => \A u \in User : Exists(u) /\ ~Exists(u)' =>
                  \E w \in Worker : Req(w) = "CLOSE_ACCOUNT" /\ UserID(w) = u /\ Right(w)
     /\ \A w \in Worker :
          /\ Answers(w, "CLOSE_RESPOND_PWERROR") => Wrong(w)
          /\ calm /\ Answers(w, "LOGON_RESPOND_PWRIGHT") => Right(w)
          /\ calm /\ Answers(w, "LOGON_RESPOND_PWERROR") => Wrong(w)]_vars

(* Between two requests that do not overlap, a name without an account is  *)
(* not logged on and has no model: closing leaves nothing of it in the     *)
(* maps of user_db_handle and PersonaLization.                             *)
NothingOfTheClosed ==
  calm /\ (\A w \in Worker : At(w, "idle")) =>
    \A u \in User : ~Exists(u) => u \notin User_ID /\ u \notin userID_modelpath

(* delete_user leaves the data set table, and create_table fails where one *)
(* is: once an account that had a data set is gone, no later account of    *)
(* its name gets one, neither the old samples nor a table of its own.      *)
DataSetNotInherited == [][\A u \in User : Spent(u) => Spent(u)']_vars
=============================================================================
