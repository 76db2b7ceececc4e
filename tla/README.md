# Verification of lyserver

lyserver is a C++ server built as a master/slave reactor: a main reactor accepts
connections and serves timers, a sub reactor watches the client sockets, and
both hand their callbacks to a thread pool. On top sit the business callbacks
(login, images, data sets), a MySQL connection pool, an FTP-like file service
and an HTTP server. This directory holds TLA+ models of its components, the TLC
configurations that check them on small instances, and the theorems TLAPS
proves about them for every instance.

Paths below are relative to the repository; `L` stands for `src/lyserver`.

## 1. Inventory

The C++ sources a server is built from are under `L/src`, `L/include`,
`src/other` and `L/streams`; `lib/aip` is a vendored SDK, `*.rl.cc` are generated
by Ragel, `build/` holds build products, and `reactor/reactor_.cpp` is an older
reactor that is no longer built in.

| Component | State it keeps | Operations | Talks to |
|---|---|---|---|
| Thread pool, `L/src/ThreadPool` | task queue with a lock of its own; busy, alive and exit counters and the thread table under `m_lock`; `m_shutdown` under no lock | `addTask`, `worker`, `manager` (every second), destructor | everyone who adds tasks: both reactors, timers |
| Connection pool, `L/src/db/base` | queue of idle connections, their last use | `getConnection`, return by `shared_ptr` deleter, producer thread, recycler thread | MySQL, `Db_handle` |
| Timers, `L/src/timer.cpp` | ordered set of timers, `m_tickled`, `m_previouseTime` under a read-write lock | `addTimer`, `cancel`, `refresh`, `reset`, `getNextTimer`, `listExpiredCb` | `MainReactor::Eventloop`, the self-pipe, thread pool |
| Reactors, `L/src/reactor/reactor.cpp` | ready queues, epoll instances, the one FTP data event | `Eventloop`, `subEventloop`, `handleEvents`, accept handlers, `Connection::recvdata`/`senddata`/`FTP_recvdata`/`handle_fileevent`/`handle_http_event` | all of the above, `Fdmanager`, `EventHandle` |
| Event objects, `My_events.cpp`, `epollmanager.cpp` | per client: socket, callback, interest mask, `m_status`, `epfd`, buffer, timer, ID | `init`, `Myev_set`, `clear`, `eventadd`, `eventdel`, `reset_oneshot` | the kernel's epoll, reactors |
| Descriptor registry, `L/src/fdmanager.cpp` | blocks of event slots indexed by descriptor, number of events per epoll instance, `Id_Fd` | `lookup`, `resize`, `find_epfd`, `add_epfd_event`, `free_client_resources`, `whoID`, `clear_ID_FD` | reactors, `EventHandle` |
| Business callbacks, `L/src/EventHandle.cpp` | table of callbacks, the shared `user_` result map, a static image buffer | `set_client_ID`, `Log_on`, `Sign_up`, `Close_account`, `Log_out`, `notify_u`, images, data sets | registry, database, personalization |
| Framing, `L/src/r_s_Msg.cpp` | none: 4-byte length, then the body, on a nonblocking socket | `sendMsg`, `readMsg`, `writen`, `readen` | sockets |
| FTP, `L/src/FTP/ftp.cpp` | static descriptors, names, sizes and counts shared by all sessions | `parse_`, `server_2_client_ready_file`, `server_2_client_sendFile`, `client_2_server_ready_read`, `client_2_server_recvFile` | the data event of the main reactor |
| HTTP, `L/src/http` | parsers, servlet table under a read-write lock, client connection pool | `handleClient`, `recvRequest`, servlet dispatch, `HttpConnectionPool::getConnection`/`ReleasePtr` | socket streams, reactor |
| Database handlers, `L/src/db/datahandle` | one result map for all worker threads; who is logged on | user queries and updates | connection pool |
| Personalization and random forest, `src/other/RF` | data set tables, models, who uses which model | a table and a model for each account, training | database, EventHandle |
| Path planning, `src/other/Path_Planning` | open and closed lists | `findPath` | - |
| Byte array and streams, `L/src/bytearray.cpp`, `L/streams` | linked blocks, position, size | fixed and varint coding, capacity, file transfer | HTTP |
| Logger, configuration, environment | appenders, loggers, variables under mutexes | log, (re)configure, listeners | everyone |
| Sockets and addresses, signals, daemon, Python wrapper, base64, utilities | thin wrappers of the system's calls | - | everyone |

What is hard about it:

* **Threads.** A task is pushed without the lock the workers test the queue
  under; connections are freed by one worker while the reactor reads their
  fields; the login verdict is kept in a map all workers share.
* **Callbacks.** An expired timer's callback is copied and queued, so it can run
  after `cancel`; a connection's callback is bound to an event slot that may
  have been cleared and given to another client.
* **One-shot events.** Every path through a handler must rearm or free its
  descriptor exactly once.
* **Partial I/O.** Sockets are nonblocking, the framing loses what it has read
  when a message arrives in two pieces.
* **Limits.** Pools grow and shrink, each epoll instance counts its events,
  64-bit delays and file sizes are narrowed to int, 16-bit arithmetic on
  milliseconds decides who is idle.
* **Ownership.** A socket is closed with the last `shared_ptr` to it: a worker
  may still send on a data connection that the server has replaced.
* **Time.** Timers race with the loop that sleeps for the nearest one; the wall
  clock may be set back.

What makes each component right:

* Thread pool: every accepted task is taken once and in order; the counters the
  manager decides on are true; the size stays within its bounds; a queued task
  is served.
* Connection pool: one owner per connection, none lost, the number of open ones
  bounded, surplus connections closed, waiting clients served.
* Timers: a callback is handed out exactly when a timer expires and not after
  it is dead; the loop never oversleeps a timer.
* Connections: while its slot is armed only when it is released, at most one
  worker handles a descriptor; an open descriptor is
  armed or being handled; its event count is the number of descriptors there.
* Registry: an ID belongs to one live connection and goes with it.
* HTTP: a connection goes back to the client's pool only when nothing of its
  last call is left on it; a request is handled at most once; the caller gets
  its own answer or a failure; a worker comes back.
* FTP: success means that the file is stored, a download brings all of it, and
  no open data connection is lost sight of.
* Path planning: the path is a way and no way is shorter.
* Byte array: bytes and integers come back as they were written.
* Accounts: a user is judged by the account's own password; a closed account
  leaves nothing behind that a later one of its name would inherit.

## 2. Modules

A component is a module; the abstract promise it keeps is a second, short one;
`MC...` gives TLC its symmetry sets (and one start state); `...Proofs` holds the
theorems.

| Component | Promise | Model | For TLC | Proofs |
|---|---|---|---|---|
| Thread pool | `TaskExecutor` | `ThreadPool` | `MCThreadPool` | `ThreadPoolProofs` |
| Connection pool | `ResourcePool` | `ConnectionPool` | `MCConnectionPool` | `ConnectionPoolProofs` |
| Timers and main loop | `TimerLife` | `TimerManager` | `MCTimerManager` | `TimerManagerProofs` |
| Connections, event slots, epoll, registry, callbacks (in part) | `OneShot` | `Connection` | `MCConnection` | `ConnectionProofs` |
| HTTP server loop and client pool, composed | `Exchange` | `HttpServer`, `HttpPool` | `MCHttpPool` | `HttpPoolProofs` |
| File transfers | stated as properties | `Ftp` | `MCServices`, `Ftp` itself | `FtpProofs`, `ServicesProofs` |
| Path planning | stated as properties | `AStar` | `MCServices` | `ServicesProofs` |
| Byte array and its socket calls | `FlatBytes` | `ByteArray` | `MCServices` | `ServicesProofs` |
| Variable-length integers | stated as a property | `Varint` | `MCServices` | `ServicesProofs` |
| Accounts: log-on callbacks, their database handler, data sets and models of each account | stated as properties | `Accounts` | `MCServices` | `AccountsProofs`, `ServicesProofs` |

`PROJECT.json` maps every definition to its lines. Operators whose comment
begins with "Faulty variant" or "Mutant" are no part of a specification: each
is a plausible bug that must break one property, to show that the property
depends on the code.

### ThreadPool (`L/src/ThreadPool/ThreadPool.cpp`)

A slot of `m_threadIDs` and its thread are one thing; `pc` says where the thread
is in `worker`. A critical section of `m_lock` is one action, except that the
lock is held from the test of the queue to `pthread_cond_wait` ("toWait"):
`addTask` does not take the lock, so its push and its signal (`Push`, `Notify`)
fall in between. The manager reads the three counts in one step (`ManagerLook`)
and decides on its copies (`snap`) later, which is where the code releases the
lock; the queue size it reads without the lock is read in the same step. The
destructor sets `m_shutdown` under no lock, joins the manager, signals once per
live thread and deletes the queue; nothing is modelled after that.

### ConnectionPool (`L/src/db/base/connectionPool.cpp`)

Everything happens under one mutex, so an operation is one action; waiting for
the condition variables gives the mutex up (`Wait`, `WaitEnds`, `ProducerRests`,
`ProducerWakes`). A client holds one connection at a time, as `Db_handle` does.
Opening a connection may fail. Ages stop at `MaxIdleTime`: no code tells older
ones apart.

### TimerManager (`L/src/timer.cpp`, `MainReactor::Eventloop`)

Times are kept relative to the clock: `left[t]` is `m_next - now`, `ahead` is
`m_previouseTime - now`, `lag` is how old the `now_ms` of `listExpiredCb` is.
`addTimer` reads the clock when it makes the timer and takes the lock later
(`Make`, `Insert`), and wakes the loop through the pipe after it has given the
lock back (`Tickle`). The clock may be set back (`SetBack`), which epoll's
timeout does not notice. Jumps of the clock forward are left out. The distance
of the nearest timer, a `uint64_t`, becomes an `int` on its way to `epoll_wait`
(`Narrow`, with `IntRange` for 2^31 ms): a negative one is a sleep without end
(`Endless`), a small one a short sleep.

### Connection (`L/src/reactor/reactor.cpp`, `My_events.cpp`, `epollmanager.cpp`, `fdmanager.cpp`)

The kernel keeps `armed` (what epoll watches a descriptor for), the sub reactor
`reported` (its event queue), the pool `tasks`, and every thread is at a place
of `acceptconnect`, `recvdata`, `senddata` or `free_client_resources` with that
function's local variables. The steps of one thread between which others can
interfere are the actions: `clear()` is two, because the descriptor is closed in
the middle of it and may be returned by `accept` while the rest of the slot and
the name are still being wiped. What a read brings is decided when it is read:
a message with one of the results a handler can have, a message that is not
JSON, a part of a length, a part of a body, a REQUEST nobody handles, nothing,
the end, an `errno` that `recvdata` lists (`ReadEnd`) or one that it does not
list (`ReadError`).

EPOLLONESHOT protects a slot as long as the handler arms it once, at its end.
Two ways lead out of that, and the variable `astray` remembers the descriptors
that have taken one: `Rearm` with a mask that no message has set, which is then
any mask, and `ReadError`, which arms the slot and reads on. Everything goes on
as in the code after that, with two threads in one slot if need be; a thread
that finds its socket gone follows a null pointer (`FollowNull`), and the
process ends, as it does when the empty function of an unknown REQUEST is
called (`ReadUnknown`, `Terminated`).

### HttpServer and HttpPool (`L/src/http`, `handle_http_event` in `reactor.cpp`)

`HttpServer` is the server's end of a connection: a worker that epoll has given
an event (`Event`) runs `handleClient`, which reads requests and answers them
until a read fails. A request arrives in two parts that the network may
separate (`Arrive`); what `recvRequest` has read when the socket runs dry is
dropped with its buffer (`ReadDry`), and the rest is junk when it comes
(`ReadJunk`). At the end of the stream `recvRequest` returns 0 in a header, for
which `handleClient` has an empty branch and reads again (`ReadEnd`).

`HttpPool` extends it with the client's end: callers run `doRequest` through
`getConnection`, send, `recvResponse` and the deleter `ReleasePtr`, each an
action. A receive ends by its time limit at the latest, whether or not the
answer is still to come. `m_createTime` is never assigned (`http_connection.h:196`
gives it 0) and the clock counts from 1970, so both comparisons with
`m_maxAliveTime` are always false and are left out. `HttpConnection::DoRequest`
without a pool is the same call on a connection of its own that is destroyed
after it.

### Ftp (`L/src/FTP/ftp.cpp`, `filedata_acceptconnect`, `handle_fileevent`)

A client's control messages are handled one at a time; what `parse_` does with
each is an action, except for STOR, which answers before it sets `m_fd`, ALLO,
whose loop sends piece by piece (`SendChunk`), and ABOR and MSG_SUCCESSED, which
free the slot in two steps (`HandleEnd`, `Clear`). The data connection is
accepted in three steps (`Accept`, `SetSlot`, `AddEvent`), and its handler
(`RecvFile`, `ReadEnd`, `DeleteAtEnd`, `ClearAtEnd`) reads whatever the one
`filedata_event`, `slot`, holds by then.

A socket is open while a `shared_ptr` to it is left: in the slot, in the accept
handler (`taken`) or in the copy `parse_` works with (`parser[s].sock`); the
step that gives up the last one closes it (`CloseUnheld`). A client that
replaces another's connection in the slot therefore does not end the sending on
it. Files may fail to open, to take what is written, to be read and to be closed
(`MayFail`, `Written`): what `fwrite` has taken may still be lost, and what it
has not taken is not counted. A size is an int (`IntRange`): an upload with
another one ends the worker, a download is told 0 in its place (`Told`), for a
client takes no bytes for a negative size. `filePos`, where the FILE is read, and
`sendSize`, what has been sent, are apart, so that the seek between them counts
(`SeekTo`). A byte is known by the session that sent it, so a file that holds
another's bytes is seen.

`calm` never changes: a calm behaviour has one client that gives nothing up,
sizes an int can hold and a disk that does not fail; the others have clients
that share the static variables and abort.

### AStar (`src/other/Path_Planning/AStar.cpp`)

A turn of `findPath`'s loop is one action on the two lists (`Expand`, or
`Arrive` where it breaks), for each place in turn, and `Return` compares the
path as `findbestpath`'s map does. The code takes the last of several cheapest
nodes; the model takes any.

### ByteArray and Varint (`L/src/bytearray.cpp`, `L/streams/socket_stream.cpp`)

The nodes are there as they are, with `m_cur`, which is NULL at the end of the
chain. The copying loops of `write`, `read` and the iovec functions run through
the same addresses, `Walk`. A `read` looks at the node of `m_cur` before it knows
whether there is anything to read: of no bytes at the end of the chain it follows
NULL (`readBehindNull`), and the process ends (`crashed`). `Varint` is the zigzag coding with the loops of
`writeUint32/64` and `readUint32/64` for any width.

### Accounts (`L/src/EventHandle.cpp`, `user_db_handle.cpp`, `src/other/RF/personalization.cpp`)

A worker that runs `Log_on_CallBack`, `Sign_up_CallBack`,
`Close_account_CallBack`, `Log_out_CallBack` or `recv_dataset_one` is at a place,
and a statement it sends to MySQL is an action: `rows` is the table of users (a
sequence for each name, since the code relies on the schema for uniqueness and
the schema is not in the repository), `tables` the data set tables by their
owner. Every statement may fail. What a query has left in `m`, the one map of the one `user_`,
is read in a later action (`PasswardRightWrong`, `SelectSampleNumber`), so
another worker's query or `delete_var` can come between; single accesses to the
map, which no lock guards, are taken as atomic. `query_user_info` has a map of its
own. A closing that has compared the password deletes the row (`Delete`), and
after the answer takes the name off the list of those logged on (`LogOff`),
deletes by name again (`DeleteUser`) and erases the model's path (`ErasePath`),
each a step between which other requests come. `User_ID` and `userID_modelpath` are sets: who is logged on, who
has a model. `select count(*)` has one row, and it is the number of rows that
`select_dataSet_sample_number` returns, where `user_db_handle.h:108` promises the
number of samples: it is 1 for every table there is, so the general model is
chosen and nothing is trained or exported. `calm` never changes: in a calm
behaviour a request is taken when no other is being served.

`MCServices` runs these five side by side: they share no state, `which` picks
one, and the others stay where they began. Its state space is the sum of
theirs.

## 3. What the runs check

| Run | Model and bounds | Checked | States |
|---|---|---|---|
| `pool_safety` | `ThreadPool`, 4 slots, minimum 2, 2 tasks, from a full pool | `CountersTrue` `PoolBounds` `TaskOnce` `ExecutorSpec` | 763 648 |
| `pool_liveness` | 2 slots, minimum 1, 3 tasks, one of which never returns | `BusyWorkerDrains` `StarvedPoolGrows` `DtorReturns` | 122 034 |
| `pool_lost_wakeup` | 1 slot, 2 tasks | `EveryTaskTaken` is violated | - |
| `conn_pool` | `ConnectionPool`, 2 clients, 4 connections, m_minsize 1 | `OneOwner` `ProducerAwake` `TotalBound` `OldestFirst` `OwnershipSpec` `RecycleLeavesNoOldSurplus` `ClientServed` | 14 169 |
| `timer_rollover` | `TimerManager`, 1 thread, 2 timers, clock set back by more than `Hour` | `ArmedIffQueued` `LifeSpec` | 691 021 |
| `timer_wakeup` | 2 threads, 2 timers, steady clock, a delay beyond an int | `SleepsNoLonger` `EveryTimerFires` | 645 434 |
| `connections` | `Connection`, 2 clients, 1 descriptor, 3 threads | `OneHolder` `CountIsTrue` `OneShotSpec` | 1 141 490 |
| `connections_served` | 1 client, 1 descriptor, 2 threads | `ClientServed` | 68 911 |
| `two_clients_one_name` | 2 clients, 2 descriptors, 2 threads | `OneClientPerName` is violated | - |
| `http` | `HttpPool`, 2 callers, 3 requests (one that closes), 3 connections, 1 worker | `PooledIsClean` `NoMoreThanCallers` `ExchangeSpec` `EveryCallReturns` `WorkerReturns` | 79 885 |
| `services` | `AStar` on 3x3 cells, at most 3 obstacles, 2 places | `NoShorterWay` `BestIsShortest` | 647 302 in all |
|  | `Ftp`, 2 sessions, 2 transfers of at most 3 bytes (calm: 2, an int) | `CalmUploadsExact` `DownloadExact` `SlotIsServed` `EveryUploadStored` |  |
|  | `ByteArray`, 2 nodes of 2 bytes, calls of at most 3 bytes | `PointerFits` `FlatSpec` |  |
|  | `Varint`, 8 bits in groups of 3 | `IntsComeBack` |  |
|  | `Accounts`, 2 users, 2 passwords, 2 workers | `JudgedByAccount` `NothingOfTheClosed` `DataSetNotInherited` |  |
| `upload_after_abort` | `Ftp`, 1 session, 2 transfers | `SuccessMeansStored` is violated | - |

Why the bounds are enough:

* **Pool.** The manager retires workers only when more than three more are alive
  than busy, so a surplus needs four slots. `pool_safety` starts where the pool
  has already grown to its maximum (`AfterBurst`), a state the pool reaches
  after a burst of three tasks: growing there in every possible way would
  multiply the states without a new case. Growth itself is covered by
  `pool_liveness`, whose pool starts at its minimum. That run has three
  tasks: one can be in a worker, one wait behind it and one that never returns
  stand between them. A task queued behind one that never returns may wait for
  ever if the signals of both are lost, because the worker that returns takes the
  other one; `BusyWorkerDrains` says so with `AheadOf`. A pool that is
  destroyed has been given at most two of the tasks (`OpenSpec`), which
  keeps the run small.
* **Connection pool.** Two clients can hold or wait against each other; four
  identities are more than can be open at once (`TotalBound` is 3), so opening
  never fails for want of an identity (`EnoughConns`); an age of 2 tells new,
  older and expired apart.
* **Timers.** Two timers give an order; two threads race for the front and for
  `m_tickled`; a period of 1 is within the longest sleep of 2, the period of 4 of
  `timer_wakeup` is longer and beyond an int (`IntRange` is 3), so that a
  sleep for it has no end; in `timer_rollover` the longer period is 2. `MaxLag`,
  `MaxHanded` and `MaxLeft` bound how late the loop can be, the queue of callbacks and the clock. After a
  setback, `refresh` can bring a timer forward without waking the loop, which
  therefore oversleeps by at most a sleep: `SleepsNoLonger` is checked with a
  steady clock.
* **Connections.** One descriptor makes every reuse happen; three threads are
  one that wipes the old slot, one in the new connection and one that accepts.
  A client has at most one unread message and a buffer one message: the code
  tells only "none" and "some" apart. Only one epoll instance exists, which
  holds up to `EVENT_SIZE` connections. Once a slot is astray, two threads can
  feed each other for ever: in `connections` only what is under way then goes on
  (`Fades`), which is enough to see the double freeing, the null pointers and
  the other slots; `connections_served` ends there (`OrderlySpec`), for
  `ClientServed` promises nothing afterwards. The theorems have neither bound.

* **HTTP.** Two callers meet in the pool and one of them calls twice, so a
  connection is used again, by the same caller and by the other one, after an
  answer, a time-out and a late answer; three requests need at most three
  connections; one worker makes a lost worker visible; a connection that
  has served all `MaxRequest` requests is closed.
* **FTP.** Two sessions and two transfers are every pair of uploads and
  downloads at once or one after the other. Calm files have up to two bytes, the
  most an int holds here (`IntRange` is 3), and arrive whole or in pieces; the
  others have none, one or three bytes (`Crowd`), the last beyond an int. One
  worker at a time reads the end of a data connection (`ReadEnd`).
* **Path planning.** On 3x3 cells with three obstacles there are detours,
  several cheapest nodes at once and places that cannot be reached. The theorem
  covers every size.
* **Byte array.** Blocks of two bytes and calls of up to three begin and end
  before, at and behind the end of a node and of the chain, which grows once.
  Bytes 0 and 1 tell a byte from its neighbour; `Raw` is what a new block holds.
* **Integers.** Eight bits in groups of three are three groups, the last one cut
  off by the width, as 32 bits in groups of seven are five and 64 are ten.

* **Accounts.** Two workers are one that judges and one that comes between; two
  passwords are right and wrong; the same name signed up, closed and signed up
  again happens without a bound on the number of requests. Requests that overlap
  are about one user (`Busy`); those that do not, about two. The theorems need
  none of these bounds.

Deadlock is checked in the runs of the connection pool, the timers and HTTP
(whose end, when every caller is through, is an action of its own). It is off
where the system really stops: the thread pool, when its destructor has returned;
the connections and the byte array, when the process ends; `services` and the
uploads, whose parts end: a search, two transfers.

Types are not properties of the runs: TLAPS proves them for every module that has
theorems (section 5).

Every property of a passing run has a mutant in `PROJECT.json` under which TLC
finds it violated.

### Fairness

* **Pool.** A thread that can go on does; one that needs `m_lock` gets it in the
  end (strong fairness), for no thread keeps it. No task but those of `Forever`
  runs for ever. Nobody has to call `addTask`, shut down, or wake up by chance.
* **Connection pool.** A query ends, a timed wait ends, a client that has been
  woken and finds a connection again and again takes one in the end, and MySQL
  does not refuse for ever. Nobody has to ask for a connection.
* **Timers.** The loop's thread runs, time passes, and a thread inside
  `addTimer` or `reset` leaves it. The clock's condition is strong because the
  bound `MaxLag` disables it while the loop is between two steps.
* **Connections.** The loops and the threads run. The strong conditions stand
  for queues served in order: the pool's tasks and the kernel's backlog. A peer
  need not do anything. `ClientServed` needs a free thread: `recvdata` reads
  until the socket is empty, so a client that never pauses keeps its thread. The
  run has one client, which comes and goes, and two threads; with one thread and two
  clients the second is not served, and in the code only the growth of the pool
  helps it. Nothing is promised once a slot is astray or the process has ended.

* **HTTP.** A caller goes on: a receive has a time limit. A worker that has begun
  goes on and the network delivers. Nobody has to call. `WorkerReturns` excepts
  the connections the client has closed, see section 4.
* **FTP.** For calm behaviours only: the workers, the main loop and a client that
  is served go on.

## 4. What was found

* **A task can be left in the queue** (`pool_lost_wakeup`). `addTask` signals
  without `m_lock`, so the signal can fall between a worker's test of the queue
  and its wait. `ThreadPool.cpp:230` argues that no lock is needed. The proved
  and checked properties say what remains true: nothing is lost or run twice,
  and a worker that returns from a task drains the queue unless a task that
  never returns is ahead in it.
* **Two clients get the same ID** (`two_clients_one_name`). `whoID` tests under
  the read lock and inserts under the write lock; both clients get it confirmed.
* **An upload is reported stored too early** (`upload_after_abort`). `filerecv`
  outlives an upload that was given up, and the next one is complete that many
  bytes too soon: its file is closed and code 200 sent.

Seen while modelling, without a run of their own:

* **An upload is reported stored although it is not.** What `fclose` returns is
  ignored (`ftp.cpp:543`): when the last buffered bytes do not get to the disk,
  code 200 is sent all the same. With `DiskFails = TRUE` and `MaxJobs = 1` in
  `UploadAfterAbort.cfg` TLC shows it.
* **Two threads in one connection.** For an `errno` it does not list, `recvdata`
  arms the slot in the callback and reads on (`reactor.cpp:493-499`), where
  `epollmanager.h:54` says the events must be set after every callback. Both
  threads may free the slot, and its count.
* **A far timer never fires.** `(int)next_timeout` (`reactor.cpp:773`) is negative
  for a delay of 2^31 to 2^32 ms, and `epoll_wait` blocks without end, unless a
  socket wakes the loop. `EveryTimerFires` excepts this sleep.
* **Reading nothing at the end.** `read` of 0 bytes at the end of the chain (an
  empty string whose length ends a block) looks at `m_cur->size` with `m_cur` NULL
  (`bytearray.cpp:478`).
* **A connection can be watched by nobody.** If the first read brings less than a
  length, or something that is not JSON, `recvdata` rearms the slot with a mask
  it never set (`reactor.cpp:386-387`, `:453`). This is the other way in which a
  slot goes astray; `OneHolder` and `OneShotSpec` ask nothing of it afterwards.
* **An unknown REQUEST ends the process**: its callback is an empty
  `std::function`, and calling it (`reactor.cpp:686-687`) throws what nobody catches.
* **`maxSize` bounds nothing.** It is read from
  `configuration/mysql_configuration.json` and never compared. What does bound
  the open connections is `TotalBound`. The same holds for the HTTP pool's
  `m_maxSize`, where `NoMoreThanCallers` is the bound.
* **A worker is lost with every kept HTTP connection its client closes**:
  `recvRequest` returns 0, `handleClient` has an empty branch for it
  (`http_server.cpp:50-53`) and calls it again. `socket.h:240` says 0 means the
  socket was closed. Without the exception in `WorkerReturns` TLC shows it.
* **A request that pauses is lost**: what `recvRequest` has read when the socket
  runs dry is dropped. `sendResponse`'s result is ignored, so a response that
  does not fit the socket's buffer is cut off.
* **Accounts**: while requests overlap, a log-on may be answered by another user's
  password, for both go through `m` (`user_db_handle.cpp:28`, `:33`), and a closing
  may take an account that was signed up after its password was compared: the
  comparison (`user_db_handle.cpp:59`), the first deletion (`:66`) and the second,
  after the answer (`personalization.cpp:200`), are statements apart, and both
  deletions go by the name. Without `calm` in `JudgedByAccount` TLC shows both.
  A sign-up whose insertion fails gets no answer and returns an integer it never
  set (`EventHandle.cpp:107`, `:113`). The table of a closed account stays and
  `create table` fails where one is, so a name signed up again never gets a data
  set (`DataSetNotInherited` is the good side of it).
* **FTP**: ALLO before the data connection has been accepted is dropped
  (`ftp.cpp:58`); after an errno other than EPIPE (the peer's reset, say)
  `server_2_client_sendFile` tries again for ever (`:478-483`); an empty file is
  never answered, for no byte comes; what `fwrite` has not taken is not counted,
  so such an upload is never complete (`:528-535`); a size beyond an int throws
  in the JSON library and ends the process; bytes that come when no upload is open
  are written to a closed FILE. ABOR or MSG_SUCCESSED before the accept frees an
  empty `filedata_event`, and one between `init` and `eventadd` (`reactor.cpp:256-266`)
  empties it under the accept handler: both follow a null pointer.
* **Path planning**: for a place that cannot be reached `findPath` returns a path
  from the last node it looked at with an endpoint that has no value, and
  `findbestpath` prefers it when it is short. `BestIsShortest` therefore speaks
  of maps on which every place can be reached.
* **Byte array**: `writeToFile` computes the length of its first piece
  wrongly when the position is inside a block and the rest fits one (`:584`);
  `read` with a position starts in the node of `m_cur`, not of that position.

## 5. What is proved

TLAPS checks every theorem below to the last leaf, for all values of the
constants that satisfy the assumptions of the modules. The assumptions are the
named `ASSUME`s of the models; TLC evaluates them in every run.

**Thread pool.** `PoolInv` (types, a worker has a task exactly while it runs
one, the two counts, the bounds) is inductive: the bounds hold because a worker
tests `m_aliveNum > m_minNum` under the lock when it retires, and the manager
creates only up to the maximum under the same lock, though it decided on old
copies. It gives `PoolTypeOK`, `PoolCounters`, `PoolStaysInBounds`. `OnceInv`
adds `TaskOnce` (`PoolTaskOnce`), from which every step maps to a step or a
stutter of `TaskExecutor` (`PoolImplementsExecutor`): at most `Max` run because
`BusyCount` is true.

**Connection pool.** `OwnInv` (types and `OneOwner`) is inductive and carries
the others: `ProducerStaysAwake`, `PoolIsBounded` (the queue is no longer than
`MinSize` when the producer adds, and every other open connection has a client
of its own), `QueueStaysOrdered`, hence `RecyclerFinishes`, and
`PoolImplementsOwnership`.

**Timers.** `PlaceInv` (types, `ArmedIffQueued`, and that at most one thread is
putting a timer into the set for the first time) gives `ArmedTimersAreQueued`
and, step by step, `TimersLiveOnce`. `NoWakeUpIsLost` assumes a clock that is
never set back and proves `WakeInv`, which adds two facts: while the loop sleeps a
set `m_tickled` comes with an event in the pipe or a thread about to write one
(`FlagIsHonest`), and a timer is never further away than its period
(`WithinPeriod`), so that `refresh` only postpones. What the narrowing to an int
does is in `NarrowBounds` and `TimeoutRange`: below 2^31 the sleep is the distance or
the longest sleep, above it is never longer than the distance, or without end;
`SleepsNoLonger` says of the last that some timer's delay is beyond an int.

**Connections.** `HoldInv` is inductive: the types and `Kept`, which adds to
`OneHolder` what makes each handover right. For every descriptor that is not astray:

* `HeldOnce`: an open connection has one holder, a closed one none;
* `Agrees`: what epoll watches or has reported is what `m_events` says, and it is
  one event, so `handleEvents` makes exactly one task of it;

and for every worker:

* `Fresh`: between `init` and `eventadd` nobody sets `m_status` to 1 or changes
  the callback, although a thread that freed the slot's predecessor may still be
  wiping it, so `eventadd` does arm the slot;
* `HasFun`: event and recvfun are set together.

A step of a worker changes only the slot of its own descriptor (`StepTouches`),
so the others keep theirs (`SlotKeeps`), which is why a slot that is astray does
no harm to the rest. To its own slot it does one of five things (`StepKinds`): it
goes on beside it (`Aside`) or within it (`Works`), arms it for epoll (`Arms`),
closes it (`Closes`) or lets it go astray (`Loses`). The handovers from epoll to
the loop, the pool and a thread, and from `accept`, are lemmas of their own
(`EpollWaitKeeps`, `DispatchKeeps`, `StartKeeps`, `AcceptKeeps`). The result is
`ConnectionHasOneHolder`, for any messages and errors; `EventCountIsTrue` follows
from `CountInv` with finite cardinalities, and `ConnectionsTakeTurns` maps every
step to one of `OneShot` or a stutter (`StepTurn`).

**Path planning.** `SearchInv` is inductive: closed nodes have known neighbours
that cost at most a step more (`Relaxed`), no open node has a lower score than a
closed one (`Ordered`), for the estimate changes by at most a step's cost from
cell to cell (`ManhattanIsConsistent`); that the source alone has no estimate
does no harm, because it is closed first (`Started`). When a path is found,
`AtLeast` is a lower bound for the cost of every way, which is `PathIsShortest`,
for any world, obstacles and choice among cheapest nodes.

`BestWayIsShortest` compares what `findbestpath` returns with a definition that
knows no lists: `Within`, the cells a car can get to in so many moves. Two more
invariants carry it. `RouteInv` says that a known node's parent is closed, a
neighbour, and cheaper by one step (`Parents`); that no node costs more steps
than there are closed ones (`FewSteps`), so the way back ends at the source
before `Back` stops looking; and that no cell beside the place is ever closed
(`NotPast`). `BestInv` says what the best path is after the first few places. A
search that arrives returns a way with as many cells as its cost has tens
(`BackIsTrail`), and no smaller ball reaches beside its place (`BallIsBound`, by
`NoShorterWay`); one that runs empty has closed every ball (`AllClosed`), so with
`Reachable` there is none. The inductions on the number of moves are by the least
number of a set (`Induction`), the values of the recursive functions `Within` and
`Back` by `Recursion`, which is proved from it.

**File transfers.** `FtpProofs` is for any number of sessions, aborts and disk
failures. `SlotInv` is inductive: a data connection is open exactly while the
slot, the accept handler or a worker points to it (`OpenAreHeld`), epoll watches
the one in the slot but between the two steps of an accept or a freeing
(`SlotWatched`), and the accept handler has a socket while it is at work
(`AcceptorOK`). It gives `SlotAndLinks`. What one calm client's transfers keep is
`CalmInv`, for sizes that are an int and a disk that does not fail: nobody else does
anything (`OthersRest`), the server serves this client only (`ServesOnly`), what a
download has sent, has under way and has left adds up (`SendingOK`), and where the
client is in its protocol decides what may be under way (`StageOK`: nothing when
it is idle, the request or its answer when it has asked, and when bytes move,
`Uploading` or a download). `CalmUploads` and `CalmDownloads` are read off it.

**Byte array.** `BufferInv` is the types and `PointerFits`, and it is inductive. That a
position in the string is one place in the chain is arithmetic on quotients and
remainders by the block size (`Division`, `DivisionIsUnique`, `DivisionOfSum`); each
call of `ByteArray` maps to the call of `FlatBytes` on the string, with
`OverIsConcat` for the writes that begin inside it and reach beyond its end. `ChainIsFlat` holds for
blocks of any size, strings of any length and any calls up to one that ends the
process (`CrashMoves`).

**Integers.** `IntsAreKept` is about constants only. The provers know no law of
powers, so `Pow2` is a recursive function and what is needed of it is proved
(`Powers`, `PowersMultiply`). After i groups the reader has what i groups can hold
of the number (`ReadDoes`), which one more group extends by its digit
(`OneMoreGroup`), and the groups cover the width (`GroupsCover`), so nothing is shifted out.

**HTTP.** `HttpInv` is inductive for any callers, requests, connections and
workers. Its core is `OneRequest`: a connection is still, or carries exactly one
request, which waits to be read (in one of the ways the network and the reader
can cut it up), is being answered, or has been replied to. A step of the server
takes the request of its connection from one of these to the next (`ServerShape`)
and leaves the others alone. `Handling` ties the shapes to the counters (a request
on a connection has not been handled, one that was replied to has been, once), `Lending`
says who may touch a connection (each has one user or is in the pool, once, connected and
still), and `Calls` what a caller may rely on: what is on its connection is its
own request, and before it sends, nothing is. `Lending` needs the rule of
`recvResponse` that every failure closes the connection: with it follow
`PoolLendsClean` and, mapping each step to one of `Exchange`,
`CallersGetTheirAnswers`. `PoolStaysSmall` counts: a call takes its connection out of
the pool, or has found the pool empty.

**Accounts.** What holds however requests overlap follows from each step by
itself: `StepLeads` says that a worker refuses a closing only by the row of its
name and answers a log-on only by what `m` holds then, and that it gets to
`update_path` only for a name without a table; `StepDataSet`, that nobody else gives
an account its data set. `SpentStaysSpent` and the part of
`UsersJudgedByAccount` about refusals follow. The rest of it and `ClosedLeavesNothing`
need `AccountsInv`: when requests do not overlap, one worker serves, at
`passward_right_wrong` the map `m` is the row of its account, whoever is logging on
has an account, and what a closed account has left is what the worker at
`log_off`, `delete_user` or `erase` is about to remove. From it `StepCloses` has
that the statement which takes an account's row serves a closing that gave its
password. That NULL is none of the answers is an assumption of the two theorems
that tell answers apart.

`AccountsProofs` and `FtpProofs` are about a component by itself. `ServicesProofs`
takes them over to the specification that is checked (`UsersRun`, `FilesRun`,
`PlanRun`): a step of `MCServices` is a step of the component or leaves its variables
alone; `OpenLinkIsServed`, `UploadsAreExact`, `OwnPasswordDecides` and the like are
the results. What `FtpProofs` assumes of the constants (`Sized`) and that `None` is
neither a session nor an answer are assumptions of `MCServices` (`Sizes`,
`NoneIsApart`).

Only model-checked: the nine liveness properties, which rest on fairness and
ENABLED, out of the prover's reach. Every other property of a passing run is a
theorem. What the violation runs refute is, of course, neither.

## 6. What is not modelled

* In `ThreadPool`: two of its reads without a lock (`taskNumber`, `m_shutdown`)
  are atomic; what happens to objects after the destructor has deleted them.
* In `ConnectionPool`: SQL, and the destructor of a singleton that lives as long
  as the process.
* In `TimerManager`: the wall clock set forward (it makes timers fire at once);
  `addConditionTimer`, which nobody calls.
* In `Connection`: the FTP, file-data and HTTP handlers (they have modules of
  their own, in which epoll is taken to report what there is), client timers
  (`client_notactive`, `reactor.cpp:842-855`; never switched on, `Tcpserver.cpp:8`),
  EINTR, a failing EPOLL_CTL_ADD, more than one epoll instance, what is sent to
  whom.
* In `HttpServer` and `HttpPool`: the bytes of requests and responses, chunked
  bodies, `m_maxAliveTime` (never true), TLS.
* In `Ftp`: user names, directory lists, deletion. The data connection's events
  are taken to come when there is something to read, and one worker at a time reads
  its end. A worker that follows a null pointer stops, where the process ends. A
  FILE that has been closed takes nothing.
* In `AStar`: diagonal moves and the other heuristics, which the constructor
  switches off; the places are given.
* In `ByteArray`: fixed-length coding (a `write` or `read` of so many bytes),
  files, byte order.
* In `Accounts`: SQL text and its quoting, the samples and their export to CSV,
  the directories of the models, the training, whatever a torn access to `m` does.
* The rest of the components, for the reasons in `PROJECT.json`.

How much of the source this is: of the 53 717 lines of implementation, some
21 000 are generated by Ragel (`*.rl.cc`) and 10 000 are the vendored
`lib/aip`. Of what remains, a large part is thin wrappers of system calls,
formatting, configuration, numerical code and code that is no longer built.

## 7. Plan

Done, in this order: the thread pool (everything else runs on it), the
connection pool, the timers with the main loop, the connections, HTTP, file
transfers, path planning, the byte array, the accounts. Next:

1. **Registry and buffers**, on top of `Connection`: what holds of `Id_Fd`
   although a descriptor is given away before its name is cleared; that a
   forwarded message is sent, unless its buffer is cleared by the race at
   `reactor.cpp:533`.
2. **More than one epoll instance**: which of them a slot is added to, armed in
   and counted for.
3. **Proofs** about what these two add.
