# rtdbus: formal models, checks and proofs

rtdbus is a real-time database with a service bus. Clients send requests to
*services* by name; a *broker* in the style of the Majordomo protocol queues
each request and gives it to a *worker* process of the service; the most
important worker is the *Digger*, a front end of the real-time database (RTDB),
which also serves clients directly through a thread pool and publishes changed
points to groups of subscribers. Everything that has to survive a call, in the
broker as well as in the RTDB, is a row of an eXtremeDB database.

This directory models that program in TLA+: what is checked with TLC on small
instances, what is proved with TLAPS for all instances, and what is left out.
All paths and line numbers are those of the repository.

## Inventory

| part | code | state it keeps | operations | talks to |
|---|---|---|---|---|
| broker | `mdp/mdp_broker.cpp` | none of its own, all of it in the tables | READY, REPORT, HEARTBEAT, DISCONNECT of workers; requests and `mmi.*` of clients; purge on timeout | workers and clients (ROUTER socket), broker database (calls) |
| broker database | `xdb/impl/xdb_impl_db_broker.cpp` | services, workers, letters and their references | AddService, PushWorker, PopWorker, RemoveWorker, PushRequestToService, GetWaitingLetter, AssignLetterToWorker, ReleaseLetterFromWorker | the broker only |
| worker API | `mdp/mdp_worker_api.cpp` | socket, liveness, time of the next heartbeat | connect, recv, reconnect, heartbeat, destructor | broker; its caller (Digger) |
| Digger main loop | `worker/wdigger.cpp` 1545-1850 | the request in hand | handle_request, handle_asklife | worker API, Digger threads |
| Digger threads | `worker/wdigger.cpp` 60-600, 1000-1480 | thread lists, interrupt flags, time of the last PROBE | start, PROBE, TERMINATE, join; proxying of direct requests | one another (inproc sockets), clients (direct requests) |
| subscription poller | `worker/wdigger.cpp` 690-990, `xdb/impl/xdb_impl_db_rtap.cpp` 2240-3010, `xdb/impl/xdb_impl_sbs_rtap.cpp` | subscription groups, modification flag of each point | create/delete group, list armed groups, read, publish, disarm | RTDB, subscribers (PUB socket) |
| RTDB | `xdb/impl/xdb_impl_db_rtap.cpp` | points and attributes | read, write, VALIDCHANGE event | Digger threads, poller |
| database life cycle | `xdb/impl/xdb_impl_database.cpp`, connections, environments | state of the object, instance in shared memory, two snapshots | loadEnvironment, getConnection, Open, LoadSnapshot, StoreSnapshot, Disconnect | RTDB, broker database, files |
| client API | `mdp/mdp_client_async_api.cpp` | sockets, cache of service endpoints | send, send_direct, recv, ask_service_info, subscribe | broker, Digger proxy, publisher |
| zmsg, messages, metrics | `mdp/mdp_zmsg.cpp`, `msg/`, `tools/` | frames; statistics | wrap, unwrap, (de)serialise, sliding averages | everybody (calls) |

What is hard in it, and what makes each part correct:

* **Order of messages.** A heartbeat, a report and an assignment cross on the
  wire. A REPORT does not name the letter it answers. Correct means: a worker
  has one request at a time, a report releases the letter it is about, and no
  letter is lost or given out twice.
* **Two references that must stay inverse.** `XDBWorker.letter_ref` and
  `XDBLetter.worker_ref` are rewritten by six operations, each of which writes
  only some of the fields and relies on unique indexes to fail when it must.
* **Coming back.** Workers and broker are stopped, killed and started again
  independently; heartbeats are late. A worker that is up has to get (back)
  into service, and a request has to be answered.
* **Read, publish, disarm.** The poller reads modified points group by group,
  in transactions of their own, publishes, and clears the flags in yet another
  one, while other threads write points.
* **Threads that must all end.** PROBE and TERMINATE are published to threads
  that may not listen yet, or no more.
* **Content that outlives processes.** The instance in shared memory outlives
  a crash, the snapshots outlive the machine, and each is written and read by
  code that decides step by step what to trust.
* **Late replies.** A client that gave up on a reply finds it in the socket
  when it waits for the next one.

`PROJECT.json` lists every hazard at its line, with the properties that cover
it or the reason why none does.

## Modules

| module | models | state and its counterpart |
|---|---|---|
| `Broker` | one turn of `start_brokering()` per action, with all it calls in the broker and in its database | `broker.worker`, `broker.letter`, `broker.service` are the tables XDBWorker, XDBLetter, XDBService; `out` is what the turn sends; `now` is the clock |
| `MCBroker` | instances for TLC | |
| `LetterQueue` | abstract: what the broker promises of a request to those who know nothing of its tables | `letters` are the requests not yet reported, with who holds each; `serves` is the service of each worker; `sent` is what a turn sends |
| `BrokerProofs` | the inductive invariant `BInv` and the theorems, the refinement of `LetterQueue` among them | |
| `Majordomo` | `Broker` (by INSTANCE) composed with worker processes (`mdwrk` under the loop of the Digger) and the connections between them | `proc[w]` is the process: phase, time to the next heartbeat and to the end of the poll, letter in hand; `toBroker[w]`, `toWorker[w]` are the connections |
| `MCMajordomo` | instances for TLC | |
| `MajordomoProofs` | the invariants `TypeInv` and `IInv` and the theorems, on top of `BrokerProofs` (by INSTANCE) | |
| `Subscription` | groups and modification marks, `DiggerPoller`, `handle_sbs_ctrl()`, a client in mode SUBSCRIBE | `version`, `modified`, `group` are the database; `poller` and `client` are locals of threads and processes; `news`, `reply` are sockets; `ghost` is history that no action reads |
| `MCSubscription` | instances for TLC | |
| `SubscriptionProofs` | the inductive invariants `IInv` and, for the clients, `ClientOrder`, `NoneAhead`, `SentIsGot`, and the theorems | |
| `DiggerThreads` | the threads of a Digger process: main, proxy, probe, poller, workers | `main`, `proxy`, `probe`, `poller`, `worker[t]` say where each thread is and, for a worker, what waits in its sockets; `interrupt` holds the flags, `control` the control socket of the proxy; `failed` is the history of exceptions |
| `MCDiggerThreads` | instances for TLC | |
| `DiggerThreadsProofs` | the inductive invariants `IInv` and `PoolInv` and the theorems | |
| `Database` | `DatabaseImpl` in one process after another: load, connect, write, save, leave, with crashes and reboots | `db` has the fields `m_state`, `m_db` (`handle`), `m_snapshot_loaded`, `m_last_error`, and the `instance` in shared memory; `files` are the snapshots; `process` is the program and how far it is; `history` is read by no decision of the code |
| `MCDatabase` | instances for TLC | |
| `DatabaseProofs` | the inductive invariants `TornByMishap`, `KeptInv`, `HandlersInv` and `AbortsInv` and the theorems | |
| `Validity` | the event VALIDCHANGE: what a point shows (VAL, VALID) after any order of its thirteen codes and of writes between them | `point` has the attributes of one point, `sa` is the state of its acquisition system, `kind` how the handler treats its class |
| `MCValidity` | instances for TLC | |
| `PointTables` | which class of points has which attribute, as each function that creates, reads or writes it lists them | operators only |
| `Points` | creation of points, reading and writing of attributes, loading of the dictionaries row by row | `points`, `tables` are the database as it was committed, `load` is the transaction that loads a table, `reply` is the last request with the error that was reported for it; `loaded` is history |
| `MCPoints` | instances for TLC | |
| `PointProofs` | the properties of `Validity` and, from the inductive invariant `Agreement`, those of `Points` | |
| `Requests` | how the DiggerWorkers serve requests and share the last error of the database with the poller | `lastError` is `m_last_error`; `task[a]` is the request of a thread and how far its operation is; `reply[w]` is what was sent; `disturbed` is history |
| `MCRequests` | instances for TLC | |
| `RequestsProofs` | the inductive invariant `IInv` and the theorems | |
| `ClientApi` | the class `mdcli` under a program that makes its calls in any order | `info` is the memory of endpoints, `connected`, `subscribed` are the sockets `m_peer` and the one for updates, `asking` is the question that is waited for; the rest is what the other side has and has sent |
| `MCClientApi` | instances for TLC | |
| `ClientApiProofs` | the inductive invariant `IInv` and the theorems | |

### Broker

The broker is one thread and keeps everything in the tables, so an action is a
whole turn of its loop: take a message (or time out), handle it, purge when the
heartbeat is due. `Ready`, `Report`, `Heartbeat`, `Disconnect`, `Request`,
`Internal` and `Timeout` are those turns. The operations of the database are
operators on the record `broker` named as in the code, and a failing one (a
unique index, a missing row) returns what the code returns.

* Peers are open: any worker may send any command and any client any request at
  any time. What the broker promises here it promises to every peer.
* An `autoid` is given out by eXtremeDB, for workers, letters and services from
  one counter. The record of a service's id is left out, as nothing refers to
  it in a way a property sees.
* A letter that waits holds its own id in `worker_ref`: this is what the code
  does to satisfy the unique index SK_by_worker_id.
* A failed `assert` is a `fault` after which no turn is taken: the process
  ends. That is why deadlock is not checked in the runs of this module.
* `LetterQueue` is implemented by `Broker` under the mapping `Queue`: a letter of
  the queue is a row of XDBLetter without its state and its worker, and its
  holders are the workers whose `letter_ref` names it. Periods, deadlines, the
  states of workers, endpoints and the order of the indexes are not seen by it.
* Order in the index of workers: the code takes the first row a cursor yields;
  the model takes any (`Heads`), the same one until its state changes.

### Majordomo

* An identity is a service name (`ZMQ_IDENTITY` is set to the service), so a
  service has one worker process, unless it is started twice, which libzmq
  refuses one of. The instance has one service; services share nothing but the
  broker's turn.
* A connection is FIFO. `ZMQ_LINGER` is 0: when a worker closes its socket, a
  prefix of what it wrote has been sent and the rest is lost (`Unsent`). When
  the broker stops, a suffix of what was sent to a worker may be left to read.
* `Tick` ages every deadline by one second; no action is urgent. The clocks of
  the code count milliseconds, its own timers seconds, so a heartbeat that is
  due now may or may not be sent now.
* The branch that reconnects when `m_liveness` reaches 0 is in the model
  (`ReconnectOrPoll`), and every poll that times out also sends a HEARTBEAT that
  resets `m_liveness`; see Deviations. In the branch the code sleeps
  `m_reconnect_msec` (`mdp/mdp_worker_api.cpp:380`) before it deletes the old socket,
  where the model does both at once; with HEARTBEAT_LIVENESS of 3 no worker gets
  there (`Lively`).
* A broker that restarts has empty tables (`Cleanup` in the destructor, for a
  normal stop and start). Ids go on counting in the model, so that the
  properties tell an old letter from a new one; no action compares an old with
  a new id.
* Worker stops and broker restarts are not combined in one behaviour. In the
  combination, whether a message of the broker's earlier life survives a
  reconnection decides what the properties say, and that is libzmq's business.

### Subscription

* A transaction of the database is one action; two transactions of one thread
  are two, so that other threads write in between.
* The value of a point is the number of times it was written. `Write` stands
  for `write()` and for the event VALIDCHANGE (`GOFVALTI`): both set
  `is_modified`.
* Groups are created and deleted before the poller starts: only the loader of
  snapshots and tests do it. `createGroup` for a name that exists leaves its
  transaction open; what the next one then does is eXtremeDB's, and it is not
  modelled.
* An unknown tag ends the loop of `createGroup` at an arbitrary place, as the
  tags come from an `unordered_set`, and leaves an item of no point (`orphan`)
  at which a later reading of the group ends.
* A message fails by an exception of libzmq, at most `MaxFailures` times.
  PUB/SUB is FIFO for each subscriber; drops at the high-water mark (100
  messages) are not modelled.
* When a subscription reaches the publisher is up to libzmq (`Attach`).
* ENABLE and SUSPEND are stubs in the code and have no action.

### DiggerThreads

* A thread is its place in its function; one action is what it does up to the
  next point at which another thread can be told apart: a message, a flag, a
  wait, an exception. The pauses of the code (`usleep`) hold nobody else up and
  are left out.
* Time goes by in seconds (`Tick`), since the threads compare `time()` with a
  stored one and `sleep()` for seconds. A thread may be late: by `Lateness` the
  probe, by `MaxBusy` a worker with a request. `Prompt` says that they are not
  later; without it nothing could be said about who gives up first. `age` stops
  counting when it makes no difference any more (`Older`).
* A PUB socket sends to the subscribers it has. For the inproc sockets of the
  workers a subscription is there after `Connect`; for the control socket of
  the proxy, which connects before main binds, it arrives later
  (`ControlHeard`).
* The three TERMINATE of `shutdown_workers()` go to every worker; the first one
  ends it, so they are one step.
* An exception is a kind of its own for each thread and for the start of the
  pool, at most `MaxFailures` of them. `Orphaned` says that one has happened
  after which somebody is not joined: in main, at the start of the pool, in the
  probe before its loop.
* A use of the environment by a thread that was left alone after main has
  deleted it is not executed; the state in which it could happen is what
  `EnvironmentOutlivesThreads` speaks of.
* What a worker does with a request is a time (`busy`) and an end. Requests
  queue at a worker only; one that queues at an ended worker is lost.

### Database

* The build that is modelled: eXtremeDB 5 without its HTTP server and without
  disk storage, so the instance is in named shared memory and outlives the
  process that crashes, not the machine.
* A content is a version: 0 is the empty database, a write makes a new one.
  A file that was opened for writing and not finished is `Torn`.
* `Open`, `LoadSnapshot`, `ConnectToInstance` and the operators they use are
  functions named as in the code, from the database before to the database
  after, given the set of library calls that fail (`open`, `connect`, `load`,
  `import`, `clean`). `LoadEnvironment` and `GetConnection` apply them.
* Two branches of `ConnectToInstance()` are dead and left out: the second
  attempt to read XML, which asks for an error that the success of `Open()` has
  cleared, and the second `Open()`, which wants no instance right after the
  first one.
* The destructor is split where a crash makes a difference: each file is opened
  (`TruncateBin`, `TruncateXml`), written (`SaveBin`, `SaveXml`), and then the
  instance is closed (`Leave`).
* Processes follow each other. `history.latest` is what should be served next;
  `history.excused` says that a call failed, or that the file to be read was
  torn, since the last process began to serve: then nothing is promised.
* `mco_runtime_start()` succeeds, and so does a rollback. The import of XML fails as
  a whole: a transaction that cannot be started (1098-1102) or committed (1114-1132)
  is not told from a file that cannot be read.
* `getDbHandler()` asserts that the handle is not NULL (line 335); a handle that is
  left over from a connection that was closed would pass. `RegisterEvents` takes a
  handle for NULL whenever it is not open, that is, it counts such a use among the
  failed assertions.

### Validity

* One point with its acquisition system. An attribute is written in a
  transaction of its own, VALIDCHANGE too; the handler runs inside the latter,
  so it is one step. A transaction that fails is rolled back and is no step.
* Each code of VALIDCHANGE is an operator from the point before to the point
  after (`AcquiredFault`, `AcquiredValid`, `Forced`, `Inhibit` ...), with the
  branches of `GOFVALTI`. What the code computes and does not write is not
  written in the model: see Deviations.
* The handlers of discrete points and of alarms are stubs that fail; a point of
  another class has none (`kind`).
* What `Validity` shares with `Points` has a name of its own in it (`Signal`,
  `SignalNext`, `signalVars` ...), so that `PointProofs` can extend both.
* `WrittenAttributes` names the attributes that others write in between. The run leaves
  out VALID and VALIDACQ, which belong to the handler: who writes them
  directly gets what he writes.

### Points and PointTables

* `PointTables` has one function from attributes to the classes for each list
  that the code holds by hand: creation (`Takers`), reading (`Readers`), writing
  (`Writers`), and the parts that a class is created with (`Parts`). An
  attribute whose function is a generated stub is in no list: it is reported as
  done, and nothing happens.
* Values are texts: those a Boolean or an enumeration knows, and `odd`, a number
  that an enumeration does not have; what the code stores of it is `Normal`.
* A row of a table is a name and an id, and `Clash` says what is unique in it.
* A table is loaded in one transaction of many steps: it is emptied
  (`BeginLoad`), takes row after row until one fails (`InsertRow`), and is
  committed or rolled back (`EndLoad`). The transaction works on a copy
  (`load.content`), as the transaction manager that the Linux build is linked
  with (MVCC) does. A row that fails leaves nothing in it. No other request comes
  in between: the loader of snapshots loads one table after the other and then
  creates the points, in one thread.
* Which transactions fail is the library's: any beginning and any commit of a
  load may, whatever the rows were.
* A failed assertion ends the process (`Running`). `WriteMistyped` is a write with
  a value of another type than the attribute has: the writers of Booleans assert
  the type (5901, 5961), and those of SHORTLABEL, UNITY, L_SA and PREV_DISPATCHER
  the pointer to the text (3936, 4027, 4126, 4513), which a message has for the
  types of texts only (`msg/msg_sinf.cpp:101-203`). Numbers of another type, and texts of
  another size, are in Deviations.
* The commit is the library's and may fail where the model says so.

### Requests

* An operation of the database is four steps, at which other threads can be told
  apart: it sets the last error (`Begin`), does its transaction (`Transact`),
  clears the error (`Clear`), and the connection copies what it finds
  (`Return`). No outcome is ruled out: what a request does to a point is the
  business of the other modules.
* `m_last_error` is written by threads that hold no lock on it. An `int` is read
  and written at once on the machines the program is built for, so that a
  reader sees a value that somebody wrote; the model does not tear it.
* The quality of an item is the client's own until `todo.flush()` puts that of
  `read()` there, which is ATTR_NOT_FOUND from its beginning and ATTR_OK after
  its commit; the flush asks the last error that the connection has copied.
* `task[a].outcome`, `item`, `failed` and the field `was` of an item are history:
  what really happened, next to what is seen. `was` is "skipped" for an attribute
  that `read()` has no function for: it is committed like one that was read.

### ClientApi

* The broker, the services and the publisher are what a client sees of them:
  they answer in order, late, or never. What they do inside is in `Broker`,
  `Majordomo` and `Subscription`.
* A program calls `mdcli` from one thread; `ask_service_info()` waits, and the
  time it gives up at is any time nothing has come.
* An endpoint is a service and the number of times it has moved. A DEALER socket
  that is connected to several endpoints sends to any of them.
* `owed` says that, when the question was asked, something else could still come
  by the sockets that `recv()` looks at.

## Runs

| run | what it asks | answer | bound |
|---|---|---|---|
| `broker` | do the tables stay consistent, is a letter sent once and removed only by a REPORT, whatever peers do; is the broker a `LetterQueue`? | yes | 2 workers that register for either of 2 services and one reserved identity, ids up to 4, 3 seconds |
| `majordomo` | one request at a time, known holder, right letter released, with a worker stopped or killed, or the broker restarted; is the broker still a `LetterQueue`? | yes | 1 worker, ids up to 4, 2 messages per connection, 2 stops, 2 restarts |
| `majordomo_live` | is a worker that is up always in service again, and each letter answered? | yes, when nobody stops and requests are supported | as above, no stops |
| `subscription` | which updates can be lost? | only the two kinds in `Excuses` | 2 points, 2 groups whose names begin alike, 1 unknown tag, 1 client, 2 + 1 writes, 1 failure |
| `subscription_live` | is every mark cleared, every update received? | yes, apart from `Excuses` | 1 point in 2 groups, 2 writes, 1 failure |
| `digger` | does every thread end when the process is told to, or when the proxy fails; do workers give up only when they must; does the environment outlive the threads? | yes, apart from `Orphaned` | 2 workers, a period of 2 seconds, 1 second late at most, requests of 1 second, 1 exception of any kind |
| `database` | is what is served what was left; is a snapshot whole; are handlers there; who can fail the assertions? | as `Kept`, `OneSnapshotWhole`, `HandlersRegistered` and `AbortsOnFailureOnly` say | the Digger, the snapshot tool and a program with contradictory options; 3 versions, 3 mishaps |
| `validity` | can a fault be shown as VALID, is a forced or inhibited value overwritten, does an inhibition end too early? | no | one point, 2 values, six ways it can be created, every code at any time |
| `points` | do the lists of who creates, reads and writes agree; what is left of a table whose load fails at any step; what ends the process? | as the properties say, with their exceptions | a point of every class with all attributes it takes, or with those it does not; an acquisition system; units loaded, loaded again, loaded with a clash; 1 write reported as done |
| `requests` | is an operation's own result returned; is anything sent as good whose reading failed, or the other way round; does a reply tell of the last item? | no item whose reading failed is sent as good, ever; the rest for who is not disturbed | 2 workers, the poller, 2 items to a request |
| `requests_reported` | does a write reply of success mean that all items were written? | no | as `requests` |
| `client` | when is a wrong endpoint remembered, when does the assertion fail, when does a direct message go astray? | in the cases the properties name only | 2 services, 5 calls that send, 1 move, 2 updates |

The type invariants of `Broker`, `Majordomo`, `Subscription`, `DiggerThreads`,
`Database`, `Requests` and `Validity` are theorems (`TypeCorrect` of each, `SignalTypesKept`
of the last) and are not checked again by a run, nor are two consequences of the inductive invariant of `Broker`,
`OneLetterPerWorker` and `ReleasedLetterIsOfService`; the runs of the other modules
check theirs.

Why the bounds are enough. In `broker`, ids up to 4 let two workers and two
letters, or one worker and three letters, meet: a letter of another service, a
busy worker re-armed by a late heartbeat and a free one next to it, a second
letter for a worker that holds one. Three seconds let a worker expire and come
back. In `majordomo` two stops allow a worker to come back and to be refused
and stopped again; two messages per connection let a heartbeat be overtaken by
an assignment. In `subscription` the point written twice can be rewritten while
its first value is on its way; the other one tells the groups apart. The proofs
below remove the bounds for every safety property of the runs. In `digger` the times are
at the edge: `ProbePeriod + Lateness + MaxBusy` is twice the period, so that a
PROBE is read in the last second a worker waits for it. Two workers are enough
for one to be in a request, or to have failed, while the other obeys; two
exceptions give the same answers in a run of some minutes. In `database` three
mishaps are one more than what tears both snapshots, and three versions tell
the content of the two files from that in memory. In `validity` two
values tell the acquired one from the one that was entered, and nothing counts:
the run visits all there is. In `points` the lists do not depend on how many
points there are; one write is enough since a property compares it with the
reading right after it. In `requests` two items tell the last one from the one
before, and three actors let one leave its error to an undisturbed pair. In
`client` five calls are a question that is given up, another one, two direct
messages and one by way of the broker.

Deadlock is checked in the `majordomo`, `validity` and `requests` runs. The calls
of a client are bounded and an assertion ends it, and so it does a database that
`points` aborts, so these two do not check it. A broker that fails an assertion
has really stopped, and in `Subscription` the bounded writes and clients come
to an end, and a Digger that was told to end does, so their runs do not check
it. A machine on which `Database` runs can always start a program, so there it
is checked.

### Fairness

`majordomo_live`: weak fairness of `Worker(w)` and of `WorkerMsg(w)` for each
worker, and of `Tick`. A worker's loop runs as long as the process does, the
ROUTER socket takes messages from its peers in turn, and time passes. Nobody is
obliged to start, to stop or to ask. Letters are bounded by `MaxAutoid`, so
nothing is said about starvation by an unbounded stream of requests.

`subscription_live`: weak fairness of `PollerStep` (an endless loop), and for
each client of the thread that serves it and of its own loop. Nobody is
obliged to write or to subscribe.

`digger`: weak fairness of the steps of each thread, as the scheduler runs every
thread that can run; of the arrival of a subscription; and time goes by as long
as somebody waits for it, that is, no second holds infinitely many requests.
Nobody has to send a signal or a request, and no exception has to happen.

## Deviations

What the code does and one of its comments, assertions or tests says otherwise,
or nobody will have meant. The first is a run with a counterexample; TLC found
counterexamples of the next six too, in runs that have made room for other
components; the rest were met on the way.

1. A write request is answered with success although one of its items failed:
   `handle_write()` resets what it calls the accumulating code
   (`worker/wdigger.cpp:608`) at each item that was written (line 614)
   (`requests_reported`).
2. A worker started a second time never gets into service: READY of a known
   identity is answered with DISCONNECT (`mdp/mdp_broker.cpp:457`), on which the
   worker sends READY. The row is only marked DISARMED, never removed
   (`xdb/impl/xdb_impl_db_broker.cpp:702`).
3. A worker older than the broker is never registered: its heartbeats are
   logged only (`mdp/mdp_broker.cpp:569`), and `m_liveness`, which should make it
   reconnect, is reset by the heartbeats it sends
   (`mdp/mdp_worker_api.cpp:387`, `417`).
4. A mark may be cleared for a value that was not published
   (`worker/wdigger.cpp:956`; line 930 speaks of the points successfully
   transmitted).
5. A Digger that gets a signal before its proxy has subscribed to the control
   socket never ends: TERMINATE is published to nobody and main joins the proxy
   (`worker/wdigger.cpp:1626`).
6. A binary snapshot that is torn keeps the XML one from being read: an empty
   database is served, and saved over both when the process ends
   (`xdb/impl/xdb_impl_database.cpp:960-966`, the order of sources is promised in
   `xdb/impl/xdb_impl_db_rtap.cpp:1730-1732`).
7. Forcing a valid point shows the value of the operator as VALID: its validity
   is computed at `xdb/impl/xdb_impl_db_rtap.cpp:989` and never written, although
   `xdb/impl/dat/rtap_db.mco:136` calls the one for it MANUAL.

Broker and worker API:

8. DISCONNECT of a worker that the broker does not know fails the assertion of
   `release()` (`mdp/mdp_broker.cpp:418`) and aborts the broker, while the lines
   below it expect this after a restart (fault `release_null` of `Broker`).
9. A letter may wait next to a free worker, since the loop of
   `service_dispatch` ends after one pass (`mdp/mdp_broker.cpp:264-294`).
10. `purge_workers` looks at one worker of each service
   (`mdp/mdp_broker.cpp:165-199`), so a second late worker may be sent a
   request; the comment at line 259 says the list is cleared of zombies.
11. `mmi.service` answers 200 with the endpoint of a service whose workers are
   all disarmed; the comment at `mdp/mdp_broker.cpp:329` asks for active ones.
12. `handle_request()` (`worker/wdigger.cpp:1755`) answers nothing to a request
    of an unsupported type or an invalid one, and the broker gives its worker
    nothing more. `majordomo_live` therefore has supported requests only.

Subscriptions:

13. Updates may come before the initial values, which then overwrite them on the
    client's screen: the SUB socket is open before the client asks, and `recv()`
    takes from it first (`mdp/mdp_client_async_api.cpp:480`), while
    `worker/wdigger.cpp:670` tells the two stages apart by the first message.
14. An update taken for the broker's answer aborts the client: the SUB socket is
    open while `ask_service_info()` waits, and it asserts what it receives
    (`mdp/mdp_client_async_api.cpp:231`; action `Abort` of `Subscription`).
15. `createGroup` reports success for a group loaded in part.
16. The subscription filter is a prefix, so a group gets the updates of another
    whose name begins with its own.

Digger threads:

17. A worker thread looks for a command once before it serves a request and
    compares the age of the last PROBE after it (`worker/wdigger.cpp:279-334`).
    A request longer than `ProbePeriod - Lateness` seconds makes it give up
    although PROBE waits in its socket: `PoolStaysWhole` is violated with
    `MaxBusy = 2` in `DiggerThreads.cfg`. Nobody replaces the thread.
18. `run()` clears `interrupt_worker` (`worker/wdigger.cpp:1547`), so a signal
    between the constructor and `run()` is forgotten.
19. After an exception in main, at the start of the pool or in the probe, the
    remaining threads are not joined (`Orphaned`). Main deletes the environment
    they use, then aborts the process on its joinable thread or waits for their
    sockets; workers give up after two periods (`OrphansEnd`), the poller never
    does.

Database (lines of `xdb/impl/xdb_impl_database.cpp` unless named):

20. A process that restored the content from XML registers no handlers of
    events: LoadSnapshot() has connected already, so getConnection() does not
    call Connect(), and no VALIDCHANGE marks a point (`history.fromXML` in
    `HandlersRegistered`; `xdb/rtap/xdb_rtap_environment.cpp:51-65`).
21. An XML file that cannot be imported is rolled back, and the result of the
    rollback is returned (1118-1133): an empty database counts as loaded.
22. Without any snapshot a program with OF_CREATE gets no connection
    (DISCONNECTED, line 1033; `worker/wdigger.cpp:1495` says "create if there
    was no database before"). The empty instance stays in memory, and the next
    start serves it.
23. A crash during the import of XML leaves an empty instance that the next
    process takes as it is (`CrashInImport`).
24. A failed `mco_db_connect()` or `mco_db_open_dev()` aborts a program that
    registers events, on the assertion of `getDbHandler()` (`aborted`).
25. A binary snapshot that cannot be opened for writing leaves the older one,
    which is preferred to the newer XML.
26. A process that is ATTACHED leaves without saving what was in memory, and one
    that is DISCONNECTED does not close the instance.
27. The snapshot tool truncates: on an instance that a crash left behind it
    empties what was not saved.
28. `RtEnvironment::LoadSnapshot()` returns the error of the environment, not of
    the database (`xdb/rtap/xdb_rtap_environment.cpp:95-98`), so
    `loadEnvironment()` always logs that the content was loaded.

Validity (lines of `xdb/impl/xdb_impl_db_rtap.cpp` unless named):

29. INHIB on a point that is VALID or in FAULT computes the validity and does not
    write it either: an inhibited point is shown as before.
30. INHIB_GBL and END_INHIB_GBL do what `test/ce_unittest.cpp:857-858` and
    `1058-1062` expect of the other one.
31. VALIDCHANGE of 0 (FAULT) is stored as NULL, so a fault of the acquisition
    never reaches the handler through a write; `test/database_unittest.cpp:666`
    writes one.
32. A point without an instrument (NO_INSTRUM) that is acquired becomes VALID and
    keeps VALIDACQ of NO_INSTRUM.
33. END_INHIB shows the acquired value even while another inhibition remains.
34. INHIBLOCAL that FORCED set on a VALID point is not reset by END_FORCED as long
    as the point is VALID.
35. Nothing writes the state of an acquisition system; the handlers of discrete
    points and alarms return NOTFOUND.

Points:

36. Most functions that read or write are generated stubs: an attribute that is
    not known or not served is reported as read, with good quality (1806-1826), or
    as written.
37. VALACQ and VALMANUAL of TR and ICM can be read and written, and refuse the
    point at its creation. DISPP of DIPL is created and never read; FUNCTION is
    never written; DATEHOURM is created with seconds only, never read, and a
    write of it fails or is lost; L_SA is ignored at creation.
38. A value for a PIPE fails an assertion at creation (432-465) and ends the
    process.
39. VAL of INVT is reported as read with no type. Writes of DISPP and
    PREV_SHIFT_TIME are acknowledged by stubs.
40. A failed commit of `create()` is logged and reported as done; the results of
    `createPassport()` and of the references are overwritten.
41. A row that fails leaves the loop over a table and not the transaction, and
    its error is overwritten by the result of the commit: the rows before it are
    committed and the table is reported as loaded (3037-3214). A transaction
    that could not be started is rolled back by a handle that was never set.
42. A point keeps the id of its unit: after the dictionary was loaded anew it
    shows another one, or fails.
43. A point without tag, or a creation without connection, deletes a pointer
    that was never set (2078-2094).
44. A client that states another type than a Boolean has, or no type of a text for
    SHORTLABEL, UNITY, L_SA or PREV_DISPATCHER, ends the process by an assertion
    (`WriteMistyped`); the one on the type of a text (3937, 4028, 4127, 4514)
    assigns where it should compare. A number of another type is stored as it
    lies in memory, and a text of another size is copied with the size of the
    attribute (3939) when written, and given a new buffer or not by what the
    client stated when read (3481-3522): what happens then is not modelled.

Requests (lines of `worker/wdigger.cpp` unless named):

45. The last error is one for all threads (`xdb/impl/xdb_impl_database.cpp:1429`):
    a request that another thread disturbs may report an error that is not its
    own, or none.
46. The codes of several errors are ORed: POINT_NOT_FOUND and ATTR_NOT_FOUND
    together read as codes of other errors (606-635).
47. `handle_sbs_ctrl()` sends nothing when it fails; with a disturbed error it
    may send a group that was read in part. A point of the group that cannot be
    read ends the reading of the others, and the group is reported as read
    (`xdb/impl/xdb_impl_db_rtap.cpp:1905-1935`). A request of an unsupported type
    is not answered.
48. When the poller sees an error after it has read a group, the points it
    gathered stay in the list and are published with the next group (917-940).
49. The initial values of a group are sent with the quality ATTR_ERROR, which
    `ReadMulti::add` sets for all that is asked for.

Client API (lines of `mdp/mdp_client_async_api.cpp` unless named):

50. An answer that comes after the client gave up is taken for the answer of the
    next question, and the endpoint it has is remembered for the wrong service;
    a change is logged only (192, 252-264). Any other message fails the assertion
    at 231.
51. Direct messages go to the services that `m_peer` is connected to in turn,
    whatever service they are for (512-585).
52. Timeouts of 1000000 ms are commented as one second.
53. `client/pulsar.cpp:267-280` writes one place past its list, and its last loop
    compares with what was received instead of what was sent.

## Proofs

All proofs are for arbitrary sets of services, workers, clients, points and
groups, under the ASSUMEs of the modules: the distinguished values differ from
the members of the sets, and the bounds are numbers. They assume of eXtremeDB
and libzmq what the models do.

`BrokerProofs` proves `Spec => []BInv` and from it the theorems `TypeCorrect`,
`CrossReferencesHold`, `OneLetter`, `NoPlaceholder` and `AssertionHolds`. `BInv`
is the type invariant with: registered workers have a service in the table; no
two rows share an id; a waiting letter refers to itself; an assigned letter has
one holder, of its service, that refers back; the letter a worker refers to
refers back; an occupied worker has a letter. Cross references alone are not
inductive: what makes them so is that ids are distinct over *both* tables
together with the placeholder of waiting letters. Only from those does it follow
that the unique index refuses exactly the second letter of a worker, and that a
REPORT finds by `worker_ref` the worker's own letter and never a waiting one.
There is a lemma for each database operation, one for each handler built of
them, and one step for each action.

`BrokerProofs` also proves the two action properties `SentOnce`
(`RequestSentOnce`) and `LeavesByReport` (`LetterLeavesByReport`), which follow
from `BInv` and from what each operation does to a letter: `Dispatched` says it
of the loop that gives letters to workers, `Prepared` of what a turn does before
it dispatches, and `Outcome` of both together.

`Implements` (`Spec => KeepsPromises`) is the refinement of `LetterQueue`. It
says what no property of a step says by itself: that a request is given to a
worker of its service which holds no other, with the client and the body it came
with; that each letter which gets a holder is sent and each one sent gets its
holder; that a worker never changes its service; and that READY of a known
identity, HEARTBEAT, DISCONNECT, the deadlines and the purges do to the queue
nothing but give letters. The argument has three parts. What a turn does between
its message and its end, dispatching and purging in any number and order, is
`Deals`, which is transitive (`DealsTwice`). Each handler reaches, before it
deals, a record whose queue is what its message asks for (`Arrives`): one lemma
for each handler and outcome. `GiveHolds` then turns `Deals` into the action
`Give` of the queue. It needs `BInv`, since only there has a letter that is
assigned one holder and one that waits none (`HoldersOf`). `LetterQueue` promises
no progress: that a letter is given at all is `EveryLetterAnswered`, which TLC
checks.

`MajordomoProofs` proves `TypeCorrect`, `ImplementsOverRestarts`, `OneRequest`,
`WorkAssigned` and `ReportReleases`, for any number of workers, messages under
way, stops of workers and restarts of the broker. It takes what a turn does to the tables from
`BrokerProofs`, by INSTANCE, and adds the connections. The invariant has two
levels. `TypeInv` holds by itself: which commands a queue carries, that a process
has a letter in hand exactly when it is busy, that the tables keep `BInv`. `IInv`
says why a worker never has two requests: what is under way between the broker
and the worker that holds a letter, in either direction or in the process, is
one request or one report, and a READY or a DISCONNECT is not under way together
with it. That last part is what a worker can break that reconnects by itself, as
its new READY overtakes a report that is not sent. `Lively` excludes it: a poll
that times out costs one of `HEARTBEAT_LIVENESS` and the HEARTBEAT that is sent
then gives it back. This takes `HeartbeatLiveness > 2`, which is the hypothesis of
the last three theorems. The code has 3 (`src/cmake/CMakeLists.txt:197`), and
the instances do; with 2 TLC finds a counterexample. The other two theorems do
not need it.

`ImplementsOverRestarts` (`Spec => PromisesOverRestarts`) carries the refinement of
`LetterQueue` over to the composed system. With `TypeInv`, a turn under the
workers is a turn that `BrokerProofs` knows, of a peer that sends what the worker
has sent (`TurnOfBroker`), so that `QueueStep` of that module applies; what workers
do by themselves and the passing of time leave the queue alone (`QueueRests`),
although time changes rows of the tables; and a restart is the step `Forget` of
the queue (`RestartForgets`), the only one that is no step of `Next`. No
hypothesis is needed on when a worker reconnects: whatever it sends then, a
letter has one worker, and leaves by its report.

`ClientApiProofs` proves `TypeCorrect`, `EndpointRight`, `AbortOwed` and
`DirectReaches`, for any services and any bounds. `KnowInv`: while no question
was given up, the only question or answer under way is the one that is waited
for, so that the endpoint it brings is of the service that was asked about.
`OwedInv`: while the client waits, nothing is owed to it that was not owed when
it asked. `StrayInv`: a direct message can go astray only where two sessions are
open or a question was given up.

`SubscriptionProofs` proves `TypeCorrect` and `NoUpdateForgotten`, that is,
`Spec => []SentOrMarked`. `SentOrMarked` speaks of the moment after the marks
are cleared; the inductive invariant `IInv` says what a round must have
established before: `RoundShape` (the locals agree with the phase),
`BundleIsArmed` (what was read for a group was marked), `RoundCovers` (every
marked point not written during the round belongs to a group that is still to
come, was published, or failed), `ReadyWasSent` (a point ready to be cleared was
published to one of its groups), `MarkedBeforeStart` and `GroupsCreated`.

`NothingMissed` (`Spec => []NothingElseMissed`) adds the clients. `ClientOrder`
is the order in which a client subscribes, asks and is answered. `SentIsGot`
says that a value that is the last of its point and was published to a group
after the group was read for a client, or read for it, is under way to the
client or is the newest it has, and is not followed by an older one; for that
nothing that is stored or under way may be newer than the point (`NoneAhead`).
`SentOrMarked` then does the rest.

`DiggerThreadsProofs` proves `TypeCorrect` and `EnvironmentHeld`, that is,
`Spec => []EnvironmentOutlivesThreads`, for any number of workers, any times and
any exceptions. What main knows when it deletes the environment it knows through
others: it has joined the proxy, which has joined the probe, which has joined
poller and workers. `JoinChain` has one implication for each link, `StartOrder`
says that the first link cannot be empty by accident: a probe that was never
started means threads that were never started. Time plays no part in it.

`PoolWhole` is about time: `Timely => (Spec => []PoolStaysWhole)`, where `Timely`
is `Lateness + MaxBusy <= ProbePeriod`. The code's period is 7 s
(`worker/wdigger.hpp:27`); nothing in it bounds a request, and a longer one does
break the property (Deviations, 17). `PoolInv` bounds the age of a worker's last
PROBE by what the probe thread has still to sleep and by what the worker has
still to do (`Awaits`): a worker that waits without a PROBE in its socket is
younger than what is left of the period, and one that has looked for commands
before a long request is younger than two periods at its end. `ProbeInTime` says
how late the probe thread can be, `Watched` puts it together for as long as nobody
was told to stop.

`DatabaseProofs` proves `TypeCorrect`, `SnapshotsWhole` and `ContentKept`, for
any set of programs, any number of writes and mishaps. `OneSnapshotWhole` needs
`TornByMishap`: one torn file has cost one mishap already, unless it is being
written. `Kept` speaks of a process that serves; `KeptInv` says for the other
phases where the latest content is while nothing excuses a loss: in the
instance, if there is one; else in the file that would be read; and, once a
connected process has saved, also in the binary file, so that closing the
instance loses nothing. It also says what a request for a snapshot may leave to
`getConnection()` (`Unopened`), since a program with contradictory options asks
for one and then truncates it. The lemmas `OpenKeeps`, `ConnectKeeps`,
`ConnectWithoutLoad`, `LoadsWhatIsPromised` and `LoadLeavesUnopened` follow the
operators of `DatabaseImpl` through their branches.

`HandlersThere` (`HandlersRegistered`) and `AbortsNamed` (`AbortsOnFailureOnly`)
are proved by invariants of their own. `HandlersInv` says that a database that
LoadSnapshot() connected was restored from XML; `ConnectWatches` that every
other connection that does not abort has registered the handlers. `AbortsInv`
says what LoadSnapshot() leaves while no call has failed (`Sound`): a database
that is connected or disconnected, which is not connected again, or one without
a handle and, if a snapshot is still wanted, with a binary file or an instance.
So the second LoadSnapshot(), in Open(), does not open a database from XML only to
lose it, and `ConnectSound` finds the handle open where it is asserted.

`RequestsProofs` proves `TypeCorrect`, `OwnResult`, `ReadTold` and `LastIsTold`, for any number of workers and of items. `OwnResultWhenAlone` speaks
of the moment the result is copied; `IInv` says what holds before: the last error
is the one an undisturbed operation began with (`OwnErrorSoFar`), since two that
are inside together are both disturbed (`TogetherDisturbed`); operations are
those of their requests (`InOrder`), and between two items the status of a write
tells of the last one (`StatusTellsLast`). `ReadIsTold` has two halves. That no
item is sent as good whose reading failed holds whatever the others do to the
error, since the quality that `read()` leaves is not shared (`ItemsKnown`): another
thread that clears the error only lets ATTR_NOT_FOUND through. That every other item
is sent as good needs the undisturbed error as well.

`PointProofs` proves of `Validity` the theorems `SignalTypesKept`, `FaultNotShown`
and, of the steps, `ShownAsAcquired`, `HeldAsShown` and `LiftedAlone`. Each rests
on a lemma about `GOFVALTI` for any point, any state of the acquisition system and
any code, by groups of codes; `ChangedPoint` ties a write of VALIDCHANGE to it.
The three about steps hold whoever writes the other attributes. `FaultNotShown`
assumes that VALID and VALIDACQ are left to the handler, as the run does: with
another writer of them it is false.

It proves of `Points` the theorems `PointsTypeCorrect`, `HeldIsGiven`,
`KnownAborts`, `WritesAreShown` and `TablesOfOneLoad`, for any tags, any
files, any attributes that are written and any dictionaries. Three lemmas compare
the lists of `PointTables` with one another, attribute by attribute and class by
class: `CreatedIsRead` (a class that an attribute can be created for can read it,
and has the part it is in), `WrittenIsRead` and `OnlyPipesAssert`. They take the
lists apart with `GatheredList`: no attribute is in two of them. That a point
agrees with the lists is an invariant only because no request changes its class:
`Agreement` is the type invariant with what `ReadBack` says of each point, that
the reading functions know its class for every attribute it holds but DISPP, and
find its part. It also says what a transaction that loads a table holds
(`LoadKept`): the rows it has been through, no two of which clash, and no reply.
From that a committed table is the beginning of what was reported as loaded, and a
unit that was written is found again under its name, which `WritesAreShown` needs
for UNITY (`UnitIsShown`). What is assumed of the constants is that files and dictionaries
hold texts, and that VALIDCHANGE, which `Validity` is about, is not written.

The inductive invariants of `Broker`, `Majordomo`, `Subscription`,
`DiggerThreads`, `Requests`, `ClientApi` and `Points` were checked with TLC on the
instances above before they were proved.

Model-checked only: all liveness, that is, `EventuallyInService`,
`EveryLetterAnswered`, `MarksAreCleared`, `UpdatesAreDelivered`, `EndsWhenTold`,
`EndsTogether` and `OrphansEnd` (TLAPS does not reason about fairness and
ENABLED). What has to be shown by induction over a number or a sequence is proved
by a least counterexample (`LeastNatural`), as the induction rules of the library
take an operator as a parameter.

## Not modelled

* A worker that dies with a letter in hand keeps it assigned for ever: the code
  says so in a TODO (`mdp/mdp_broker.cpp:158-163`) and so does the model. What
  happens to the client is left to its timeout.
* The memory of the databases and its exhaustion, their transaction conflicts
  and recovery.
* `msg/`: typed wrappers of protobuf messages, used by one thread at a time. They
  have getters, setters and a conversion, and no control.
* `client/pulsar.cpp`, `worker/wecho.cpp`, `worker/wtester.cpp`: load generators and
  demonstrations of the two APIs.
* The mmi services that no program asks for, and functions of events that return
  at once. One of those services ends the broker: `mmi.filter` with `enable` or
  `disable` reaches `assert(1 == 0)` (`mdp/mdp_broker.cpp:352-362`,
  `xdb/impl/xdb_impl_db_broker.cpp:2104-2135`). So do the assertions on the number
  of frames of a message, which no peer that uses the APIs sends otherwise.
* `MakeSnapshot()`, several databases in one process, processes that use the
  database at the same time, two threads in `getConnection()` at once.
* Conversion of messages, of tables of attributes and of snapshots: data
  without control. `PROJECT.json` lists each part with the reason.

## Plan

1. `Broker` (done): the broker and its tables, open to any peer. Proofs in
   `BrokerProofs` (done).
2. `Majordomo` (done): the broker composed with worker processes and the
   queues between them, crashes and restarts, heartbeats, liveness. Proofs in
   `MajordomoProofs` (done).
3. `Subscription` (done): points with versions and marks, groups, writers, the
   poller, clients. Proofs in `SubscriptionProofs` (done).
4. `DiggerThreads` (done): the pool, PROBE, TERMINATE, join, exceptions. Proofs
   in `DiggerThreadsProofs` (done).
5. `ClientApi`, `Requests` (done): a client's session, late replies, endpoints;
   the requests a DiggerWorker serves. Proofs in `RequestsProofs` and
   `ClientApiProofs` (done).
6. `LetterQueue` (done): what the broker promises of a request, and the
   refinement of it by `Broker`, proved in `BrokerProofs`.
7. `Database` (done): the life of the database over processes, crashes and
   reboots. Proofs in `DatabaseProofs` (done).
8. `Validity`, `PointTables`, `Points` (done): what a point shows, and what can be
   created, read and written. Proofs in `PointProofs` (done).
9. Pure operators: envelopes of zmsg, the window of `tool_metrics`,
   `ServiceList`.
10. Proofs of liveness, when the prover can do them.

The runs are few on purpose: a run that showed a deviation has made room for one
of a new component, and the deviation is described above.
