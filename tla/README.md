# DdingGameServer: specifications, model checking and proofs

DdingGameServer is a set of Windows game server processes in C++: the game
server (RIO_Core, a library over Winsock's Registered I/O, and GameServer, which
is built on it), a DBServer that runs stored procedures for game servers over
ODBC, and an AuthServer. This directory holds TLA+ specifications of its
concurrent core, the TLC configurations that check them on small instances, and
TLAPS proofs of the main safety properties for instances of every size.

Paths below are relative to `src/`; `RIO_Core` is `DdingGameServer/RIO_Core`.

## 1. Inventory

### RIOServer, RIOSession (RIO_Core)

*Threads.* One accepter, `numOfWorkerThread` workers with one RIO completion
queue each, and any other threads that look a session up (`GetSession`) and call
it. A session is bound to one worker for life.

*State.* `sessionMap` (under `sessionMapLock`), the counters `sessionCount` and
`numOfSessionInWorkerThread`, `nextSessionId`; per session `ioCount`, the socket,
the receive ring, and the send side: `sendQueue`, `reservedBuffer`, `ioMode`,
`sendDisconnect`, and a single registered send buffer.

*Operations.* `MakeNewSession`; `RecvPost`, `RecvCompleted`; `SendPacket`,
`SendPacketAndDisconnect`, `SendPost`, `MakeSendStream`, `SendCompleted`;
`Disconnect`; `IOCountDecrement`, `ReleaseSession`; `StartServer`, `StopServer`.

*What is hard.* The life of a session hangs on `ioCount` alone, and the order in
which references are taken and requests are posted is not the same everywhere:
`RecvPost` counts a receive after it has been posted, `SendPost` counts a send
before. Sending is exclusive through one compare-and-exchange on `ioMode` by any
number of threads. The accepter goes on with a session after it gave its own
reference back.

*Correct means:* the count equals the references; buffers go back to their pools
once, when nobody uses them; at most one receive and one send per session; no
packet is left in a queue nobody looks at; packets go out in order and once;
broadcasts miss no live session; a session whose connection is over leaves.

### Broadcaster (RIO_Core)

The set of session ids (`sessionIdSet` under its own lock), filled and emptied by
the session life cycle above, and one buffer that is sent to all of them. Hard:
registration races with release; the buffer's references against the number of
sends. Correct means: live sessions are in the set.

### MultiLanClient, DBClient (RIO_Core)

The game server's connections ("channels") to DBServer: an IOCP client with
workers, a thread that reconnects, and callers of `SendPacket`. Per channel
`m_IOCount`, `IOMode`, `SendQ`, `lBufferCount`, and the list of channels to
reconnect. Hard: a reference count without a reference of the channel's own,
failures of `WSASend` and `WSARecv` at any moment, a list that is popped outside
its lock. Correct means: the count equals the references, one send per channel
across reconnections, packets in order, a lost channel comes back once.

### DB jobs of the game server (RIO_Core: DBJob, ProcedureReplyHandler, DBJobLazyRunner)

*State.* `DBJobManager`'s counter `jobKey` and `jobMap`, each `BatchedDBJob`'s own
`dbJobKey` and `jobList`, the runners a player holds, and `ProcedureReplyHandler`'s
table. *Operations.* Making and registering a batch, adding a job, executing a batch,
pushing a runner and firing it by a ping, calling a procedure without a batch, handling
a reply. *What is hard.* A key lives in three places (batch, map, packets) and the map's
key is not the batch's; the runners' queue has no lock. *Correct means:* no reply can
settle a batch that it does not answer.
What would make a batch settle at all is missing: a job has no buffer, so nothing is sent
(`DBJob.h:30`), and `DBJobReply` has no packet factory, so a reply is not handled.

### ODBC connections and metadata (DBServer)

*State.* The default connection and the pooled ones with their handles, cursors and
transactions; the catalog of procedures. *Operations.* `ConnectDB`, `InitDB`
(`GetProcedureNameFromDB`, `MakeProcedureColumnInfoFromDB`), `GetConnection`, `CallSP`
and its variants, `GetSPResult`, `FreeConnection`, `DisconnectDB`. *What is hard.* The
catalog is learned by calling every procedure in a transaction; any call may fail, and
what it leaves open is inherited by the next call on that statement. *Correct means:* the
trial calls are not committed; no statement is called over a cursor that whoever had it
before could have closed.

### DBServer

*State.* `batchedDBJobMap` (under a shared mutex), each batch's `bufferList`, the
pool `connectionList` (under a mutex), and each connection's commit mode and open
transaction. *Operations.* The announcement of a batch, a job of a batch, a
procedure without a batch; `GetConnection`, `FreeConnection`. *What is hard.*
Packets of one batch can be handled by several workers; the map is read under
one lock and changed under another; a connection's transaction state is left
behind by whoever had it last. *Correct means:* every connection is given
back, none is shared, one worker per batch, one batch per transaction, no answer before
the commit of all its jobs.

### GameServer (PCManager, PC, zones, creatures)

`PCManager` keeps two maps (by session and by id) under two locks that are never
held together. Hard: a duplicate is found after the first map was changed; an id is
erased by whoever had it. Correct means: a player is found by id, no two sessions play
one PC, a session that is over is in neither map. Zones are loaded once and then read; a
creature's HP is arithmetic with bounds and has no caller.

### AuthServer

Registration of game servers (a map under a lock, scanned for duplicates), and DB threads
with a job queue and events. Hard: a server that reconnects before its old session is
gone; an event that wakes one thread and has to stop all. Correct means: no id is
registered twice, a session is registered until it leaves, stopping ends.

### The process: main, start and stop (RIO_Core)

`StartServer` opens the socket, starts workers and the accepter; `StopServer` joins the
workers and closes their completion queues, and `main` calls it twice. Hard: who waits for
whom, and that each step may fail without anybody looking. Correct means: the accepter
never uses the place of a completion queue that its worker has not written. The workers
register with `DeadlockChecker`, which is compiled to empty functions (see "Not modelled").

### Logger, TimerManager (RIO_Core)

One thread each and a queue or list under a lock. Neither runs (see "Not modelled").

### Rest

ODBC reflection, packet tables, the build tools, the legacy MySQL
connector: sequential, or run once at start. `PROJECT.json` lists them with the
reason why they are not modelled.

### How they interact

A client's packet reaches a handler on the RIO worker of its session; the
handler answers with `SendPacket` and may start a batch, which `DBClient` is to send
over its channels to DBServer, whose workers answer on the channel of the last
job; the reply is to be handled on a worker of `MultiLanClient`, which calls the
batch's `OnCommit` or `OnRollback`. Jobs and replies get lost on both ways today
(see DB jobs). A ping finds its player in `PCManager`, whose runners execute batches.
AuthServer knows game servers by the session of their `AuthClient`. `NetBuffer`, `CSerializationBuf`, `CLanServer`, `CRingbuffer`
and `CLockFreeQueue` come from a submodule that is not part of the repository;
they are modelled from their use and marked external in the map where a
definition stands for them.

## 2. Modules

| Module | What it is |
|---|---|
| `RIOServer` | sessions: accepter, workers, application threads, kernel |
| `RIOServerProperties` | what RIOServer is checked for, and its fairness |
| `LossyChannel` | abstract specification: packets in order, none twice, some lost, amid noise |
| `MCRIOServer` | instances for TLC (`RIOLifecycle.cfg`, `RIOSend.cfg`, `RIOLiveness.cfg`) |
| `RIOServerInvariants` | the inductive invariants |
| `RIOServerStepProofs` | types and control flow (`TypeCorrect`), what each step changes, the reference counts |
| `RIOServerSafetyProofs` | the other parts of the invariants; safety theorems, refinement, counters |
| `MultiLanClient` | the channels to DBServer: workers, reconnecter, callers; and the properties |
| `MCMultiLanClient` | instances for TLC (the `Channel*.cfg`) |
| `MultiLanClientInvariants`, `MultiLanClientProofs` | the inductive invariant and the theorems |
| `DBServer` | workers, batches, connection pool, transactions, and the properties |
| `MCDBServer` | instance for TLC (`DBServer.cfg`) |
| `DBServerInvariants`, `DBServerProofs` | the inductive invariant and the theorems |
| `PCManager` | players in two maps under two locks |
| `DBJobs` | batches, keys, lazy runners, replies |
| `GameServer` | composes the two: sessions own batches, their pings find players |
| `MCGameServer`, `GameServerProofs` | instance for TLC (`GameServer.cfg`); invariant and theorems |
| `ODBCConnector` | DBServer's connections from first to last, catalog, procedure calls |
| `MCODBCConnector`, `ODBCConnectorProofs` | instance (`ODBCConnector.cfg`); invariant and theorems |
| `AuthServer` | start, registration of game servers, DB threads; with fairness |
| `MCAuthServer`, `AuthServerProofs` | instance (`AuthServer.cfg`); invariant and theorem |
| `ServerProcess` | main, start and stop of RIOServer's threads |
| `MCServerProcess`, `ServerProcessProofs` | instance (`ServerProcess.cfg`); invariant and theorems |

### RIOServer and the code

One action is one access to memory that threads share, in the order of the
source: an interlocked operation, a critical section, a call of a RIO function.
`pc[t]` names the next such access of thread `t`, `cur[t]` the session it works
on, `ret[t]` where the call it is in returns to. `dec`, `leave`, `close`,
`erase`, `free` are the five accesses of `IOCountDecrement` and
`ReleaseSession`, `cas`, `make`, `sendCount`, `RIOSend` the four of `SendPost`.
`recvOps` and `sendOps` stand for the kernel: requests posted whose completion no
worker has dequeued. Any of a worker's completions may be next; a completion
carries data, or 0 bytes once the connection is over.

Three history variables exist for the properties only: `released` (how often the
buffers went back), `abandoned` (references whose completion found no session,
`RIOServer.cpp:205-209`, or whose session could not be initialised), and
`irregular`. A session is irregular from the moment it receives a bad packet
(`ReleaseSession` is then called with references outstanding, `424`) or its count
is raised from 0 by a thread that holds the object only (`771`). For such a
session a second release can really happen, and does in the runs. `NoUseAfterRelease`
is about all others, and only about the kernel and the session's worker: the accepter
and application threads may hold a released session longer. `WorkersReviveNobody`
is about all sessions: whatever was released by then, a worker that counts a receive or a
send still has the reference of the completion it handles, so only threads without a
reference of their own raise a count from 0. `RefCountExact`, `SendsSerialized`,
`ReceivesSerialized`, `NoLostWakeup` and `LiveSessionsRegistered` are about all too.

*An empty queue.* The test at `746` compares an array with `nullptr` and is never true, so
`TrySending` goes to `MakeSendStream`, which for an empty queue returns with `ioMode`
still `IO_SENDING` (`762`). A session is mute from then on; `NoLostWakeup` is about the
others.

*What goes out.* `MakeSendStream` counts the sizes of all packets it takes, but `826`
indexes send buffer structures and not bytes: the first packet goes to the registered
buffer, the others over other elements of the pool. And the bound that `memcpy_s` gets
there is the buffer's size less *twice* the first packet's (`Fits`): it refuses a packet of
more than a third of the buffer, unless the bound is negative and becomes a huge
`size_t`. A refused copy ends the process, unless an invalid-parameter handler was set; the
model goes on. `stream` is therefore the first packet, whether it was copied, whether more
packets were counted and whether the length exceeds the buffer; and `OnWire` says what RIO
then finds in the buffer: the first packet, or noise in its place (not copied, or
overwritten by another session's stream), followed by stale bytes where more packets were
counted. `LossyChannel` is a channel with noise; what is shown of the code is that the
packets that do get out whole keep their order and are not repeated. Overruns onto memory
that is not a send buffer are not modelled.

### DBServer and the code

One action per critical section, ODBC call or `SendPacket` of `HandlePacket`,
`AddItemForJobStart`, `DoBatchedJob` and `ProcedureHandleImpl`. A batch is a
number given by its announcement. `g_Dump.Crash()` sets `crashed`, after which
nothing happens. `GetConnection` copies from a list node it has just popped: the
result is the node's connection, or `Garbage`, and then nobody has the connection any
more (`lost`): `PoolConserved` counts entries *and* says that an opened connection is
neither pooled nor held exactly if that happened to it. `BatchedDBJob` takes the size
of a batch, a `UINT`, as an unsigned char (`DBServer.h:16`): `StoredSize` keeps its
remainder by `SizeModulus`, 256 in the code. The game server of the repository
announces at most 16 jobs (`DBJob.cpp:56`), so it meets no other size; a server that announced
257 would get its answer after one. `AnswersAreCommitted` is hence about the jobs that
were *added* to the batch. `DBJobHandleImpl` has an empty body that returns false
(`failed`), and `isSuccess` is not assigned: failed jobs are committed and answered like others.
`AddItemForJobStart` takes the batch out of the map with its first job, so a batch whose
stored size is not 1 never runs.

### MultiLanClient and the code

The same granularity: one action per access to shared memory or call of Winsock,
`pc[t]` the next one. `release`, `drain`, `close`, `invalidate`, `push` are
`ReleaseSession`; `recvCount`, `WSARecv`, `undoRecv` are `RecvPost`; `sent`,
`resetMode`, `dec` are what `Worker` does with a completion; `cas` to `undoSend` are
`SendPost`; `socket` to `unlink` are `Reconnecter`, and `ended` is its thread after a
failed `socket` or `setsockopt`. `conn` is the socket: `open`, `gone` (the connection is
lost and nobody here knows yet), `closed`, `fresh` (created, not connected).

The model begins when `Start` has connected all channels. Every `WSARecv` and
`WSASend` may fail. Unlike a session of RIOServer, a channel has no identity of its
own that is protected: `SendPacketImpl` takes no reference ("session에 대한 락을 좀
생각 해봐야할듯", `MultiLanClient.cpp:527`), so a caller can raise the count of a released
channel from 0, and its failing send releases the channel again. `unguarded`
remembers the channels to which that has happened. They are in the model with all
that follows (two entries in the list, two receives on one ring, a socket replaced
while its connection lives). `RefCountExact`, `SendsSerialized` and `NoLostWakeup` hold
for them too; the others are about the channels to which it has not happened.
`corrupted` remembers the race of `pop_front` (`427`, no lock) with `emplace_back`
(`218`); the pop may then undo the append. The channels share one reconnecter, which
works on one of them until it is connected. When a send of a caller without a reference
fails on the fresh socket, it closes that socket, and `connect` then fails for ever
(`387`-`409` makes a new socket for `WSAEISCONN` only): every other lost channel waits
behind it. `LostChannelsReconnect` excepts just that (`ReconnecterStuck`); `channel_list`, with
two channels, finds it without the exception.

`UseSize` reads `GetRestSize` of the queue. The queue's library is not in the repository;
taken as the number of packets in the queue it is never negative, and the branch for a
negative size (`551`-`560`), which gives back a reference that `SendPost` has not taken, is dead
code. That is an assumption about the library: were its counter to lag behind its contents
while `ReleaseQueue` and an unguarded sender dequeue together, the branch would
release a channel in use, and `RefCountExact` would not hold for that channel.

`BuffersFreedOnce` does **not** hold (`channel_frees`): `ReleaseSession` frees
`lBufferCount` buffers and nobody resets the count, so after a failed `WSASend` each
later release frees the same buffers again. The comment at `195` says that the loop
returns the buffers that were moved but not sent; at the second release they have
been returned. And a channel whose `WSASend` failed never sends again, even when it
is reconnected: `IOMode` stays `SENDING`. `PacketsLeaveQueue` excepts that case
(`SendStuck`), since no document says what should happen.

### GameServer (PCManager, DBJobs) and the code

`InsertPC`, `ErasePCBySessionId` and `ErasePCByPCId` take one lock after the other, so each
is two actions; `erasing` holds the calls between their two. `Leave` is the end of the
session with the first half of `ErasePCBySessionId`. No code in the repository erases a PC
yet, so any thread may. Two histories mark what the code does and the properties except.
`robbed`: a duplicate that was refused keeps its session entry (`PCManager.cpp:40`), and
when it leaves it erases the id, which is the other player's (`70`). `early`: a session
that ends before `InsertPC` returns is inserted after it was erased, and stays.

A batch is made, then registered under the *next* key (`DBJob.cpp:124`), so the key it sends
is in no map. `ExecuteBatchJob` sends nothing, since `GetJobBuffer` is `nullptr`;
`SPReplyHandle` finds no factory for `DBJobReply`. `AssemblePacket` is in the module and
stays unused until there is one: `Handled` is the look-up in the two tables. `CopyTop`,
`Fire` and `FinishPing` are the loop of `FireLazyRunnerIfConditionMet`: it copies the top, pops
whatever is on top by then, and fires the copy. The queue has no lock, so a push (which
nothing in the repository does yet) may come in between, and one that overlaps the pop
may leave any part of the queue. `CheckFireState` fires what is due *later* than now, and the
queue's top is what is due last: no property is about that, as no document says which way
it should go.

### ODBCConnector and the code

`DBServer` has the pool below its handlers; this module has the connections' life. One action
per group of ODBC calls with one outcome; a failure leaves what the code leaves.
`keptOpen` records an `SQLEndTran` that failed, whose result nobody looks at
(`ODBCMetaData.cpp:179`): the next `SQL_AUTOCOMMIT_ON` commits the trial calls. `unfetched`
records statements whose cursor a handler left open: `GetSPResult` gave up
(`ODBCConnector.h:199`), or `CallStoredProcedure` reported a failure because the answer was
`SQL_SUCCESS_WITH_INFO` (`ODBCUtil.cpp:115`) though the procedure had run. They go back to
the pool, and `CursorsClosedForNextCall` says that no other statement is called over an open
cursor. As in `DBServer`, the copy that `GetConnection` returns may be `Garbage`. The handlers do what the commented-out ones would: take
a connection, call, fetch, give it back. A call without a catalog, or with garbage
for a statement, may crash or fail. `Cleanup` pops the list it iterates over and may crash at any node.

### AuthServer and the code

`gameServerMap` is a function from sessions to ids; the scan for a duplicate and the
insertion are one critical section, the answer is sent after it. `AuthClient` sends no id, so
the id read is any; and it waits for an answer of the type of its request
(`RegisterReplyType`), so `connectedAtClient` never grows. It asks once; the handler takes any number
of requests, and so does the model (`RegisterAgain`): `insert` does not overwrite, so a session that
asks again under another free id is told yes and keeps its first one. `InsertDBJob` signals no event, so a
DB worker wakes only to stop, and sets the stop event again for the next one.

### ServerProcess and the code

`main` is what main does next. `StartServer` may fail at every step, and `main` goes on to its
loop without threads; `StopServer` then has no threads to join (or an array of threads never
started, which crashes). The second `StopServer` (`main.cpp:31`) joins threads that were joined
and ends the process. `RIOCreateCompletionQueue` may refuse, and
its worker reports itself all the same (`RIOServer.cpp:310`-`312`): its entry is then `invalid`, no
session can be made on it, and its next `RIODequeueCompletion` crashes or returns
`RIO_CORRUPT_CQ`, which is taken for a number of results. So `AccepterFindsQueues` says
that the accepter uses no entry before its worker has written it, not that the entry is a queue.
It excepts the time after `serverStop`: `StopServer` closes the workers' queues and does not wait
for the accepter.

## 3. Runs

| Run | Instance | Shows |
|---|---|---|
| `rio_lifecycle` | 2 workers, 3 sessions, 1 application thread, no packets | `ReceivesSerialized`, `LiveSessionsRegistered`, `CountersAgree` |
| `rio_send` | 1 worker, 1 session, 2 application threads, 3 packets | `TypeOK`, `RefCountExact`, `WorkersReviveNobody`, `NoUseAfterRelease`, `SendsSerialized`, `NoLostWakeup`; refinement of `LossyChannel` |
| `rio_liveness` | 1 worker, 1 session, 1 application thread, 2 packets, fair | `GoneSessionsLeave` |
| `channel_send` | 1 channel, 2 workers, 2 callers, 2 packets, 1 loss, 1 reconnection | `TypeOK`, `RefCountExact`, `SendsSerialized`, `NoLostWakeup`, `SentInOrder`, `ReceivesSerialized`, `BuffersInFlightAlive` |
| `channel_list` | 2 channels, 1 worker, 1 caller with 1 packet for the first channel, 1 loss each, 3 reconnections, fair | `DeadChannelsListed`, `ReconnectsDeadOnly`, `LostChannelsReconnect` |
| `channel_liveness` | 1 channel, 1 worker, 1 caller, 2 packets, 1 loss, fair | `PacketsLeaveQueue` |
| `channel_frees` | 1 channel, 1 worker, 1 caller, 1 packet, 2 losses | `BuffersFreedOnce` is violated |
| `db_server` | 3 workers, 3 channels, pools of 0 to 3, keys {0, 1}, 5 packets with 2 announcements of 1 to 4 jobs, size modulus 3 | the seven properties of `DBServer` |
| `game_server` | 3 sessions, 2 PC ids, 1 owner of 2 batches, clock to 2, 1 call | `PlayersFoundById`, `LeftNothingBehind`, `KeysNeverShared` |
| `odbc_connector` | pool of 2, 3 procedures, 2 handlers | `CatalogCallsRolledBack`, `CursorsClosedForNextCall` |
| `auth_server` | 2 sessions, 2 ids, 3 DB threads, pool of 2, 1 job, fair | `RegistrationsTrue`, `StopReachesWorkers` |
| `server_process` | 3 workers | `AccepterFindsQueues` |

*Why these bounds.* Sessions interact only through the accepter, the counters
and the worker they share: three sessions on two workers put two on one worker
and let one leave while another enters, and `CountModulus` 8 lets the decrement
that comes before its increment wrap. The send path concerns one session; two
application threads, its worker and the accepter are one more than any of its
races needs (a winner and a loser of the exchange, and the completion). Packet
sizes 3, 2, 4 against a buffer of 6 make a stream that fits, one that is exactly
full and one that overflows, so `reservedBuffer` is used, and the three outcomes of
`memcpy_s`: refused, copied, and copied with a negative bound. In `db_server` two
batches can share a key, key 0 takes the path that falls through, three workers
allow two takers of one batch and a third in the pool, and every start with
fewer connections than workers is included. Announced sizes 1 to 4 with a modulus of 3 are
stored as 1, 2, 0 and 1, as 1, 2, 256 and 257 are.

Channels share the reconnecter, its list and the workers, nothing else: two channels
are what `channel_list` needs for an append to meet a pop and for one channel to keep
the reconnecter from the other, and the other runs look at one. `Addressed` has packets
handed to one of the two, so that one is guarded and the other is not. Two callers and two
workers give a sender, one that loses the exchange and two completions at a time; two
packets with two slots allow a send of one or of two; two losses make a channel live three
times. For a guarded channel a reconnection needs a loss, so as many `MaxReconnects` as
losses cut off no behaviour of those; an unguarded channel can be in the list several times
and use up any bound, so `channel_list` allows one more than the losses and
`LostChannelsReconnect` excepts the states in which the bound is reached.

In `game_server` three sessions over two ids give a player, its duplicate and a third that
takes the id in between, which is what `robbed` needs. `MaxBusySessions` 1 lets sessions
beyond the first connect only while no batch is made: players and batches share no state but
the session that owns and pings, so all of PCManager's behaviours are in the run without
batches and all of DBJobs' with one player. Two batches and times 0 to 2 give runners due
before, at and after a ping, in both orders, and a push between a copy and its pop. In `odbc_connector` the three procedures are one
with a result, one whose parameter has no default and one with both, and which of them the
database lists is any subset. In `auth_server` two sessions are a registered server and the one
that comes for its id, or for another, before and after it leaves.

*Deadlock.* The configurations say `CHECK_DEADLOCK FALSE`: the models do stop,
when the bounded number of sessions or packets is used up and every thread is
idle, and after a crash or the end of the process.

*Fairness* (`FairSpec`). A thread that has begun a call goes on (weak fairness of
the accepter's, the workers' and the application threads' steps): the scheduler
of the operating system runs it, and no step waits for another thread for
longer than a critical section. The kernel completes the requests of a dead
connection, first those with data and then the one with 0 bytes, and a worker
takes its completions in order: strong fairness of `DequeueLastCompletion`,
since other completions come between. Nothing is assumed of clients, accepts or
the callers of `SendPacket`. For the channels likewise: threads inside a call and the
reconnecter go on (it sleeps, but for a bounded time, and `connect` is repeated until
DBServer accepts), and a worker takes the completion of a send or the last one of a
dead connection in the end. For AuthServer: the DB threads and whoever stops them run (weak
fairness of `WakeToStop`, `PassStopOn` and `FinishStopThreads`: a thread waiting for an event
that is set is woken, and nothing else resets it). Nothing is assumed of game servers or
of callers.

*Mutants.* A definition `XWithout...` or `XBut...` next to `X` is `X` with a
plausible bug. `PROJECT.json` says which property notices which; every property
of every run has one.

## 4. Proofs

All theorems assume the named assumption of their module on its constants and nothing else, in
particular no bound on threads, sessions, packets, connections or batches beyond
the named constants. Where numbers of threads are counted the assumption says that there are
finitely many (`Apps` in `RIOServer`, `Workers` and `Apps` in `MultiLanClient`).

**RIOServer.** `Inv` in `RIOServerInvariants` is inductive. Besides the properties
themselves it consists of

- `Control`: which labels and return addresses a thread of each kind can have;
- `Identity`: ids not given out are untouched, a session is the accepter's alone
  until it is published, a worker handles only its own sessions. Without it
  nothing prevents two threads from holding one of the counted references;
- `SendInv`: whoever builds a send, the send in RIO and the worker about to reset
  `ioMode` exclude each other. `SendsSerialized` alone is not inductive: a worker
  that has dequeued the completion will set `IO_NONE_SENDING`;
- `ReceiveInv`: the right to post the next receive exists once;
- `ReleaseInv`: for a session that is not irregular, the count of a session being
  released stays 0 and one thread releases it;
- `BroadcastInv`: the accepter past `OnSessionEntered`.

`TypeCorrect` gives types and `Control`; each part has a lemma that goes through the
actions one by one. `RefCountCorrect` is the centre: from it follows that a count that
reaches 0 leaves no request in RIO and no worker on the session, hence
`NoUseAfterReleaseCorrect` and `WorkersReviveNobodyCorrect`. `EmplaceIsFreshCorrect` shows that the branch of
`MakeNewSession` for a duplicate id, in which the accepter would take `sessionMapLock`
twice, is dead.

Two further invariants rest on `Inv`. *Packets* (`HandedBounded`, `PacketInv`): a packet moves
from the queue to `reservedBuffer`, from there to a thread's stream, from there to the wire, and
what is nearer to the wire is older; only one thread has a stream (`SendInv`). The crux is
`MakeSendStream`: it keeps a packet back only behind another one, because one packet is
smaller than the send buffer (`ReservesLater`). With that, `Enqueue` is `Hand` of `LossyChannel`, a
successful `RIOSend` is `Arrive`, of a packet or of noise, and every other step stutters:
`SendPathIsLossyChannel`. The total of a stream is a function chosen over the packets taken; that it
exists is shown with `LeastNatural`, the least-number principle for sets, in the place of
an induction over an operator. *Counters* (`LifeInv`, `CountInv`): a session enters the map
once, and as long as none was closed twice, `sessionCount` and each worker's counter are the
numbers of open sessions, modulo 2^32, less the one the accepter has not counted yet.
The counters wrap below 0 in between; `CountersCorrect` is about what they are at rest, for
fewer sessions at a time than 2^32.

**MultiLanClient.** `Inv` in `MultiLanClientInvariants` has four parts.

- `ThreadInv`: labels and loops of each kind of thread; the list's front is the channel
  the reconnecter works on until it unlinks it;
- `ReferenceInv`: the count is the number of references (receives, sends, threads that
  gave none back yet); one user of `bufStore` at a time; whoever sends on a channel
  without references has made it unguarded, so for the other channels a send keeps the
  channel from being released under it;
- `ReleaseInv`: a guarded channel without references is in one place, with the one thread
  that releases it or at one place of the list (unless a racing pop lost an append,
  `corrupted`), and its ring has one user;
- `OrderInv`: packets pass `SendQ`, `bufStore`, the wire or their release in the order in which
  they were queued, and what a `WSASend` is reading has not been freed.

Except for `SendersGuarded` the first two are about every channel, unguarded ones included, and
give `RefCountCorrect`, `OneSender` and `WakeupsKept`. `OneReceive`, `OldConnectionOver`,
`DeadChannelsKept`, `OrderKept` and `BuffersAlive` need the last two, which except
unguarded channels as their properties do.

**DBServer.** `Inv` in `DBServerInvariants` adds to the seven properties what each
label says about the worker's batch and connection (`WorkerInv`), that a batch is
in one place: on its way to the map, in the map under one key, with one worker, or
gone (`BatchInv`), that only a worker about to commit has left work on a connection
(`TransactionInv`), what the histories can be (`HistoryInv`), and that connections get lost in `GetConnection`
only (`KeptInv`). The seven theorems of `DBServerProofs` are the properties of the run.

**GameServer.** Players: from the control of the two maps (`EntriesInv`: an id's entry is its
session's own; who is to be erased by id is over; who is to be erased by session has lost its
id) and, for sessions that stayed until `InsertPC` returned, `StayedInv`: an entry by id has its
entry by session, or somebody is taking it out. `LeftNothingBehind` follows from it;
`PlayersFoundById` is inductive beside it. Keys: `KeysInv`, every key given out is below the
counter and no batch's own key is in the map.

**ODBCConnector.** A pooled connection is in the pool once or with one handler (`PoolInv`), so
an open cursor is the holder's or was left behind (`CursorInv`), and the default connection's is open
only between a call and its result; between two procedures nothing is pending
(`CatalogInv`).

**AuthServer.** A session asks once it is connected, and is accepted only by the step that finds it
registered or registers it (`RegistryInv`): with that `RegistrationsTrue` is inductive.

**ServerProcess.** A worker reports itself after it has written its entry, the accepter starts when all
have, and queues are closed when the server has stopped (`QueuesInv`).

**Only model-checked.** `GoneSessionsLeave`, `LostChannelsReconnect`,
`PacketsLeaveQueue` and `StopReachesWorkers`: liveness under fairness, which this prover does not
reach. Every other property of a passing run is the statement of a theorem;
`BuffersFreedOnce` is false, its run is the counterexample.

## 5. Plan

What is left, in this order.

1. `Broadcaster`: one buffer, many sends, its references, once the rules of `NetBuffer`
   are known.
2. Batches across processes: `DBJobs`, the channels and `DBServer` composed, once a job has a
   buffer. Until then nothing crosses.

## 6. Not modelled

- *DeadlockChecker.* Its functions are empty where they are compiled: the code is under
  `USE_DEDALOCK_CHECKER`, which `BuildConfig.h` defines, but `DeadlockChecker.cpp` does not include
  that header (and with the switch its `lock_guard<std::mutex>` on a `shared_mutex` would not compile).
- *Logger.* Its thread is never started, and the first pass of its loop would pop an empty
  queue (`Logger.cpp:105`).
- *TimerManager.* Nothing creates a timer, and the inverted test of `find` (`Timer.cpp:97`)
  keeps every timer out of the list that fires them.
- *GameObjectManager, zones, creatures.* One critical section per operation and no caller, or
  loaded once and then read.
- *`MultiLanClient::Stop`.* Called by the destructor of a static object when `main` has
  returned. *The framing of packets in the receive ring, `ReserveRIOBuffer`, overruns
  onto memory other than send buffers.* Below the level at which a stream is a sequence of packets.
- *What AuthServer's DB threads do with a job.* Not reachable: no event is signalled.
- *`DBJobAccumulateLazyRunner`.* Nothing uses it. *The destruction of a batch.* The map
  never lets go of one.
- *ODBC reflection, the legacy MySQL connector, DBMigrator, ScriptToObject, lock helpers.*
  Compile-time data, code without callers, tools run by hand, and wrappers of a lock that are one
  step of the models.
