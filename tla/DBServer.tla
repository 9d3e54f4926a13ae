------------------------------- MODULE DBServer -------------------------------
(***************************************************************************)
(* DBServer: the worker threads that handle the packets of the game        *)
(* servers' channels, the map of batched DB jobs they share, and the pool  *)
(* of ODBC connections.                                                    *)
(*                                                                         *)
(* A batch is announced by a GAME2DB_BATCHED_DB_JOB packet with its key    *)
(* and size; its jobs follow as packets with that key.  One action is one  *)
(* access to what workers share: a critical section of batchedDBJobMapLock *)
(* or of connectionLock, an access to a batch's bufferList, an ODBC call,  *)
(* a SendPacket.  pc[w] is the next such access of worker w.               *)
(*                                                                         *)
(* g_Dump.Crash() ends the process: crashed says why, and nothing happens  *)
(* any more.                                                               *)
(*                                                                         *)
(* Abstracted: the stored procedures (no packet id is handled by           *)
(* ProcedureHandleImpl or DBJobHandleImpl yet), what packets and replies   *)
(* contain besides keys and sizes, and the reference counts of their       *)
(* buffers.                                                                *)
(*                                                                         *)
(* A definition named XWithout... or XBut... is X with a bug in it.  Next  *)
(* does not use it: it is there to see that the properties notice.         *)
(***************************************************************************)
EXTENDS Integers, Sequences, FiniteSets

CONSTANTS
  Workers,         \* CLanServer's worker threads (option WORKER_THREAD)
  Channels,        \* sessions of CLanServer: the game servers' connections
  NoChannel,       \* no channel
  Keys,            \* DBJobKeys; 0 in a job packet means that it is in no batch
  PoolSize,        \* option CONNECTION_POOL SIZE
  BatchSizes,      \* DBJobStart::batchSize, a UINT
  SizeModulus,     \* 2^8: BatchedDBJob::batchSize is an unsigned char; small in a model
  MaxBatches,      \* bound: GAME2DB_BATCHED_DB_JOB packets received
  MaxPackets       \* bound: packets received

NoBatchKey == 0
NoBatch == 0
Batches == 1..MaxBatches
Connections == 1..PoolSize
NoConnection == 0
Garbage == -1      \* handles read from freed memory

ASSUME ConstantsAssumption ==
  /\ IsFiniteSet(Workers)
  /\ NoChannel \notin Channels
  /\ Keys \subseteq Nat
  /\ PoolSize \in Nat
  /\ BatchSizes \subseteq Nat
  /\ SizeModulus \in Nat \ {0}
  /\ MaxBatches \in Nat /\ MaxPackets \in Nat

VARIABLES
  pc,
  packet,          \* what it handles: channel, key, the batch and size it announces
  job,             \* the batch the worker took out of the map
  conn,            \* the connection it has
  batchedDBJobMap, \* [key -> batch] for the keys with a waiting batch
  batchSize,       \* BatchedDBJob::batchSize
  bufferList,      \* BatchedDBJob::bufferList: the channels its jobs came from
  announced,       \* GAME2DB_BATCHED_DB_JOB packets so far
  received,        \* packets so far
  connectionList,  \* the pool
  opened,          \* connections that were opened at start
  lost,            \* history: connections replaced by garbage, which nobody has any more
  autocommit,      \* SQL_ATTR_AUTOCOMMIT of each connection
  transaction,     \* the batches whose jobs were handled on it since its last SQLEndTran
  failed,          \* history: batches with a job whose handler returned false
  committed,       \* history: jobs of each batch that were committed
  answers,         \* history: replies that were sent for each batch
  crashed

threadVars == <<pc, packet, job>>
batchVars  == <<batchedDBJobMap, batchSize, bufferList, announced>>
poolVars   == <<conn, connectionList, opened, lost>>
odbcVars   == <<autocommit, transaction, failed, committed, answers>>
vars == <<pc, packet, job, conn, batchedDBJobMap, batchSize, bufferList, announced,
          received, connectionList, opened, lost, autocommit, transaction, failed,
          committed, answers, crashed>>

NoPacket == [channel |-> NoChannel, key |-> NoBatchKey, batch |-> NoBatch, size |-> 0]

(* DBServer's main goes on when ConnectDB fails: the pool holds the        *)
(* connections that were opened before the failure.                        *)
Init ==
  /\ pc = [w \in Workers |-> "idle"]
  /\ packet = [w \in Workers |-> NoPacket]
  /\ job = [w \in Workers |-> NoBatch]
  /\ conn = [w \in Workers |-> NoConnection]
  /\ batchedDBJobMap = <<>>
  /\ batchSize = [b \in Batches |-> 0]
  /\ bufferList = [b \in Batches |-> <<>>]
  /\ announced = 0 /\ received = 0
  /\ opened \in 0..PoolSize
  /\ connectionList = [i \in 1..opened |-> i]
  /\ lost = {}
  /\ autocommit = [c \in Connections |-> TRUE]
  /\ transaction = [c \in Connections |-> <<>>]
  /\ failed = {}
  /\ committed = [b \in Batches |-> 0]
  /\ answers = [b \in Batches |-> 0]
  /\ crashed = "no"

-----------------------------------------------------------------------------
Running(w, label) == crashed = "no" /\ pc[w] = label
Goto(w, label) ==
  /\ pc' = [pc EXCEPT ![w] = label]
  /\ UNCHANGED <<packet, job>>
Finish(w) ==
  /\ pc' = [pc EXCEPT ![w] = "idle"]
  /\ packet' = [packet EXCEPT ![w] = NoPacket]
  /\ job' = [job EXCEPT ![w] = NoBatch]

-----------------------------------------------------------------------------
(* The connection pool.                                                    *)

(* What the copy in GetConnection gives: the connection in front, or       *)
(* garbage in its place, and then nobody has that connection any more.     *)
CopyFront(w) ==
  LET front == Head(connectionList) IN
    \/ conn' = [conn EXCEPT ![w] = front] /\ UNCHANGED lost
    \/ conn' = [conn EXCEPT ![w] = Garbage] /\ lost' = lost \cup ({front} \ {Garbage})

(* GetConnection keeps a reference to the front node, pops it and copies   *)
(* the connection out of the freed node.  Without a connection the caller  *)
(* crashes the process.                                                    *)
GetConnectionButKeepingIt(w, next) ==
  IF connectionList = <<>>
  THEN crashed' = "no connection" /\ UNCHANGED <<threadVars, conn, connectionList, lost>>
  ELSE /\ CopyFront(w)
       /\ Goto(w, next)
       /\ UNCHANGED <<connectionList, crashed>>

GetConnection(w, next) ==
  IF connectionList = <<>>
  THEN crashed' = "no connection" /\ UNCHANGED <<threadVars, conn, connectionList, lost>>
  ELSE /\ CopyFront(w)
       /\ connectionList' = Tail(connectionList)
       /\ Goto(w, next)
       /\ UNCHANGED crashed

FreeConnectionWithoutReturn(w) ==
  /\ conn' = [conn EXCEPT ![w] = NoConnection]
  /\ UNCHANGED <<connectionList, lost>>

FreeConnectionButClearingFirst(w) ==
  /\ conn' = [conn EXCEPT ![w] = NoConnection]
  /\ connectionList' = Append(connectionList, conn'[w])
  /\ UNCHANGED lost

FreeConnection(w) ==
  /\ connectionList' = Append(connectionList, conn[w])
  /\ conn' = [conn EXCEPT ![w] = NoConnection]
  /\ UNCHANGED lost

-----------------------------------------------------------------------------
(* OnRecv, HandlePacket: CLanServer gives a channel's packets to one       *)
(* worker at a time.                                                       *)
Receive(w) ==
  /\ Running(w, "idle") /\ received < MaxPackets
  /\ received' = received + 1
  /\ \E c \in Channels, k \in Keys :
       /\ \A v \in Workers : packet[v].channel # c
       /\ \/ /\ announced < MaxBatches              \* GAME2DB_BATCHED_DB_JOB
             /\ announced' = announced + 1
             /\ \E n \in BatchSizes :
                  packet' = [packet EXCEPT ![w] =
                    [channel |-> c, key |-> k, batch |-> announced', size |-> n]]
             /\ pc' = [pc EXCEPT ![w] = "insert"]
          \/ /\ packet' = [packet EXCEPT ![w] =
                    [channel |-> c, key |-> k, batch |-> NoBatch, size |-> 0]]
             /\ pc' = [pc EXCEPT ![w] = IF k = NoBatchKey THEN "procedure" ELSE "find"]
             /\ UNCHANGED announced
  /\ UNCHANGED <<job, batchedDBJobMap, batchSize, bufferList, poolVars, odbcVars, crashed>>

(* BatchedDBJob's constructor takes the size as an unsigned char: of the   *)
(* announced size the low byte is stored.                                  *)
StoredSize(n) == n % SizeModulus

(* A key that is waiting already keeps its batch.                          *)
InsertBatchJob(w) ==
  /\ Running(w, "insert")
  /\ LET k == packet[w].key
         b == packet[w].batch
     IN IF k \in DOMAIN batchedDBJobMap
        THEN UNCHANGED <<batchedDBJobMap, batchSize>>
        ELSE /\ batchedDBJobMap' = [j \in DOMAIN batchedDBJobMap \cup {k} |->
                  IF j = k THEN b ELSE batchedDBJobMap[j]]
             /\ batchSize' = [batchSize EXCEPT ![b] = StoredSize(packet[w].size)]
  /\ Finish(w)
  /\ UNCHANGED <<received, bufferList, announced, poolVars, odbcVars, crashed>>

(* ProcedureHandleImpl borrows a connection; HandlePacket goes on with the *)
(* search of the map.                                                      *)
ProcedureHandleImpl(w) ==
  /\ Running(w, "procedure")
  /\ GetConnection(w, "procedureEnd")
  /\ UNCHANGED <<received, batchVars, opened, odbcVars>>

ProcedureEndWithoutFree(w) ==
  /\ Running(w, "procedureEnd")
  /\ conn' = [conn EXCEPT ![w] = NoConnection]
  /\ Goto(w, "find")
  /\ UNCHANGED <<received, batchVars, connectionList, opened, lost, odbcVars, crashed>>

ProcedureEnd(w) ==
  /\ Running(w, "procedureEnd")
  /\ FreeConnection(w)
  /\ Goto(w, "find")
  /\ UNCHANGED <<received, batchVars, opened, odbcVars, crashed>>

IsBatchJobWaitingJob(w) ==
  /\ Running(w, "find")
  /\ IF packet[w].key \in DOMAIN batchedDBJobMap THEN Goto(w, "take") ELSE Finish(w)
  /\ UNCHANGED <<received, batchVars, poolVars, odbcVars, crashed>>

TakeBatchWithoutErase(w) ==
  /\ Running(w, "take")
  /\ LET k == packet[w].key IN
       IF k \in DOMAIN batchedDBJobMap
       THEN /\ job' = [job EXCEPT ![w] = batchedDBJobMap[k]]
            /\ pc' = [pc EXCEPT ![w] = "append"]
            /\ UNCHANGED packet
       ELSE Finish(w)
  /\ UNCHANGED <<received, batchVars, poolVars, odbcVars, crashed>>

(* AddItemForJobStart takes the batch out of the map with its first job.   *)
TakeBatch(w) ==
  /\ Running(w, "take")
  /\ LET k == packet[w].key IN
       IF k \in DOMAIN batchedDBJobMap
       THEN /\ job' = [job EXCEPT ![w] = batchedDBJobMap[k]]
            /\ batchedDBJobMap' =
                 [j \in DOMAIN batchedDBJobMap \ {k} |-> batchedDBJobMap[j]]
            /\ pc' = [pc EXCEPT ![w] = "append"]
            /\ UNCHANGED packet
       ELSE Finish(w) /\ UNCHANGED batchedDBJobMap
  /\ UNCHANGED <<received, batchSize, bufferList, announced, poolVars, odbcVars,
                 crashed>>

AppendItem(w) ==
  /\ Running(w, "append")
  /\ bufferList' = [bufferList EXCEPT ![job[w]] = Append(@, packet[w].channel)]
  /\ Goto(w, "compare")
  /\ UNCHANGED <<received, batchedDBJobMap, batchSize, announced, poolVars, odbcVars,
                 crashed>>

(* A batch that is not complete is dropped here: nobody else has it.       *)
CompareSize(w) ==
  /\ Running(w, "compare")
  /\ IF batchSize[job[w]] = Len(bufferList[job[w]]) THEN Goto(w, "batch") ELSE Finish(w)
  /\ UNCHANGED <<received, batchVars, poolVars, odbcVars, crashed>>

-----------------------------------------------------------------------------
(* DoBatchedJob.                                                           *)

DoBatchedJob(w) ==
  /\ Running(w, "batch")
  /\ GetConnection(w, "manual")
  /\ UNCHANGED <<received, batchVars, opened, odbcVars>>

SetManualCommitWithoutOff(w) ==
  /\ Running(w, "manual")
  /\ conn[w] # Garbage
  /\ Goto(w, "job")
  /\ UNCHANGED <<received, batchVars, poolVars, odbcVars, crashed>>

(* SQL_AUTOCOMMIT_OFF; the process crashes when the call fails.            *)
SetManualCommit(w) ==
  /\ Running(w, "manual")
  /\ \/ /\ conn[w] # Garbage
        /\ autocommit' = [autocommit EXCEPT ![conn[w]] = FALSE]
        /\ Goto(w, "job")
        /\ UNCHANGED crashed
     \/ /\ crashed' = "odbc"
        /\ UNCHANGED <<threadVars, autocommit>>
  /\ UNCHANGED <<received, batchVars, poolVars, transaction, failed, committed, answers>>

HandleJobButReplyingFirst(w) ==
  /\ Running(w, "job")
  /\ transaction' = [transaction EXCEPT ![conn[w]] = Append(@, job[w])]
  /\ failed' = failed \cup {job[w]}
  /\ Goto(w, "reply")
  /\ UNCHANGED <<received, batchVars, poolVars, autocommit, committed, answers, crashed>>

(* DBJobHandleImpl for one job.  It returns false (its switch is empty);   *)
(* isSuccess is not assigned, so the loop goes on all the same, the        *)
(* transaction is committed and the reply says true.                       *)
HandleJob(w) ==
  /\ Running(w, "job")
  /\ LET b == job[w]
         c == conn[w]
     IN /\ transaction' = [transaction EXCEPT ![c] = Append(@, b)]
        /\ failed' = failed \cup {b}
        /\ IF Len(transaction'[c]) < Len(bufferList[b])
           THEN UNCHANGED threadVars ELSE Goto(w, "commit")
  /\ UNCHANGED <<received, batchVars, poolVars, autocommit, committed, answers, crashed>>

(* SQLEndTran with SQL_COMMIT; the process crashes when it fails.          *)
EndTran(w) ==
  /\ Running(w, "commit")
  /\ LET c == conn[w] IN
       \/ /\ committed' = [b \in Batches |->
               committed[b] + Cardinality({i \in DOMAIN transaction[c] :
                                             transaction[c][i] = b})]
          /\ transaction' = [transaction EXCEPT ![c] = <<>>]
          /\ Goto(w, "reply")
          /\ UNCHANGED crashed
       \/ /\ crashed' = "odbc"
          /\ UNCHANGED <<threadVars, transaction, committed>>
  /\ UNCHANGED <<received, batchVars, poolVars, autocommit, failed, answers>>

Reply(w) ==
  /\ Running(w, "reply")
  /\ answers' = [answers EXCEPT ![job[w]] = @ + 1]
  /\ Goto(w, "auto")
  /\ UNCHANGED <<received, batchVars, poolVars, autocommit, transaction, failed,
                 committed, crashed>>

(* SQL_AUTOCOMMIT_ON; nobody looks whether the call succeeds.              *)
SetAutocommit(w) ==
  /\ Running(w, "auto")
  /\ \/ autocommit' = [autocommit EXCEPT ![conn[w]] = TRUE]
     \/ UNCHANGED autocommit
  /\ Goto(w, "free")
  /\ UNCHANGED <<received, batchVars, poolVars, transaction, failed, committed, answers,
                 crashed>>

BatchEnd(w) ==
  /\ Running(w, "free")
  /\ FreeConnection(w)
  /\ Finish(w)
  /\ UNCHANGED <<received, batchVars, opened, odbcVars, crashed>>

-----------------------------------------------------------------------------
HandlePacket(w) ==
  \/ InsertBatchJob(w) \/ ProcedureHandleImpl(w) \/ ProcedureEnd(w)
  \/ IsBatchJobWaitingJob(w) \/ TakeBatch(w) \/ AppendItem(w) \/ CompareSize(w)
  \/ DoBatchedJob(w) \/ SetManualCommit(w) \/ HandleJob(w) \/ EndTran(w)
  \/ Reply(w) \/ SetAutocommit(w) \/ BatchEnd(w)

Next == \E w \in Workers : Receive(w) \/ HandlePacket(w)

Spec == Init /\ [][Next]_vars

-----------------------------------------------------------------------------
(* Properties.                                                             *)

Holding == {"procedureEnd", "manual", "job", "commit", "reply", "auto", "free"}
Holders == {w \in Workers : pc[w] \in Holding}
Labels == {"idle", "insert", "procedure", "find", "take", "append", "compare", "batch"}
            \cup Holding
PacketType == [channel : Channels \cup {NoChannel}, key : Nat,
               batch : Batches \cup {NoBatch}, size : Nat]

(* Every variable holds a value of its type.                               *)
TypeOK ==
  /\ pc \in [Workers -> Labels]
  /\ packet \in [Workers -> PacketType]
  /\ job \in [Workers -> Batches \cup {NoBatch}]
  /\ conn \in [Workers -> Connections \cup {NoConnection, Garbage}]
  /\ \A k \in DOMAIN batchedDBJobMap : batchedDBJobMap[k] \in Batches
  /\ batchSize \in [Batches -> Nat]
  /\ bufferList \in [Batches -> Seq(Channels \cup {NoChannel})]
  /\ announced \in 0..MaxBatches
  /\ received \in 0..MaxPackets
  /\ connectionList \in Seq(Connections \cup {Garbage})
  /\ opened \in 0..PoolSize
  /\ lost \in SUBSET Connections
  /\ autocommit \in [Connections -> BOOLEAN]
  /\ transaction \in [Connections -> Seq(Batches)]
  /\ failed \in SUBSET Batches
  /\ committed \in [Batches -> Nat]
  /\ answers \in [Batches -> Nat]
  /\ crashed \in {"no", "no connection", "odbc"}

(* The pool and the workers' connections together are as many as were      *)
(* opened, and each that was opened is in the pool or with a worker,       *)
(* unless garbage was read in its place: no path of HandlePacket keeps a   *)
(* connection or gives it back twice.                                      *)
PoolCount == Len(connectionList) + Cardinality(Holders) = opened
Kept(c) == \/ \E i \in DOMAIN connectionList : connectionList[i] = c
           \/ \E w \in Holders : conn[w] = c
PoolConserved ==
  /\ PoolCount
  /\ \A c \in 1..opened : c \in lost <=> ~Kept(c)

(* When at least as many connections were opened as there are workers (4   *)
(* and 4 in the option files), GetConnection is never refused, so that     *)
(* DoBatchedJob and ProcedureHandleImpl never crash the process over it.   *)
NeverRefused == opened >= Cardinality(Workers) => crashed # "no connection"

(* A connection is in the pool or with one worker, never with two, and is  *)
(* not in the pool twice.                                                  *)
ConnectionExclusive ==
  /\ \A i, j \in DOMAIN connectionList :
       connectionList[i] = connectionList[j] => i = j \/ connectionList[i] = Garbage
  /\ \A w \in Holders : conn[w] \in Connections =>
       /\ \A i \in DOMAIN connectionList : connectionList[i] # conn[w]
       /\ \A v \in Holders : conn[v] = conn[w] => v = w

(* The batch a worker adds its job to is out of the map and no other       *)
(* worker's: bufferList, which no lock guards, has one user.               *)
BatchExclusive ==
  \A w \in Workers : job[w] # NoBatch =>
    /\ \A k \in DOMAIN batchedDBJobMap : batchedDBJobMap[k] # job[w]
    /\ \A v \in Workers : job[v] = job[w] => v = w

(* What was done on a connection since its last commit is the work of the  *)
(* one batch that has the connection, in manual commit mode.               *)
TransactionsIsolated ==
  \A c \in Connections : transaction[c] # <<>> =>
    /\ ~autocommit[c]
    /\ \E w \in Holders : /\ conn[w] = c
                          /\ \A i \in DOMAIN transaction[c] : transaction[c][i] = job[w]

(* A batch is answered at most once, and only when every job that was      *)
(* added to it has been committed, each of them once.  That is not every   *)
(* job that was announced: the stored size is the low byte of that number. *)
AnswersAreCommitted ==
  \A b \in Batches : /\ answers[b] <= 1
                     /\ answers[b] = 1 => committed[b] = Len(bufferList[b])

=============================================================================
