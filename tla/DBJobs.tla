--------------------------------- MODULE DBJobs ---------------------------------
(***************************************************************************)
(* DB jobs of the game server: batches of jobs (BatchedDBJob), the map of  *)
(* registered batches (DBJobManager), the replies of DBServer that are to  *)
(* commit or to roll back a batch (ProcedureReplyHandler), and the runners *)
(* that execute a batch when a player pings (DBJobTimeLazyRunner).         *)
(*                                                                         *)
(* A job never has a buffer: DBJob's constructor fills one and keeps       *)
(* nothing but a pointer into it.  SendPacket refuses to send no buffer,   *)
(* so executing a batch sends nothing.  Replies are answers to procedures  *)
(* called without a batch, whose packets carry the key 0.                  *)
(*                                                                         *)
(* Owners stand for the sessions that batches belong to.  Nothing in the   *)
(* repository pushes a runner, so it is pushed whenever a batch exists,    *)
(* also while a ping is at the queue, which has no lock.  A batch is       *)
(* pushed once (bound).  minFireTime and the clock are in whatever unit    *)
(* the caller of DBJobTimeLazyRunner uses: UpdateByPing compares with      *)
(* microseconds.                                                           *)
(***************************************************************************)
EXTENDS Naturals, FiniteSets, Functions

CONSTANTS
  Owners, Batches,
  MaximumBatchedDBJobSize,  \* MAXIMUM_BATCHED_DB_JOB_SIZE
  MaxTime,                  \* bound: clock
  MaxCalls,                 \* bound: procedures called without a batch
  NoOwner

ASSUME JobsAssumption ==
  /\ NoOwner \notin Owners
  /\ MaximumBatchedDBJobSize \in Nat /\ MaxTime \in Nat /\ MaxCalls \in Nat

(* DBHelper's key of a procedure without a batch; in ownKey: no key yet.  *)
TempDBJobKey == 0
Times == 0..MaxTime
NotPinging == MaxTime + 1

VARIABLES
  jobKey,      \* DBJobManager::jobKey
  jobMap,      \* registered batches by key
  owner, ownKey, jobs,  \* per batch: owner, dbJobKey, jobList's size
  executed,    \* history: calls of ExecuteBatchJob
  settled,     \* history: "no", "committed", "rolled back"
  minFireTime,
  holder,      \* timeLazyRunnerHolder
  clock,
  pingTime,    \* now of FireLazyRunnerIfConditionMet, while it runs
  lazyRunner,  \* its copy of the top, {} if it has none
  calls        \* procedures called and not answered

batchVars  == <<jobKey, jobMap, owner, ownKey, jobs>>
runnerVars == <<minFireTime, holder, clock, pingTime, lazyRunner>>
jobVars    == <<batchVars, executed, settled, runnerVars, calls>>

JobsInit ==
  /\ jobKey = 1
  /\ jobMap = <<>>
  /\ owner = [b \in Batches |-> NoOwner]
  /\ ownKey = [b \in Batches |-> TempDBJobKey]
  /\ jobs = [b \in Batches |-> 0]
  /\ executed = [b \in Batches |-> 0]
  /\ settled = [b \in Batches |-> "no"]
  /\ minFireTime = [b \in Batches |-> 0]
  /\ holder = [o \in Owners |-> {}]
  /\ clock = 0
  /\ pingTime = [o \in Owners |-> NotPinging]
  /\ lazyRunner = [o \in Owners |-> {}]
  /\ calls = 0

-----------------------------------------------------------------------------
(* MakeBatchedDBJob: the batch takes its key, then it is registered.       *)

MakeBatch(b, o) ==
  /\ owner[b] = NoOwner
  /\ owner' = [owner EXCEPT ![b] = o]
  /\ ownKey' = [ownKey EXCEPT ![b] = jobKey]
  /\ jobKey' = jobKey + 1
  /\ UNCHANGED <<jobMap, jobs, executed, settled, runnerVars, calls>>

Registered(b) == b \in Range(jobMap)

RegisterDBJobWithoutFetchAdd(b) ==
  /\ owner[b] # NoOwner /\ ~Registered(b)
  /\ jobMap' = [k \in DOMAIN jobMap \cup {jobKey} |-> IF k = jobKey THEN b ELSE jobMap[k]]
  /\ UNCHANGED <<jobKey, owner, ownKey, jobs, executed, settled, runnerVars, calls>>

RegisterDBJob(b) ==
  /\ owner[b] # NoOwner /\ ~Registered(b)
  /\ jobMap' = [k \in DOMAIN jobMap \cup {jobKey} |-> IF k = jobKey THEN b ELSE jobMap[k]]
  /\ jobKey' = jobKey + 1
  /\ UNCHANGED <<owner, ownKey, jobs, executed, settled, runnerVars, calls>>

(* A job beyond the limit is refused, and nothing changes.                 *)
AddDBJob(b) ==
  /\ Registered(b) /\ jobs[b] < MaximumBatchedDBJobSize
  /\ jobs' = [jobs EXCEPT ![b] = @ + 1]
  /\ UNCHANGED <<jobKey, jobMap, owner, ownKey, executed, settled, runnerVars, calls>>

(* GetJobBuffer() is NULL, so neither DBJobStart nor a job is sent.        *)
ExecuteBatchJob(b) == executed' = [executed EXCEPT ![b] = @ + 1]

-----------------------------------------------------------------------------
(* Lazy runners.                                                           *)

(* A push that overlaps a ping's pop may leave any part of the queue.      *)
DBJobLazyRunnerPush(b, begin, delay) ==
  LET o == owner[b]
      pushed == holder[o] \cup {b} IN
  /\ Registered(b) /\ executed[b] = 0 /\ minFireTime[b] = 0
  /\ begin + delay \in Times \ {0}
  /\ minFireTime' = [minFireTime EXCEPT ![b] = begin + delay]
  /\ \E left \in SUBSET pushed :
       /\ lazyRunner[o] = {} => left = pushed
       /\ holder' = [holder EXCEPT ![o] = left]
  /\ UNCHANGED <<batchVars, executed, settled, clock, pingTime, lazyRunner, calls>>

UpdateByPing(o) ==
  /\ pingTime[o] = NotPinging
  /\ pingTime' = [pingTime EXCEPT ![o] = clock]
  /\ UNCHANGED <<batchVars, executed, settled, minFireTime, holder, clock, lazyRunner, calls>>

CheckFireState(b, now) == minFireTime[b] > now

(* std::less puts the runner that is due last on top of the queue.         *)
IsTop(b, o) == b \in holder[o] /\ \A c \in holder[o] : minFireTime[c] <= minFireTime[b]

(* top(), copied.                                                          *)
CopyTop(o) ==
  /\ pingTime[o] # NotPinging /\ lazyRunner[o] = {}
  /\ \E b \in Batches :
       /\ IsTop(b, o) /\ CheckFireState(b, pingTime[o])
       /\ lazyRunner' = [lazyRunner EXCEPT ![o] = {b}]
  /\ UNCHANGED <<batchVars, executed, settled, minFireTime, holder, clock, pingTime, calls>>

(* pop() takes out what is on top by now; the copy is what fires.          *)
Fire(o) ==
  /\ \E b \in lazyRunner[o] : ExecuteBatchJob(b)
  /\ IF holder[o] = {} THEN UNCHANGED holder
     ELSE \E top \in Batches :
            IsTop(top, o) /\ holder' = [holder EXCEPT ![o] = @ \ {top}]
  /\ lazyRunner' = [lazyRunner EXCEPT ![o] = {}]
  /\ UNCHANGED <<batchVars, settled, minFireTime, clock, pingTime, calls>>

FinishPing(o) ==
  /\ pingTime[o] # NotPinging /\ lazyRunner[o] = {}
  /\ \A b \in Batches : IsTop(b, o) => ~CheckFireState(b, pingTime[o])
  /\ pingTime' = [pingTime EXCEPT ![o] = NotPinging]
  /\ UNCHANGED <<batchVars, executed, settled, minFireTime, holder, clock, lazyRunner, calls>>

Tick ==
  /\ clock < MaxTime
  /\ clock' = clock + 1
  /\ UNCHANGED <<batchVars, executed, settled, minFireTime, holder, pingTime, lazyRunner, calls>>

-----------------------------------------------------------------------------
(* Procedures without a batch, and replies.                                *)

SendPacketToFixedChannel ==
  /\ calls < MaxCalls
  /\ calls' = calls + 1
  /\ UNCHANGED <<batchVars, executed, settled, runnerVars>>

ReplyHandlers == {"DBJobReply"}     \* ProcedureReplyHandler's packetHandlerMap
PacketFactories == {"Ping"}         \* PacketManager's packetFactoryFunctionMap

(* A reply is handled if it has a handler and PacketManager can make it.   *)
Handled(packet) == packet \in ReplyHandlers \cap PacketFactories

AssemblePacket(key, isSuccessed) ==
  settled' = IF key \in DOMAIN jobMap
             THEN [settled EXCEPT ![jobMap[key]] =
                     IF isSuccessed THEN "committed" ELSE "rolled back"]
             ELSE settled

(* DBServer answers with the key it was sent.                              *)
SPReplyHandle(packet, isSuccessed) ==
  /\ calls > 0
  /\ calls' = calls - 1
  /\ IF Handled(packet) THEN AssemblePacket(TempDBJobKey, isSuccessed) ELSE UNCHANGED settled
  /\ UNCHANGED <<batchVars, executed, runnerVars>>

-----------------------------------------------------------------------------
(* Properties.                                                             *)

(* A key that a batch sends is no other batch's: neither its own, nor the  *)
(* one it is registered under.  So no reply can settle a batch but the one *)
(* it answers.  DBJobManager::GetDBJobKey, RegisterDBJob.                  *)
KeysNeverShared ==
  \A b, c \in Batches :
    b # c /\ ownKey[b] # TempDBJobKey =>
      ownKey[c] # ownKey[b] /\ (ownKey[b] \in DOMAIN jobMap => jobMap[ownKey[b]] = b)
=============================================================================
