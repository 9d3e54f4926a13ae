-------------------------- MODULE DBServerInvariants --------------------------
(***************************************************************************)
(* The inductive invariant behind the safety properties of DBServer.       *)
(* DBServerProofs shows that every step keeps it.                          *)
(***************************************************************************)
EXTENDS DBServer

(* Where a worker has a batch, and where that batch is known to be whole.  *)
Adding  == {"append", "compare"}
Executing == {"batch", "manual", "job", "commit", "reply", "auto", "free"}

(* What each label says about the worker's batch and connection.           *)
HasBatch(w) == job[w] # NoBatch <=> pc[w] \in Adding \cup Executing
HasConnection(w) == conn[w] # NoConnection <=> pc[w] \in Holding

BatchProgress(w) ==
  /\ pc[w] = "append" => bufferList[job[w]] = <<>>
  /\ pc[w] = "compare" => Len(bufferList[job[w]]) = 1
  /\ pc[w] \in Executing => Len(bufferList[job[w]]) = 1 /\ batchSize[job[w]] = 1
  /\ pc[w] \in {"append", "compare", "batch", "manual", "job", "commit"} =>
       committed[job[w]] = 0
  /\ pc[w] \in {"reply", "auto", "free"} => committed[job[w]] = 1
  /\ pc[w] \in {"append", "compare", "batch", "manual", "job", "commit", "reply"} =>
       answers[job[w]] = 0

ConnectionProgress(w) ==
  /\ pc[w] \in {"job", "commit", "reply", "auto", "free"} => conn[w] \in Connections
  /\ pc[w] \in {"job", "commit"} => ~autocommit[conn[w]]
  /\ pc[w] = "commit" => transaction[conn[w]] = <<job[w]>>

WorkerInv ==
  \A w \in Workers : /\ HasBatch(w) /\ HasConnection(w)
                     /\ BatchProgress(w) /\ ConnectionProgress(w)

(* A batch nobody has touched.                                             *)
Fresh(b) == bufferList[b] = <<>> /\ committed[b] = 0 /\ answers[b] = 0

(* The batch of an announcement on its way to the map is nobody else's.    *)
Inserts(w) ==
  /\ packet[w].batch \in 1..announced
  /\ Fresh(packet[w].batch)
  /\ \A v \in Workers : job[v] # packet[w].batch
  /\ \A v \in Workers :
       pc[v] = "insert" /\ packet[v].batch = packet[w].batch => v = w
  /\ \A k \in DOMAIN batchedDBJobMap : batchedDBJobMap[k] # packet[w].batch

InsertsInv == \A w \in Workers : pc[w] = "insert" => Inserts(w)

(* Batch numbers are used up to announced; each key has its own batch,     *)
(* which nobody has touched.                                               *)
UnannouncedFresh == \A b \in Batches : b > announced => Fresh(b)
JobsAnnounced == \A w \in Workers : job[w] <= announced
WaitingInv ==
  \A k \in DOMAIN batchedDBJobMap :
    /\ Fresh(batchedDBJobMap[k])
    /\ batchedDBJobMap[k] <= announced
    /\ \A j \in DOMAIN batchedDBJobMap :
         batchedDBJobMap[j] = batchedDBJobMap[k] => j = k

BatchInv ==
  BatchExclusive /\ InsertsInv /\ UnannouncedFresh /\ JobsAnnounced /\ WaitingInv

(* Only a worker about to commit has left work on its connection.          *)
TransactionInv ==
  \A c \in Connections : transaction[c] # <<>> =>
    \E w \in Workers : pc[w] = "commit" /\ conn[w] = c

HistoryInv ==
  \A b \in Batches : /\ answers[b] <= 1
                     /\ answers[b] = 1 => committed[b] = 1
                     /\ committed[b] > 0 => committed[b] = 1 /\ Len(bufferList[b]) = 1

(* The connections that were opened, one by one; needs ConnectionExclusive.*)
KeptInv == \A c \in 1..opened : c \in lost <=> ~Kept(c)

Inv ==
  /\ TypeOK /\ PoolCount /\ NeverRefused /\ ConnectionExclusive
  /\ WorkerInv /\ BatchInv /\ TransactionInv /\ HistoryInv
=============================================================================
