---------------------------- MODULE DBServerProofs ----------------------------
(***************************************************************************)
(* Proofs of DBServer's safety properties: Inv is inductive.               *)
(***************************************************************************)
EXTENDS DBServerInvariants, FiniteSetTheorems, SequenceTheorems, TLAPS

(* HandlePacket with its actions spelt out, for the proofs by cases.       *)
LEMMA NextCases ==
  ASSUME Next
  PROVE  \E w \in Workers :
           \/ Receive(w) \/ InsertBatchJob(w) \/ ProcedureHandleImpl(w)
           \/ ProcedureEnd(w) \/ IsBatchJobWaitingJob(w) \/ TakeBatch(w)
           \/ AppendItem(w) \/ CompareSize(w) \/ DoBatchedJob(w)
           \/ SetManualCommit(w) \/ HandleJob(w) \/ EndTran(w) \/ Reply(w)
           \/ SetAutocommit(w) \/ BatchEnd(w)
BY DEF Next, HandlePacket

(* Counting the jobs of a transaction gives a number.                      *)
LEMMA CountType ==
  ASSUME NEW q \in Seq(Batches), NEW b
  PROVE  Cardinality({i \in DOMAIN q : q[i] = b}) \in Nat
<1>1. DOMAIN q = 1..Len(q) /\ Len(q) \in Nat
  OBVIOUS
<1>2. IsFiniteSet(1..Len(q))
  BY <1>1, FS_Interval
<1>3. IsFiniteSet({i \in DOMAIN q : q[i] = b})
  BY <1>1, <1>2, FS_Subset
<1> QED
  BY <1>3, FS_CardinalityType

(* What the labels say about a worker's batch and connection.              *)
LEMMA Stages ==
  ASSUME TypeOK, WorkerInv, BatchInv, NEW w \in Workers
  PROVE  /\ pc[w] \in Adding \cup Executing => job[w] \in Batches
         /\ pc[w] \in Holding => conn[w] \in Connections \cup {Garbage}
         /\ pc[w] \in {"job", "commit", "reply", "auto", "free"} => conn[w] \in Connections
         /\ pc[w] = "insert" => packet[w].batch \in Batches
<1>1. job[w] \in Batches \cup {NoBatch} /\ conn[w] \in Connections \cup {NoConnection, Garbage}
  BY DEF TypeOK
<1>2. HasBatch(w) /\ HasConnection(w) /\ ConnectionProgress(w)
  BY DEF WorkerInv
<1>3. pc[w] = "insert" => packet[w].batch \in 1..announced
  BY DEF BatchInv, InsertsInv, Inserts
<1>4. announced \in 0..MaxBatches /\ MaxBatches \in Nat
  BY ConstantsAssumption DEF TypeOK
<1> QED
  BY <1>1, <1>2, <1>3, <1>4 DEF HasBatch, HasConnection, ConnectionProgress, Batches

(* The packets.                                                            *)
LEMMA PacketTypes ==
  /\ NoPacket \in PacketType
  /\ \A c \in Channels, k \in Keys, b \in Batches \cup {NoBatch}, n \in Nat :
       [channel |-> c, key |-> k, batch |-> b, size |-> n] \in PacketType
  /\ \A p \in PacketType : p.channel \in Channels \cup {NoChannel} /\ p.size \in Nat
BY ConstantsAssumption DEF NoPacket, PacketType, NoBatch, NoBatchKey

(* What the pool hands out and what stays are connections.                 *)
LEMMA PoolTypes ==
  ASSUME TypeOK, connectionList # <<>>
  PROVE  /\ Head(connectionList) \in Connections \cup {Garbage}
         /\ Tail(connectionList) \in Seq(Connections \cup {Garbage})
<1>1. connectionList \in Seq(Connections \cup {Garbage})
  BY DEF TypeOK
<1> QED
  BY <1>1, HeadTailProperties

(* What GetConnection's copy gives is a connection or garbage.             *)
LEMMA CopyFrontTypes ==
  ASSUME TypeOK, connectionList # <<>>, NEW w \in Workers, CopyFront(w)
  PROVE  /\ conn' \in [Workers -> Connections \cup {NoConnection, Garbage}]
         /\ lost' \in SUBSET Connections
<1>1. /\ conn \in [Workers -> Connections \cup {NoConnection, Garbage}]
      /\ lost \in SUBSET Connections
  BY DEF TypeOK
<1>2. PICK c \in Connections \cup {Garbage} :
        /\ conn' = [conn EXCEPT ![w] = c]
        /\ lost' = lost \/ lost' = lost \cup ({Head(connectionList)} \ {Garbage})
  BY PoolTypes DEF CopyFront
<1> QED
  BY <1>1, <1>2, PoolTypes

(* Every step of a worker keeps the types.                                 *)
LEMMA TypeStep ==
  ASSUME TypeOK, WorkerInv, BatchInv, [Next]_vars
  PROVE  TypeOK'
<1> USE DEF Running, Goto, Finish, threadVars, batchVars, poolVars, odbcVars
<1>1. ASSUME NEW w \in Workers, Receive(w) PROVE TypeOK'
  <2>1. PICK c \in Channels, k \in Keys :
          \/ /\ announced < MaxBatches /\ announced' = announced + 1
             /\ \E m \in BatchSizes : packet' = [packet EXCEPT ![w] =
                  [channel |-> c, key |-> k, batch |-> announced', size |-> m]]
             /\ pc' = [pc EXCEPT ![w] = "insert"]
          \/ /\ packet' = [packet EXCEPT ![w] =
                  [channel |-> c, key |-> k, batch |-> NoBatch, size |-> 0]]
             /\ pc' = [pc EXCEPT ![w] = IF k = NoBatchKey THEN "procedure" ELSE "find"]
             /\ UNCHANGED announced
    BY <1>1 DEF Receive
  <2>2. announced' \in 0..MaxBatches /\ received' \in 0..MaxPackets
    BY <1>1, <2>1, ConstantsAssumption DEF TypeOK, Receive
  <2>3. packet' \in [Workers -> PacketType]
    <3>1. ASSUME announced < MaxBatches, announced' = announced + 1
          PROVE  announced' \in Batches
      <4>1. announced \in 0..MaxBatches /\ MaxBatches \in Nat
        BY ConstantsAssumption DEF TypeOK
      <4> QED
        BY <3>1, <4>1 DEF Batches
    <3>2. BatchSizes \subseteq Nat
      BY ConstantsAssumption
    <3>3. packet \in [Workers -> PacketType]
      BY DEF TypeOK
    <3>4. CASE announced < MaxBatches /\ announced' = announced + 1 /\ announced' \in Batches
      <4>1. CASE \E m \in BatchSizes : packet' = [packet EXCEPT ![w] =
                  [channel |-> c, key |-> k, batch |-> announced', size |-> m]]
        <5>1. PICK m \in BatchSizes : packet' = [packet EXCEPT ![w] =
                  [channel |-> c, key |-> k, batch |-> announced', size |-> m]]
          BY <4>1
        <5>2. [channel |-> c, key |-> k, batch |-> announced', size |-> m] \in PacketType
          BY <3>2, <3>4, PacketTypes
        <5> QED
          BY <5>1, <5>2, <3>3
      <4>2. CASE packet' = [packet EXCEPT ![w] =
                  [channel |-> c, key |-> k, batch |-> NoBatch, size |-> 0]]
        BY <3>3, <4>2, PacketTypes
      <4> QED
        BY <2>1, <4>1, <4>2
    <3>5. CASE packet' = [packet EXCEPT ![w] =
                  [channel |-> c, key |-> k, batch |-> NoBatch, size |-> 0]]
      BY <3>3, <3>5, PacketTypes
    <3> QED
      BY <2>1, <3>1, <3>4, <3>5
  <2>4. pc' \in [Workers -> Labels]
    BY <2>1 DEF TypeOK, Labels
  <2> QED
    BY <1>1, <2>2, <2>3, <2>4 DEF TypeOK, Receive
<1>2. ASSUME NEW w \in Workers, InsertBatchJob(w) PROVE TypeOK'
  <2>1. packet[w].batch \in Batches /\ packet[w].size \in Nat
    BY <1>2, Stages, PacketTypes DEF InsertBatchJob, TypeOK
  <2>2. batchSize' \in [Batches -> Nat]
    <3>1. batchSize \in [Batches -> Nat]
      BY DEF TypeOK
    <3>2. batchSize' = batchSize \/ batchSize' = [batchSize EXCEPT ![packet[w].batch] = StoredSize(packet[w].size)]
      BY <1>2 DEF InsertBatchJob
    <3>3. StoredSize(packet[w].size) \in Nat
      BY <2>1, ConstantsAssumption DEF StoredSize
    <3> HIDE DEF StoredSize
    <3> QED
      BY <2>1, <3>1, <3>2, <3>3
  <2>3. \A k \in DOMAIN batchedDBJobMap' : batchedDBJobMap'[k] \in Batches
    <3>1. CASE UNCHANGED batchedDBJobMap
      BY <3>1 DEF TypeOK
    <3>2. CASE batchedDBJobMap' = [j \in DOMAIN batchedDBJobMap \cup {packet[w].key} |->
                 IF j = packet[w].key THEN packet[w].batch ELSE batchedDBJobMap[j]]
      BY <2>1, <3>2 DEF TypeOK
    <3> QED
      BY <1>2, <3>1, <3>2 DEF InsertBatchJob
  <2>4. pc' \in [Workers -> Labels] /\ packet' \in [Workers -> PacketType]
        /\ job' \in [Workers -> Batches \cup {NoBatch}]
    BY <1>2, PacketTypes DEF InsertBatchJob, TypeOK, Labels
  <2> QED
    BY <1>2, <2>2, <2>3, <2>4 DEF TypeOK, InsertBatchJob
<1>3. ASSUME NEW w \in Workers, ProcedureHandleImpl(w) PROVE TypeOK'
  <2>1. CASE connectionList = <<>>
    BY <1>3, <2>1 DEF TypeOK, ProcedureHandleImpl, GetConnection, threadVars
  <2>2. CASE connectionList # <<>>
    <3>1. /\ conn' \in [Workers -> Connections \cup {NoConnection, Garbage}]
          /\ lost' \in SUBSET Connections
      BY <1>3, <2>2, CopyFrontTypes DEF ProcedureHandleImpl, GetConnection
    <3>2. connectionList' \in Seq(Connections \cup {Garbage})
      BY <1>3, <2>2, PoolTypes DEF ProcedureHandleImpl, GetConnection
    <3> QED
      BY <1>3, <2>2, <3>1, <3>2 DEF TypeOK, Labels, Holding, ProcedureHandleImpl, GetConnection, Goto
  <2> QED
    BY <2>1, <2>2
<1>4. ASSUME NEW w \in Workers, ProcedureEnd(w) PROVE TypeOK'
  BY SMTT(40), <1>4, Stages DEF TypeOK, Labels, Holding, ProcedureEnd, FreeConnection, NoConnection
<1>5. ASSUME NEW w \in Workers, IsBatchJobWaitingJob(w) PROVE TypeOK'
  BY <1>5, PacketTypes DEF TypeOK, Labels, Holding, IsBatchJobWaitingJob, NoBatch
<1>6. ASSUME NEW w \in Workers, TakeBatch(w) PROVE TypeOK'
  <2>1. \A k \in DOMAIN batchedDBJobMap' : batchedDBJobMap'[k] \in Batches
    BY <1>6 DEF TakeBatch, TypeOK
  <2>2. pc' \in [Workers -> Labels] /\ packet' \in [Workers -> PacketType]
        /\ job' \in [Workers -> Batches \cup {NoBatch}]
    BY <1>6, PacketTypes DEF TakeBatch, TypeOK, Labels
  <2> QED
    BY <1>6, <2>1, <2>2 DEF TypeOK, TakeBatch
<1>7. ASSUME NEW w \in Workers, AppendItem(w) PROVE TypeOK'
  BY SMTT(40), <1>7, PacketTypes, Stages DEF TypeOK, Labels, Holding, AppendItem, Adding, Executing
<1>8. ASSUME NEW w \in Workers, CompareSize(w) PROVE TypeOK'
  BY <1>8, PacketTypes DEF TypeOK, Labels, Holding, CompareSize, NoBatch
<1>9. ASSUME NEW w \in Workers, DoBatchedJob(w) PROVE TypeOK'
  <2>1. CASE connectionList = <<>>
    BY <1>9, <2>1 DEF TypeOK, DoBatchedJob, GetConnection, threadVars
  <2>2. CASE connectionList # <<>>
    <3>1. /\ conn' \in [Workers -> Connections \cup {NoConnection, Garbage}]
          /\ lost' \in SUBSET Connections
      BY <1>9, <2>2, CopyFrontTypes DEF DoBatchedJob, GetConnection
    <3>2. connectionList' \in Seq(Connections \cup {Garbage})
      BY <1>9, <2>2, PoolTypes DEF DoBatchedJob, GetConnection
    <3> QED
      BY <1>9, <2>2, <3>1, <3>2 DEF TypeOK, Labels, Holding, DoBatchedJob, GetConnection, Goto
  <2> QED
    BY <2>1, <2>2
<1>10. ASSUME NEW w \in Workers, SetManualCommit(w) PROVE TypeOK'
  BY <1>10, Stages DEF TypeOK, Labels, Holding, SetManualCommit
<1>11. ASSUME NEW w \in Workers, HandleJob(w) PROVE TypeOK'
  <2>1. job[w] \in Batches /\ conn[w] \in Connections
    BY <1>11, Stages DEF HandleJob, Executing, Adding
  <2>2. transaction' \in [Connections -> Seq(Batches)]
    BY <1>11, <2>1 DEF HandleJob, TypeOK
  <2>3. pc' \in [Workers -> Labels] /\ UNCHANGED <<packet, job>>
    BY <1>11 DEF HandleJob, TypeOK, Labels, Holding
  <2> QED
    BY <1>11, <2>2, <2>3, SMTT(30) DEF TypeOK, HandleJob
<1>12. ASSUME NEW w \in Workers, EndTran(w) PROVE TypeOK'
  <2>1. conn[w] \in Connections
    BY <1>12, Stages DEF EndTran
  <2>2. \A b \in Batches : Cardinality({i \in DOMAIN transaction[conn[w]] :
                                          transaction[conn[w]][i] = b}) \in Nat
    <3>1. transaction[conn[w]] \in Seq(Batches)
      BY <2>1 DEF TypeOK
    <3> QED
      BY <3>1, CountType
  <2>3. committed' \in [Batches -> Nat]
    <3> DEFINE count(b) == Cardinality({i \in DOMAIN transaction[conn[w]] :
                                          transaction[conn[w]][i] = b})
    <3>1. committed \in [Batches -> Nat] /\ \A b \in Batches : count(b) \in Nat
      BY <2>2 DEF TypeOK
    <3>2. committed' = committed \/ committed' = [b \in Batches |-> committed[b] + count(b)]
      BY <1>12 DEF EndTran
    <3> HIDE DEF count
    <3> QED
      BY <3>1, <3>2
  <2>4. transaction' \in [Connections -> Seq(Batches)]
    <3>1. transaction \in [Connections -> Seq(Batches)] /\ <<>> \in Seq(Batches)
      BY EmptySeq DEF TypeOK
    <3>2. transaction' = transaction \/ transaction' = [transaction EXCEPT ![conn[w]] = <<>>]
      BY <1>12 DEF EndTran
    <3> QED
      BY <2>1, <3>1, <3>2
  <2>5. pc' \in [Workers -> Labels] /\ UNCHANGED <<packet, job>>
    BY <1>12 DEF EndTran, TypeOK, Labels, Holding
  <2> QED
    BY <1>12, <2>3, <2>4, <2>5 DEF TypeOK, EndTran
<1>13. ASSUME NEW w \in Workers, Reply(w) PROVE TypeOK'
  <2>1. job[w] \in Batches
    BY <1>13, Stages DEF Reply, Executing
  <2> QED
    BY SMTT(40), <1>13, <2>1 DEF TypeOK, Labels, Holding, Reply
<1>14. ASSUME NEW w \in Workers, SetAutocommit(w) PROVE TypeOK'
  BY <1>14, Stages DEF TypeOK, Labels, Holding, SetAutocommit
<1>15. ASSUME NEW w \in Workers, BatchEnd(w) PROVE TypeOK'
  BY SMTT(40), <1>15, Stages, PacketTypes DEF TypeOK, Labels, Holding, BatchEnd, NoBatch,
       FreeConnection, NoConnection
<1>16. CASE UNCHANGED vars
  BY <1>16 DEF TypeOK, vars
<1> QED
  BY <1>1, <1>2, <1>3, <1>4, <1>5, <1>6, <1>7, <1>8, <1>9, <1>10, <1>11, <1>12, <1>13,
       <1>14, <1>15, <1>16, NextCases
-----------------------------------------------------------------------------
(* The connection pool.                                                    *)

(* Holders is a finite set of workers.                                     *)
LEMMA HoldersFinite ==
  /\ IsFiniteSet(Holders)
  /\ Cardinality(Holders) \in Nat
  /\ Cardinality(Holders) <= Cardinality(Workers)
  /\ \A w \in Workers : w \notin Holders => Cardinality(Holders) < Cardinality(Workers)
<1>1. IsFiniteSet(Workers) /\ Holders \subseteq Workers
  BY ConstantsAssumption DEF Holders
<1>2. IsFiniteSet(Holders) /\ Cardinality(Holders) <= Cardinality(Workers)
  BY <1>1, FS_Subset
<1>3. ASSUME NEW w \in Workers, w \notin Holders
      PROVE  Cardinality(Holders) < Cardinality(Workers)
  <2>1. Holders \cup {w} \subseteq Workers
    BY <1>1, <1>3
  <2>2. Cardinality(Holders \cup {w}) = Cardinality(Holders) + 1
    BY <1>2, <1>3, FS_AddElement
  <2>3. Cardinality(Holders \cup {w}) <= Cardinality(Workers)
    BY <1>1, <2>1, FS_Subset
  <2> QED
    BY <1>1, <1>2, <2>2, <2>3, FS_CardinalityType
<1> QED
  BY <1>2, <1>3, FS_CardinalityType

(* A worker that gets a connection from the pool.                          *)
LEMMA PoolGet ==
  ASSUME TypeOK, PoolCount, ConnectionExclusive,
         NEW w \in Workers, NEW next \in Holding, pc[w] \notin Holding,
         connectionList # <<>>, connectionList' = Tail(connectionList),
         CopyFront(w),
         pc' = [pc EXCEPT ![w] = next], opened' = opened
  PROVE  PoolCount' /\ ConnectionExclusive'
<1> DEFINE E == Connections \cup {Garbage}
<1>0. PICK c \in {Head(connectionList), Garbage} : conn' = [conn EXCEPT ![w] = c]
  BY DEF CopyFront
<1>1. connectionList \in Seq(E) /\ pc \in [Workers -> Labels]
      /\ conn \in [Workers -> Connections \cup {NoConnection, Garbage}]
  BY DEF TypeOK
<1>2. /\ Len(connectionList) > 0 /\ Len(connectionList) \in Nat
      /\ Len(connectionList') = Len(connectionList) - 1
      /\ \A i \in 1..Len(connectionList') : connectionList'[i] = connectionList[i + 1]
      /\ Head(connectionList) = connectionList[1]
      /\ DOMAIN connectionList = 1..Len(connectionList)
      /\ DOMAIN connectionList' = 1..Len(connectionList')
  BY <1>1
<1>3. Holders' = Holders \cup {w} /\ w \notin Holders
  BY <1>1 DEF Holders
<1>4. Cardinality(Holders') = Cardinality(Holders) + 1
  BY <1>3, HoldersFinite, FS_AddElement
<1>5. PoolCount'
  BY <1>2, <1>4, HoldersFinite DEF PoolCount
<1>6. \A i, j \in DOMAIN connectionList' :
        connectionList'[i] = connectionList'[j] => i = j \/ connectionList'[i] = Garbage
  BY <1>2 DEF ConnectionExclusive
<1>7. ASSUME NEW v \in Holders', conn'[v] \in Connections
      PROVE  /\ \A i \in DOMAIN connectionList' : connectionList'[i] # conn'[v]
             /\ \A u \in Holders' : conn'[u] = conn'[v] => u = v
  <2>1. Garbage \notin Connections
    BY DEF Garbage, Connections
  <2>2. CASE v = w
    <3>1. conn'[v] = connectionList[1] /\ connectionList[1] # Garbage
      BY <1>0, <1>1, <1>2, <1>7, <2>1, <2>2
    <3>2. \A i \in DOMAIN connectionList' : connectionList'[i] # conn'[v]
      BY <1>2, <3>1 DEF ConnectionExclusive
    <3>3. \A u \in Holders : conn[u] # connectionList[1]
      BY <1>2, <1>7, <3>1 DEF ConnectionExclusive
    <3>4. \A u \in Holders' : u # w => u \in Holders /\ conn'[u] = conn[u]
      BY <1>0, <1>1, <1>3 DEF Holders
    <3> QED
      BY <2>2, <3>1, <3>2, <3>3, <3>4
  <2>3. CASE v # w
    <3>1. v \in Holders /\ conn'[v] = conn[v]
      BY <1>0, <1>1, <1>3, <2>3 DEF Holders
    <3>2. \A i \in DOMAIN connectionList : connectionList[i] # conn[v]
      BY <1>7, <3>1 DEF ConnectionExclusive
    <3>3. \A u \in Holders : conn[u] = conn[v] => u = v
      BY <1>7, <3>1 DEF ConnectionExclusive
    <3>4. conn'[w] # conn[v]
      BY <1>0, <1>1, <1>2, <1>7, <2>1, <3>1, <3>2
    <3>5. \A u \in Holders' : u # w => u \in Holders /\ conn'[u] = conn[u]
      BY <1>0, <1>1, <1>3 DEF Holders
    <3> QED
      BY <1>2, <3>1, <3>2, <3>3, <3>4, <3>5
  <2> QED
    BY <2>2, <2>3
<1> QED
  BY <1>5, <1>6, <1>7 DEF ConnectionExclusive

(* A worker that gives its connection back.                                *)
LEMMA PoolFree ==
  ASSUME TypeOK, PoolCount, ConnectionExclusive, NEW w \in Workers,
         NEW next \in Labels \ Holding, pc[w] \in Holding,
         conn[w] \in Connections \cup {Garbage}, FreeConnection(w),
         pc' = [pc EXCEPT ![w] = next], opened' = opened
  PROVE  PoolCount' /\ ConnectionExclusive'
<1> DEFINE E == Connections \cup {Garbage}
<1>1. connectionList \in Seq(E) /\ pc \in [Workers -> Labels]
      /\ conn \in [Workers -> Connections \cup {NoConnection, Garbage}]
  BY DEF TypeOK
<1> DEFINE n == Len(connectionList)
<1>2. /\ n \in Nat /\ Len(connectionList') = n + 1
      /\ \A i \in 1..n : connectionList'[i] = connectionList[i]
      /\ connectionList'[n + 1] = conn[w]
      /\ DOMAIN connectionList = 1..n
      /\ DOMAIN connectionList' = 1..(n + 1)
  BY <1>1 DEF FreeConnection
<1>3. Holders' = Holders \ {w} /\ w \in Holders
  BY <1>1 DEF Holders
<1>4. Cardinality(Holders') = Cardinality(Holders) - 1
  BY <1>3, HoldersFinite, FS_RemoveElement
<1>5. PoolCount'
  BY <1>2, <1>4, HoldersFinite DEF PoolCount
<1> HIDE DEF n
<1>6. \A u \in Holders' : u \in Holders /\ u # w /\ conn'[u] = conn[u]
  BY <1>1, <1>3 DEF FreeConnection, Holders
<1>7. ASSUME NEW i \in DOMAIN connectionList', NEW j \in DOMAIN connectionList',
             connectionList'[i] = connectionList'[j]
      PROVE  i = j \/ connectionList'[i] = Garbage
  <2>1. CASE i \in 1..n /\ j \in 1..n
    BY <1>2, <1>7, <2>1 DEF ConnectionExclusive
  <2>2. CASE i = n + 1 \/ j = n + 1
    BY <1>2, <1>3, <1>7, <2>2 DEF ConnectionExclusive
  <2> QED
    BY <1>2, <2>1, <2>2
<1>8. ASSUME NEW v \in Holders', conn'[v] \in Connections
      PROVE  /\ \A i \in DOMAIN connectionList' : connectionList'[i] # conn'[v]
             /\ \A u \in Holders' : conn'[u] = conn'[v] => u = v
  BY <1>2, <1>3, <1>6, <1>8 DEF ConnectionExclusive
<1> QED
  BY <1>5, <1>7, <1>8 DEF ConnectionExclusive

(* Steps that leave the pool and the connections alone.                    *)
LEMMA PoolUnchanged ==
  ASSUME TypeOK, PoolCount, ConnectionExclusive, UNCHANGED poolVars,
         NEW w \in Workers, NEW next, next \in Holding <=> pc[w] \in Holding,
         pc' = [pc EXCEPT ![w] = next] \/ pc' = pc
  PROVE  PoolCount' /\ ConnectionExclusive'
<1>1. Holders' = Holders
  BY DEF Holders, TypeOK
<1> QED
  BY <1>1 DEF PoolCount, ConnectionExclusive, poolVars

(* The number of connections that were opened is a number.                 *)
LEMMA OpenedType ==
  ASSUME TypeOK PROVE opened \in Nat
<1>1. opened \in 0..PoolSize
  BY DEF TypeOK
<1> QED
  BY <1>1, ConstantsAssumption

(* Every step of a worker keeps the pool's invariants.                     *)
LEMMA PoolStep ==
  ASSUME TypeOK, WorkerInv, BatchInv, PoolCount, ConnectionExclusive, NeverRefused,
         [Next]_vars
  PROVE  PoolCount' /\ ConnectionExclusive' /\ NeverRefused'
<1> DEFINE P == PoolCount /\ ConnectionExclusive /\ NeverRefused
<1>1. ASSUME NEW w \in Workers, Receive(w) PROVE P'
  <2>1. \/ pc' = [pc EXCEPT ![w] = "insert"]
        \/ pc' = [pc EXCEPT ![w] = "procedure"]
        \/ pc' = [pc EXCEPT ![w] = "find"]
    BY <1>1 DEF Receive, Goto, Finish, threadVars
  <2>2. pc[w] \notin Holding /\ "insert" \notin Holding /\ "procedure" \notin Holding /\ "find" \notin Holding
    BY <1>1 DEF Receive, Running, Holding
  <2>3. UNCHANGED poolVars /\ (crashed' = crashed \/ crashed' = "odbc")
    BY <1>1 DEF Receive, poolVars
  <2> QED
    BY <2>1, <2>2, <2>3, PoolUnchanged DEF NeverRefused, poolVars
<1>2. ASSUME NEW w \in Workers, InsertBatchJob(w) PROVE P'
  <2>1. \/ pc' = [pc EXCEPT ![w] = "idle"]
    BY <1>2 DEF InsertBatchJob, Goto, Finish, threadVars
  <2>2. pc[w] \notin Holding /\ "idle" \notin Holding
    BY <1>2 DEF InsertBatchJob, Running, Holding
  <2>3. UNCHANGED poolVars /\ (crashed' = crashed \/ crashed' = "odbc")
    BY <1>2 DEF InsertBatchJob, poolVars
  <2> QED
    BY <2>1, <2>2, <2>3, PoolUnchanged DEF NeverRefused, poolVars
<1>3. ASSUME NEW w \in Workers, ProcedureHandleImpl(w) PROVE P'
  <2>1. CASE connectionList = <<>>
    <3>1. opened < Cardinality(Workers)
      <4>1. w \notin Holders
        BY <1>3 DEF ProcedureHandleImpl, Running, Holders, Holding
      <4>2. Len(connectionList) = 0
        BY <2>1
      <4>3. Cardinality(Workers) \in Nat
        BY ConstantsAssumption, FS_CardinalityType
      <4> QED
        BY <4>1, <4>2, <4>3, HoldersFinite DEF PoolCount
    <3>2. UNCHANGED <<pc, conn, connectionList, opened>>
      BY <1>3, <2>1 DEF ProcedureHandleImpl, GetConnection, threadVars
    <3>3. ~(opened >= Cardinality(Workers))
      <4>1. opened \in Nat
        BY OpenedType
      <4>2. Cardinality(Workers) \in Nat
        BY ConstantsAssumption, FS_CardinalityType
      <4> QED
        BY <3>1, <4>1, <4>2
    <3> QED
      BY <3>2, <3>3 DEF PoolCount, ConnectionExclusive, NeverRefused, Holders
  <2>2. CASE connectionList # <<>>
    <3>1. /\ CopyFront(w)
          /\ connectionList' = Tail(connectionList)
          /\ pc' = [pc EXCEPT ![w] = "procedureEnd"]
          /\ UNCHANGED <<opened, crashed>>
      BY <1>3, <2>2 DEF ProcedureHandleImpl, GetConnection, Goto
    <3>2. pc[w] \notin Holding /\ "procedureEnd" \in Holding
      BY <1>3 DEF ProcedureHandleImpl, Running, Holding
    <3> QED
      BY <2>2, <3>1, <3>2, PoolGet DEF NeverRefused
  <2> QED
    BY <2>1, <2>2
<1>4. ASSUME NEW w \in Workers, ProcedureEnd(w) PROVE P'
  <2>1. FreeConnection(w) /\ pc' = [pc EXCEPT ![w] = "find"] /\ UNCHANGED <<opened, crashed>>
    BY <1>4 DEF ProcedureEnd, Goto, Finish
  <2>2. pc[w] \in Holding /\ "find" \in Labels \ Holding
    BY <1>4 DEF ProcedureEnd, Running, Labels, Holding
  <2>3. conn[w] \in Connections \cup {Garbage}
    BY <2>2, Stages
  <2> QED
    BY <2>1, <2>2, <2>3, PoolFree DEF NeverRefused
<1>5. ASSUME NEW w \in Workers, IsBatchJobWaitingJob(w) PROVE P'
  <2>1. \/ pc' = [pc EXCEPT ![w] = "take"]
        \/ pc' = [pc EXCEPT ![w] = "idle"]
    BY <1>5 DEF IsBatchJobWaitingJob, Goto, Finish, threadVars
  <2>2. pc[w] \notin Holding /\ "take" \notin Holding /\ "idle" \notin Holding
    BY <1>5 DEF IsBatchJobWaitingJob, Running, Holding
  <2>3. UNCHANGED poolVars /\ (crashed' = crashed \/ crashed' = "odbc")
    BY <1>5 DEF IsBatchJobWaitingJob, poolVars
  <2> QED
    BY <2>1, <2>2, <2>3, PoolUnchanged DEF NeverRefused, poolVars
<1>6. ASSUME NEW w \in Workers, TakeBatch(w) PROVE P'
  <2>1. \/ pc' = [pc EXCEPT ![w] = "append"]
        \/ pc' = [pc EXCEPT ![w] = "idle"]
    BY <1>6 DEF TakeBatch, Goto, Finish, threadVars
  <2>2. pc[w] \notin Holding /\ "append" \notin Holding /\ "idle" \notin Holding
    BY <1>6 DEF TakeBatch, Running, Holding
  <2>3. UNCHANGED poolVars /\ (crashed' = crashed \/ crashed' = "odbc")
    BY <1>6 DEF TakeBatch, poolVars
  <2> QED
    BY <2>1, <2>2, <2>3, PoolUnchanged DEF NeverRefused, poolVars
<1>7. ASSUME NEW w \in Workers, AppendItem(w) PROVE P'
  <2>1. \/ pc' = [pc EXCEPT ![w] = "compare"]
    BY <1>7 DEF AppendItem, Goto, Finish, threadVars
  <2>2. pc[w] \notin Holding /\ "compare" \notin Holding
    BY <1>7 DEF AppendItem, Running, Holding
  <2>3. UNCHANGED poolVars /\ (crashed' = crashed \/ crashed' = "odbc")
    BY <1>7 DEF AppendItem, poolVars
  <2> QED
    BY <2>1, <2>2, <2>3, PoolUnchanged DEF NeverRefused, poolVars
<1>8. ASSUME NEW w \in Workers, CompareSize(w) PROVE P'
  <2>1. \/ pc' = [pc EXCEPT ![w] = "batch"]
        \/ pc' = [pc EXCEPT ![w] = "idle"]
    BY <1>8 DEF CompareSize, Goto, Finish, threadVars
  <2>2. pc[w] \notin Holding /\ "batch" \notin Holding /\ "idle" \notin Holding
    BY <1>8 DEF CompareSize, Running, Holding
  <2>3. UNCHANGED poolVars /\ (crashed' = crashed \/ crashed' = "odbc")
    BY <1>8 DEF CompareSize, poolVars
  <2> QED
    BY <2>1, <2>2, <2>3, PoolUnchanged DEF NeverRefused, poolVars
<1>9. ASSUME NEW w \in Workers, DoBatchedJob(w) PROVE P'
  <2>1. CASE connectionList = <<>>
    <3>1. opened < Cardinality(Workers)
      <4>1. w \notin Holders
        BY <1>9 DEF DoBatchedJob, Running, Holders, Holding
      <4>2. Len(connectionList) = 0
        BY <2>1
      <4>3. Cardinality(Workers) \in Nat
        BY ConstantsAssumption, FS_CardinalityType
      <4> QED
        BY <4>1, <4>2, <4>3, HoldersFinite DEF PoolCount
    <3>2. UNCHANGED <<pc, conn, connectionList, opened>>
      BY <1>9, <2>1 DEF DoBatchedJob, GetConnection, threadVars
    <3>3. ~(opened >= Cardinality(Workers))
      <4>1. opened \in Nat
        BY OpenedType
      <4>2. Cardinality(Workers) \in Nat
        BY ConstantsAssumption, FS_CardinalityType
      <4> QED
        BY <3>1, <4>1, <4>2
    <3> QED
      BY <3>2, <3>3 DEF PoolCount, ConnectionExclusive, NeverRefused, Holders
  <2>2. CASE connectionList # <<>>
    <3>1. /\ CopyFront(w)
          /\ connectionList' = Tail(connectionList)
          /\ pc' = [pc EXCEPT ![w] = "manual"]
          /\ UNCHANGED <<opened, crashed>>
      BY <1>9, <2>2 DEF DoBatchedJob, GetConnection, Goto
    <3>2. pc[w] \notin Holding /\ "manual" \in Holding
      BY <1>9 DEF DoBatchedJob, Running, Holding
    <3> QED
      BY <2>2, <3>1, <3>2, PoolGet DEF NeverRefused
  <2> QED
    BY <2>1, <2>2
<1>10. ASSUME NEW w \in Workers, SetManualCommit(w) PROVE P'
  <2>1. \/ pc' = [pc EXCEPT ![w] = "job"]
        \/ pc' = pc
    BY <1>10 DEF SetManualCommit, Goto, Finish, threadVars
  <2>2. pc[w] \in Holding /\ "job" \in Holding
    BY <1>10 DEF SetManualCommit, Running, Holding
  <2>3. UNCHANGED poolVars /\ (crashed' = crashed \/ crashed' = "odbc")
    BY <1>10 DEF SetManualCommit, poolVars
  <2> QED
    BY <2>1, <2>2, <2>3, PoolUnchanged DEF NeverRefused, poolVars
<1>11. ASSUME NEW w \in Workers, HandleJob(w) PROVE P'
  <2>1. \/ pc' = [pc EXCEPT ![w] = "commit"]
        \/ pc' = pc
    BY <1>11 DEF HandleJob, Goto, Finish, threadVars
  <2>2. pc[w] \in Holding /\ "commit" \in Holding
    BY <1>11 DEF HandleJob, Running, Holding
  <2>3. UNCHANGED poolVars /\ (crashed' = crashed \/ crashed' = "odbc")
    BY <1>11 DEF HandleJob, poolVars
  <2> QED
    BY <2>1, <2>2, <2>3, PoolUnchanged DEF NeverRefused, poolVars
<1>12. ASSUME NEW w \in Workers, EndTran(w) PROVE P'
  <2>1. \/ pc' = [pc EXCEPT ![w] = "reply"]
        \/ pc' = pc
    BY <1>12 DEF EndTran, Goto, Finish, threadVars
  <2>2. pc[w] \in Holding /\ "reply" \in Holding
    BY <1>12 DEF EndTran, Running, Holding
  <2>3. UNCHANGED poolVars /\ (crashed' = crashed \/ crashed' = "odbc")
    BY <1>12 DEF EndTran, poolVars
  <2> QED
    BY <2>1, <2>2, <2>3, PoolUnchanged DEF NeverRefused, poolVars
<1>13. ASSUME NEW w \in Workers, Reply(w) PROVE P'
  <2>1. \/ pc' = [pc EXCEPT ![w] = "auto"]
    BY <1>13 DEF Reply, Goto, Finish, threadVars
  <2>2. pc[w] \in Holding /\ "auto" \in Holding
    BY <1>13 DEF Reply, Running, Holding
  <2>3. UNCHANGED poolVars /\ (crashed' = crashed \/ crashed' = "odbc")
    BY <1>13 DEF Reply, poolVars
  <2> QED
    BY <2>1, <2>2, <2>3, PoolUnchanged DEF NeverRefused, poolVars
<1>14. ASSUME NEW w \in Workers, SetAutocommit(w) PROVE P'
  <2>1. \/ pc' = [pc EXCEPT ![w] = "free"]
    BY <1>14 DEF SetAutocommit, Goto, Finish, threadVars
  <2>2. pc[w] \in Holding /\ "free" \in Holding
    BY <1>14 DEF SetAutocommit, Running, Holding
  <2>3. UNCHANGED poolVars /\ (crashed' = crashed \/ crashed' = "odbc")
    BY <1>14 DEF SetAutocommit, poolVars
  <2> QED
    BY <2>1, <2>2, <2>3, PoolUnchanged DEF NeverRefused, poolVars
<1>15. ASSUME NEW w \in Workers, BatchEnd(w) PROVE P'
  <2>1. FreeConnection(w) /\ pc' = [pc EXCEPT ![w] = "idle"] /\ UNCHANGED <<opened, crashed>>
    BY <1>15 DEF BatchEnd, Goto, Finish
  <2>2. pc[w] \in Holding /\ "idle" \in Labels \ Holding
    BY <1>15 DEF BatchEnd, Running, Labels, Holding
  <2>3. conn[w] \in Connections \cup {Garbage}
    BY <2>2, Stages
  <2> QED
    BY <2>1, <2>2, <2>3, PoolFree DEF NeverRefused
<1>16. CASE UNCHANGED vars
  BY <1>16 DEF vars, PoolCount, ConnectionExclusive, NeverRefused, Holders
<1> QED
  BY <1>1, <1>2, <1>3, <1>4, <1>5, <1>6, <1>7, <1>8, <1>9, <1>10, <1>11, <1>12, <1>13,
       <1>14, <1>15, <1>16, NextCases

-----------------------------------------------------------------------------
(* The batches and the connections' transactions.                          *)

(* The types the following steps need.                                     *)
LEMMA BatchTypes ==
  ASSUME TypeOK
  PROVE  /\ pc \in [Workers -> Labels] /\ job \in [Workers -> Batches \cup {NoBatch}]
         /\ packet \in [Workers -> PacketType]
         /\ conn \in [Workers -> Connections \cup {NoConnection, Garbage}]
         /\ bufferList \in [Batches -> Seq(Channels \cup {NoChannel})]
         /\ batchSize \in [Batches -> Nat] /\ committed \in [Batches -> Nat]
         /\ answers \in [Batches -> Nat]
         /\ transaction \in [Connections -> Seq(Batches)]
         /\ autocommit \in [Connections -> BOOLEAN]
         /\ announced \in Nat
         /\ \A k \in DOMAIN batchedDBJobMap : batchedDBJobMap[k] \in Batches
         /\ NoBatch \notin Batches /\ NoBatch <= announced
         /\ 1..announced \subseteq Batches /\ Batches \subseteq Nat
<1>1. announced \in 0..MaxBatches
  BY DEF TypeOK
<1>2. MaxBatches \in Nat
  BY ConstantsAssumption
<1>3. announced \in Nat /\ announced <= MaxBatches
  BY <1>1, <1>2
<1>4. /\ NoBatch \notin Batches /\ NoBatch <= announced
      /\ 1..announced \subseteq Batches /\ Batches \subseteq Nat
  BY <1>2, <1>3 DEF Batches, NoBatch
<1> QED
  BY <1>3, <1>4 DEF TypeOK

(* A worker that touches no batch but its own, and takes none, leaves the  *)
(* others' as they were.                                                   *)
LEMMA BatchKept ==
  ASSUME TypeOK, BatchInv, NEW w \in Workers,
         UNCHANGED <<batchedDBJobMap, announced>>,
         \A b \in Batches : b # job[w] =>
           /\ bufferList'[b] = bufferList[b]
           /\ committed'[b] = committed[b] /\ answers'[b] = answers[b],
         \A v \in Workers : job'[v] = job[v] \/ job'[v] = NoBatch,
         \A v \in Workers : pc'[v] = "insert" => pc[v] = "insert" /\ packet'[v] = packet[v]
  PROVE  BatchInv'
<1> USE BatchTypes
<1>1. BatchExclusive'
  BY DEF BatchInv, BatchExclusive
<1>2. InsertsInv'
  <2> SUFFICES ASSUME NEW v \in Workers, pc'[v] = "insert" PROVE Inserts(v)'
    BY DEF InsertsInv
  <2>1. pc[v] = "insert" /\ packet'[v] = packet[v] /\ Inserts(v)
    BY DEF BatchInv, InsertsInv
  <2>2. packet[v].batch \in Batches
    BY <2>1 DEF Inserts
  <2>3. Fresh(packet[v].batch)'
    BY <2>1, <2>2 DEF Inserts, Fresh
  <2>4. \A u \in Workers : job'[u] # packet[v].batch
    BY <2>1, <2>2 DEF Inserts
  <2>5. \A u \in Workers : pc'[u] = "insert" /\ packet'[u].batch = packet[v].batch => u = v
    BY <2>1 DEF Inserts
  <2> QED
    BY <2>1, <2>3, <2>4, <2>5 DEF Inserts
<1>3. UnannouncedFresh'
  <2> SUFFICES ASSUME NEW b \in Batches, b > announced PROVE Fresh(b)'
    BY DEF UnannouncedFresh
  <2>1. Fresh(b) /\ job[w] <= announced
    BY DEF BatchInv, UnannouncedFresh, JobsAnnounced
  <2>2. b # job[w]
    BY <2>1
  <2> QED
    BY <2>1, <2>2 DEF Fresh
<1>4. JobsAnnounced'
  <2> SUFFICES ASSUME NEW v \in Workers PROVE job'[v] <= announced
    BY DEF JobsAnnounced
  <2>1. job[v] <= announced
    BY DEF BatchInv, JobsAnnounced
  <2> QED
    BY <2>1
<1>5. WaitingInv'
  <2> SUFFICES ASSUME NEW k \in DOMAIN batchedDBJobMap
               PROVE  Fresh(batchedDBJobMap[k])'
    BY DEF BatchInv, WaitingInv
  <2>1. batchedDBJobMap[k] \in Batches /\ Fresh(batchedDBJobMap[k])
    BY DEF BatchInv, WaitingInv
  <2>2. batchedDBJobMap[k] # job[w]
    <3>1. CASE job[w] = NoBatch
      BY <2>1, <3>1 DEF Batches, NoBatch
    <3>2. CASE job[w] # NoBatch
      BY <3>2 DEF BatchInv, BatchExclusive
    <3> QED
      BY <3>1, <3>2
  <2> QED
    BY <2>1, <2>2 DEF Fresh
<1> QED
  BY <1>1, <1>2, <1>3, <1>4, <1>5 DEF BatchInv

(* A worker that has just taken a packet.                                  *)
LEMMA ReceiveSummary ==
  ASSUME TypeOK, NEW w \in Workers, Receive(w)
  PROVE  /\ \E p : packet' = [packet EXCEPT ![w] = p] /\
               \/ /\ p.batch = announced + 1 /\ announced + 1 \in Batches
                  /\ announced' = announced + 1
                  /\ pc' = [pc EXCEPT ![w] = "insert"]
               \/ /\ announced' = announced
                  /\ \/ pc' = [pc EXCEPT ![w] = "procedure"]
                     \/ pc' = [pc EXCEPT ![w] = "find"]
         /\ pc[w] = "idle"
         /\ UNCHANGED <<job, batchedDBJobMap, batchSize, bufferList, poolVars, odbcVars>>
<1>1. announced \in 0..MaxBatches /\ MaxBatches \in Nat
  BY ConstantsAssumption DEF TypeOK
<1>2. announced < MaxBatches => announced + 1 \in Batches
  BY <1>1 DEF Batches
<1>3. PICK c \in Channels, k \in Keys :
        \/ /\ announced < MaxBatches /\ announced' = announced + 1
           /\ \E m \in BatchSizes : packet' = [packet EXCEPT ![w] =
                [channel |-> c, key |-> k, batch |-> announced', size |-> m]]
           /\ pc' = [pc EXCEPT ![w] = "insert"]
        \/ /\ packet' = [packet EXCEPT ![w] =
                [channel |-> c, key |-> k, batch |-> NoBatch, size |-> 0]]
           /\ pc' = [pc EXCEPT ![w] = IF k = NoBatchKey THEN "procedure" ELSE "find"]
           /\ UNCHANGED announced
  BY DEF Receive
<1>4. CASE /\ announced < MaxBatches /\ announced' = announced + 1
           /\ \E m \in BatchSizes : packet' = [packet EXCEPT ![w] =
                [channel |-> c, key |-> k, batch |-> announced', size |-> m]]
           /\ pc' = [pc EXCEPT ![w] = "insert"]
  <2>1. PICK m \in BatchSizes : packet' = [packet EXCEPT ![w] =
                [channel |-> c, key |-> k, batch |-> announced', size |-> m]]
    BY <1>4
  <2>2. [channel |-> c, key |-> k, batch |-> announced', size |-> m].batch = announced + 1
    BY <1>4
  <2> QED
    BY <1>2, <1>4, <2>1, <2>2 DEF Receive, Running
<1>5. CASE /\ packet' = [packet EXCEPT ![w] =
                [channel |-> c, key |-> k, batch |-> NoBatch, size |-> 0]]
           /\ pc' = [pc EXCEPT ![w] = IF k = NoBatchKey THEN "procedure" ELSE "find"]
           /\ UNCHANGED announced
  BY <1>5 DEF Receive, Running
<1> QED
  BY <1>3, <1>4, <1>5

(* After a commit of its one job a batch has one more committed job, and   *)
(* no other batch has.                                                     *)
LEMMA CommitOne ==
  ASSUME NEW b \in Batches, NEW a \in Batches
  PROVE  Cardinality({i \in DOMAIN <<b>> : <<b>>[i] = a}) = IF a = b THEN 1 ELSE 0
<1>1. CASE a = b
  <2>1. {i \in DOMAIN <<b>> : <<b>>[i] = a} = {1}
    BY <1>1
  <2> QED
    BY <1>1, <2>1, FS_Singleton
<1>2. CASE a # b
  <2>1. {i \in DOMAIN <<b>> : <<b>>[i] = a} = {}
    BY <1>2
  <2> QED
    BY <1>2, <2>1, FS_EmptySet
<1> QED
  BY <1>1, <1>2

(* Every step of a worker keeps the batches' and transactions' invariants. *)
LEMMA BatchStep ==
  ASSUME TypeOK, WorkerInv, BatchInv, ConnectionExclusive, TransactionInv, HistoryInv,
         [Next]_vars
  PROVE  WorkerInv' /\ BatchInv' /\ TransactionInv' /\ HistoryInv'
<1> DEFINE Goal == WorkerInv /\ BatchInv /\ TransactionInv /\ HistoryInv
<1>1. ASSUME NEW w \in Workers, Receive(w) PROVE Goal'
  <2>0. /\ \E p : packet' = [packet EXCEPT ![w] = p] /\
               \/ /\ p.batch = announced + 1 /\ announced + 1 \in Batches
                  /\ announced' = announced + 1
                  /\ pc' = [pc EXCEPT ![w] = "insert"]
               \/ /\ announced' = announced
                  /\ \/ pc' = [pc EXCEPT ![w] = "procedure"]
                     \/ pc' = [pc EXCEPT ![w] = "find"]
        /\ pc[w] = "idle"
        /\ UNCHANGED <<job, batchedDBJobMap, batchSize, bufferList, poolVars, odbcVars>>
    BY <1>1, ReceiveSummary
  <2> USE BatchTypes, <2>0 DEF batchVars, poolVars, odbcVars
  <2>1. \A v \in Workers : HasBatch(v)'
    BY DEF HasBatch, WorkerInv, Adding, Executing, Batches, NoBatch, Labels, Holding
  <2>2. \A v \in Workers : HasConnection(v)'
    BY DEF HasConnection, WorkerInv, Holding, Labels, Connections, NoConnection, Garbage
  <2>3. \A v \in Workers : BatchProgress(v)'
    BY DEF WorkerInv, HasBatch, BatchProgress, BatchInv, BatchExclusive,
           InsertsInv, WaitingInv, Fresh, Inserts, Adding, Executing, Labels, Holding
  <2>4. \A v \in Workers : ConnectionProgress(v)'
    BY DEF WorkerInv, HasConnection, ConnectionProgress, ConnectionExclusive,
           Holders, Holding, TransactionInv, Labels
  <2>51. PICK p : packet' = [packet EXCEPT ![w] = p] /\
               \/ /\ p.batch = announced + 1 /\ announced + 1 \in Batches
                  /\ announced' = announced + 1
                  /\ pc' = [pc EXCEPT ![w] = "insert"]
               \/ /\ announced' = announced
                  /\ \/ pc' = [pc EXCEPT ![w] = "procedure"]
                     \/ pc' = [pc EXCEPT ![w] = "find"]
    OBVIOUS
  <2>50. announced' \in Nat /\ announced' >= announced
    BY <2>51
  <2>52. BatchExclusive'
    BY DEF BatchInv, BatchExclusive
  <2>54. UnannouncedFresh'
    BY <2>50 DEF BatchInv, UnannouncedFresh, Fresh
  <2>55. JobsAnnounced'
    <3> SUFFICES ASSUME NEW v \in Workers PROVE job'[v] <= announced'
      BY DEF JobsAnnounced
    <3>1. job[v] <= announced /\ job[v] \in Nat
      BY DEF BatchInv, JobsAnnounced, NoBatch
    <3>2. announced \in Nat /\ job' = job
      OBVIOUS
    <3> QED
      BY <2>50, <3>1, <3>2
  <2>56. WaitingInv'
    BY <2>50 DEF BatchInv, WaitingInv, Fresh
  <2>53. InsertsInv'
    <3> SUFFICES ASSUME NEW v \in Workers, pc'[v] = "insert" PROVE Inserts(v)'
      BY DEF InsertsInv
    <3>1. \A u \in Workers : pc[u] = "insert" => packet[u].batch \in 1..announced
      BY DEF BatchInv, InsertsInv, Inserts
    <3>2. CASE v = w
      <4>1. packet'[v].batch = announced + 1 /\ announced + 1 \in Batches
            /\ announced' = announced + 1
        BY <2>51, <3>2
      <4>2. Fresh(announced + 1)
        BY <4>1 DEF BatchInv, UnannouncedFresh
      <4>3. \A u \in Workers : job[u] # announced + 1
        BY DEF BatchInv, JobsAnnounced, Batches, NoBatch
      <4>4. \A k \in DOMAIN batchedDBJobMap : batchedDBJobMap[k] # announced + 1
        BY DEF BatchInv, WaitingInv, Batches
      <4>5. \A u \in Workers : u # w /\ pc'[u] = "insert" => packet'[u].batch # announced + 1
        BY <2>51, <3>1
      <4> QED
        BY <3>2, <4>1, <4>2, <4>3, <4>4, <4>5 DEF Inserts, Fresh, odbcVars
    <3>3. CASE v # w
      <4>1. pc[v] = "insert" /\ packet'[v] = packet[v] /\ Inserts(v)
        BY <2>51, <3>3 DEF BatchInv, InsertsInv
      <4>2. packet[v].batch \in 1..announced'
        BY <2>51, <3>1, <4>1
      <4>3. \A u \in Workers : pc'[u] = "insert" /\ packet'[u].batch = packet[v].batch => u = v
        <5> SUFFICES ASSUME NEW u \in Workers, pc'[u] = "insert",
                            packet'[u].batch = packet[v].batch
                     PROVE  u = v
          OBVIOUS
        <5>1. CASE u = w
          <6>1. pc'[w] = "insert" => packet'[w].batch = announced + 1
            BY <2>51
          <6> QED
            BY <3>1, <4>1, <5>1, <6>1
        <5>2. CASE u # w
          <6>1. pc[u] = "insert" /\ packet'[u] = packet[u]
            BY <2>51, <5>2
          <6> QED
            BY <4>1, <6>1 DEF Inserts
        <5> QED
          BY <5>1, <5>2
      <4> QED
        BY <4>1, <4>2, <4>3 DEF Inserts, Fresh, odbcVars
    <3> QED
      BY <3>2, <3>3
  <2>5. BatchInv'
    BY <2>52, <2>53, <2>54, <2>55, <2>56 DEF BatchInv
  <2>6. TransactionInv'
    BY DEF TransactionInv, WorkerInv, ConnectionProgress
  <2>7. HistoryInv'
    BY DEF HistoryInv, WorkerInv, BatchProgress, BatchInv, Fresh, InsertsInv, Inserts
  <2> QED
    BY <2>1, <2>2, <2>3, <2>4, <2>5, <2>6, <2>7 DEF WorkerInv
<1>2. ASSUME NEW w \in Workers, InsertBatchJob(w) PROVE Goal'
  <2>0. /\ pc[w] = "insert" /\ pc' = [pc EXCEPT ![w] = "idle"]
        /\ packet' = [packet EXCEPT ![w] = NoPacket] /\ job' = [job EXCEPT ![w] = NoBatch]
        /\ UNCHANGED <<bufferList, announced, poolVars, odbcVars>>
        /\ \/ UNCHANGED <<batchedDBJobMap, batchSize>>
           \/ /\ packet[w].key \notin DOMAIN batchedDBJobMap
              /\ batchedDBJobMap' = [j \in DOMAIN batchedDBJobMap \cup {packet[w].key} |->
                   IF j = packet[w].key THEN packet[w].batch ELSE batchedDBJobMap[j]]
              /\ batchSize' = [batchSize EXCEPT ![packet[w].batch] = StoredSize(packet[w].size)]
    BY <1>2 DEF InsertBatchJob, Running, Finish
  <2> USE BatchTypes, <2>0 DEF batchVars, poolVars, odbcVars
  <2>1. \A v \in Workers : HasBatch(v)'
    BY DEF HasBatch, WorkerInv, Adding, Executing, Batches, NoBatch, Labels, Holding
  <2>2. \A v \in Workers : HasConnection(v)'
    BY DEF HasConnection, WorkerInv, Holding, Labels, Connections, NoConnection, Garbage
  <2>3. \A v \in Workers : BatchProgress(v)'
    <3>1. packet[w].batch \in Batches /\ Inserts(w) /\ job[w] = NoBatch
      BY <1>2, Stages DEF InsertBatchJob, Running, BatchInv, InsertsInv, WorkerInv,
           HasBatch,
                            Adding, Executing
    <3>2. \A v \in Workers : pc'[v] # "idle" =>
            /\ v # w /\ pc'[v] = pc[v] /\ job'[v] = job[v] /\ BatchProgress(v)
            /\ (pc[v] \in Executing => batchSize'[job[v]] = batchSize[job[v]])
      <4> SUFFICES ASSUME NEW v \in Workers, pc'[v] # "idle"
                   PROVE  /\ v # w /\ pc'[v] = pc[v] /\ job'[v] = job[v] /\ BatchProgress(v)
                          /\ (pc[v] \in Executing => batchSize'[job[v]] = batchSize[job[v]])
        OBVIOUS
      <4>1. v # w /\ pc'[v] = pc[v] /\ job'[v] = job[v] /\ BatchProgress(v)
        BY DEF WorkerInv
      <4>2. job[v] # packet[w].batch
        BY <3>1 DEF Inserts
      <4>3. pc[v] \in Executing => job[v] \in Batches
        BY Stages
      <4> QED
        BY <4>1, <4>2, <4>3
    <3> QED
      BY <3>2 DEF BatchProgress, Executing
  <2>4. \A v \in Workers : ConnectionProgress(v)'
    BY DEF WorkerInv, HasConnection, ConnectionProgress, ConnectionExclusive,
           Holders, Holding, TransactionInv, Labels
  <2>51. packet[w].batch \in Batches /\ Inserts(w) /\ job[w] = NoBatch
    BY <1>2, Stages DEF InsertBatchJob, Running, BatchInv, InsertsInv, WorkerInv,
         HasBatch,
                          Adding, Executing
  <2>52. \A v \in Workers : pc'[v] = "insert" =>
           v # w /\ pc[v] = "insert" /\ packet'[v] = packet[v] /\ Inserts(v)
    BY DEF BatchInv, InsertsInv
  <2>53. \A v \in Workers : job'[v] = job[v]
    BY <2>51
  <2>54. ASSUME UNCHANGED batchedDBJobMap PROVE BatchInv'
    <3>1. \A v \in Workers : job'[v] = job[v] \/ job'[v] = NoBatch
      BY <2>53
    <3>2. \A v \in Workers : pc'[v] = "insert" => pc[v] = "insert" /\ packet'[v] = packet[v]
      BY <2>52
    <3>3. UNCHANGED <<batchedDBJobMap, announced>>
      BY <2>54
    <3>4. \A b \in Batches : b # job[w] =>
            /\ bufferList'[b] = bufferList[b]
            /\ committed'[b] = committed[b] /\ answers'[b] = answers[b]
      OBVIOUS
    <3> QED
      BY <3>1, <3>2, <3>3, <3>4, BatchKept
  <2>55. ASSUME packet[w].key \notin DOMAIN batchedDBJobMap,
                batchedDBJobMap' = [j \in DOMAIN batchedDBJobMap \cup {packet[w].key} |->
                   IF j = packet[w].key THEN packet[w].batch ELSE batchedDBJobMap[j]]
         PROVE  BatchInv'
    <3>1. \A k \in DOMAIN batchedDBJobMap' :
            \/ k = packet[w].key /\ batchedDBJobMap'[k] = packet[w].batch
            \/ k # packet[w].key /\ k \in DOMAIN batchedDBJobMap
               /\ batchedDBJobMap'[k] = batchedDBJobMap[k]
      BY <2>55
    <3>2. \A k \in DOMAIN batchedDBJobMap : batchedDBJobMap[k] # packet[w].batch
      BY <2>51 DEF Inserts
    <3>3. BatchExclusive'
      <4> SUFFICES ASSUME NEW v \in Workers, job'[v] # NoBatch
                   PROVE  /\ \A k \in DOMAIN batchedDBJobMap' : batchedDBJobMap'[k] # job'[v]
                          /\ \A u \in Workers : job'[u] = job'[v] => u = v
        BY DEF BatchExclusive
      <4>1. /\ \A k \in DOMAIN batchedDBJobMap : batchedDBJobMap[k] # job[v]
            /\ \A u \in Workers : job[u] = job[v] => u = v
        BY <2>53 DEF BatchInv, BatchExclusive
      <4>2. job[v] # packet[w].batch
        BY <2>51 DEF Inserts
      <4> QED
        BY <2>53, <3>1, <4>1, <4>2
    <3>4. InsertsInv'
      <4> SUFFICES ASSUME NEW v \in Workers, pc'[v] = "insert" PROVE Inserts(v)'
        BY DEF InsertsInv
      <4>1. v # w /\ pc[v] = "insert" /\ packet'[v] = packet[v] /\ Inserts(v)
        BY <2>52
      <4>2. packet[v].batch # packet[w].batch
        BY <2>51, <4>1 DEF Inserts
      <4>3. \A k \in DOMAIN batchedDBJobMap' : batchedDBJobMap'[k] # packet[v].batch
        BY <3>1, <4>1, <4>2 DEF Inserts
      <4>4. \A u \in Workers : job'[u] # packet[v].batch
        BY <2>53, <4>1 DEF Inserts
      <4>5. \A u \in Workers : pc'[u] = "insert" /\ packet'[u].batch = packet[v].batch => u = v
        BY <2>52, <4>1 DEF Inserts
      <4> QED
        BY <4>1, <4>3, <4>4, <4>5 DEF Inserts, Fresh
    <3>5. UnannouncedFresh' /\ JobsAnnounced'
      BY <2>53 DEF BatchInv, UnannouncedFresh, JobsAnnounced, Fresh
    <3>6. WaitingInv'
      BY <2>51, <3>1, <3>2 DEF BatchInv, WaitingInv, Inserts, Fresh
    <3> QED
      BY <3>3, <3>4, <3>5, <3>6 DEF BatchInv
  <2>5. BatchInv'
    BY <2>0, <2>54, <2>55
  <2>6. TransactionInv'
    BY DEF TransactionInv, WorkerInv, ConnectionProgress
  <2>7. HistoryInv'
    BY DEF HistoryInv, WorkerInv, BatchProgress, BatchInv, Fresh, InsertsInv, Inserts
  <2> QED
    BY <2>1, <2>2, <2>3, <2>4, <2>5, <2>6, <2>7 DEF WorkerInv
<1>3. ASSUME NEW w \in Workers, ProcedureHandleImpl(w) PROVE Goal'
  <2>0. /\ \/ UNCHANGED <<pc, job, packet, conn>>
           \/ \E c \in Connections \cup {Garbage} :
                /\ conn' = [conn EXCEPT ![w] = c] /\ pc' = [pc EXCEPT ![w] = "procedureEnd"]
                /\ UNCHANGED <<job, packet>>
        /\ pc[w] = "procedure"
        /\ UNCHANGED <<received, batchVars, opened, odbcVars>>
    BY <1>3, PoolTypes DEF ProcedureHandleImpl, GetConnection, CopyFront, Goto, Running, threadVars
  <2> USE BatchTypes, <2>0 DEF batchVars, odbcVars
  <2>1. \A v \in Workers : HasBatch(v)'
    BY DEF HasBatch, WorkerInv, Adding, Executing, Batches, NoBatch, Labels, Holding
  <2>2. \A v \in Workers : HasConnection(v)'
    BY DEF HasConnection, WorkerInv, Holding, Labels, Connections, NoConnection, Garbage
  <2>3. \A v \in Workers : BatchProgress(v)'
    BY DEF WorkerInv, HasBatch, BatchProgress, BatchInv, BatchExclusive,
           InsertsInv, WaitingInv, Fresh, Inserts, Adding, Executing, Labels, Holding
  <2>4. \A v \in Workers : ConnectionProgress(v)'
    BY DEF WorkerInv, HasConnection, ConnectionProgress, ConnectionExclusive,
           Holders, Holding, TransactionInv, Labels
  <2>5. BatchInv'
    <3>1. UNCHANGED <<batchedDBJobMap, announced>>
      OBVIOUS
    <3>2. \A b \in Batches : b # job[w] =>
            /\ bufferList'[b] = bufferList[b]
            /\ committed'[b] = committed[b] /\ answers'[b] = answers[b]
      OBVIOUS
    <3>3. \A v \in Workers : job'[v] = job[v] \/ job'[v] = NoBatch
      OBVIOUS
    <3>4. \A v \in Workers : pc'[v] = "insert" => pc[v] = "insert" /\ packet'[v] = packet[v]
      OBVIOUS
    <3> QED
      BY <3>1, <3>2, <3>3, <3>4, BatchKept
  <2>6. TransactionInv'
    BY DEF TransactionInv, WorkerInv, ConnectionProgress
  <2>7. HistoryInv'
    BY DEF HistoryInv, WorkerInv, BatchProgress, BatchInv, Fresh, InsertsInv, Inserts
  <2> QED
    BY <2>1, <2>2, <2>3, <2>4, <2>5, <2>6, <2>7 DEF WorkerInv
<1>4. ASSUME NEW w \in Workers, ProcedureEnd(w) PROVE Goal'
  <2> USE BatchTypes, Stages, <1>4 DEF ProcedureEnd, Running, Goto, Finish,
       FreeConnection, threadVars,
           batchVars, poolVars, odbcVars
  <2>1. \A v \in Workers : HasBatch(v)'
    BY DEF HasBatch, WorkerInv, Adding, Executing, Batches, NoBatch, Labels, Holding
  <2>2. \A v \in Workers : HasConnection(v)'
    BY DEF HasConnection, WorkerInv, Holding, Labels, Connections, NoConnection, Garbage
  <2>3. \A v \in Workers : BatchProgress(v)'
    BY DEF WorkerInv, HasBatch, BatchProgress, BatchInv, BatchExclusive,
           InsertsInv, WaitingInv, Fresh, Inserts, Adding, Executing, Labels, Holding
  <2>4. \A v \in Workers : ConnectionProgress(v)'
    BY DEF WorkerInv, HasConnection, ConnectionProgress, ConnectionExclusive,
           Holders, Holding, TransactionInv, Labels
  <2>5. BatchInv'
    <3>1. UNCHANGED <<batchedDBJobMap, announced>>
      OBVIOUS
    <3>2. \A b \in Batches : b # job[w] =>
            /\ bufferList'[b] = bufferList[b]
            /\ committed'[b] = committed[b] /\ answers'[b] = answers[b]
      OBVIOUS
    <3>3. \A v \in Workers : job'[v] = job[v] \/ job'[v] = NoBatch
      OBVIOUS
    <3>4. \A v \in Workers : pc'[v] = "insert" => pc[v] = "insert" /\ packet'[v] = packet[v]
      OBVIOUS
    <3> QED
      BY <3>1, <3>2, <3>3, <3>4, BatchKept
  <2>6. TransactionInv'
    BY DEF TransactionInv, WorkerInv, ConnectionProgress
  <2>7. HistoryInv'
    BY DEF HistoryInv, WorkerInv, BatchProgress, BatchInv, Fresh, InsertsInv, Inserts
  <2> QED
    BY <2>1, <2>2, <2>3, <2>4, <2>5, <2>6, <2>7 DEF WorkerInv
<1>5. ASSUME NEW w \in Workers, IsBatchJobWaitingJob(w) PROVE Goal'
  <2> USE BatchTypes, Stages, <1>5 DEF IsBatchJobWaitingJob, Running, Goto, Finish,
       threadVars,
           batchVars, poolVars, odbcVars
  <2>1. \A v \in Workers : HasBatch(v)'
    BY ZenonT(60) DEF HasBatch, WorkerInv, Adding, Executing, Batches, NoBatch, Labels, Holding
  <2>2. \A v \in Workers : HasConnection(v)'
    BY ZenonT(60) DEF HasConnection, WorkerInv, Holding, Labels, Connections, NoConnection, Garbage
  <2>3. \A v \in Workers : BatchProgress(v)'
    BY SMTT(40) DEF WorkerInv, HasBatch, BatchProgress, BatchInv, BatchExclusive,
           InsertsInv, WaitingInv, Fresh, Inserts, Adding, Executing, Labels, Holding
  <2>4. \A v \in Workers : ConnectionProgress(v)'
    BY DEF WorkerInv, HasConnection, ConnectionProgress, ConnectionExclusive,
           Holders, Holding, TransactionInv, Labels
  <2>5. BatchInv'
    <3>1. UNCHANGED <<batchedDBJobMap, announced>>
      OBVIOUS
    <3>2. \A b \in Batches : b # job[w] =>
            /\ bufferList'[b] = bufferList[b]
            /\ committed'[b] = committed[b] /\ answers'[b] = answers[b]
      OBVIOUS
    <3>3. \A v \in Workers : job'[v] = job[v] \/ job'[v] = NoBatch
      OBVIOUS
    <3>4. \A v \in Workers : pc'[v] = "insert" => pc[v] = "insert" /\ packet'[v] = packet[v]
      OBVIOUS
    <3> QED
      BY <3>1, <3>2, <3>3, <3>4, BatchKept
  <2>6. TransactionInv'
    BY DEF TransactionInv, WorkerInv, ConnectionProgress
  <2>7. HistoryInv'
    BY DEF HistoryInv, WorkerInv, BatchProgress, BatchInv, Fresh, InsertsInv, Inserts
  <2> QED
    BY <2>1, <2>2, <2>3, <2>4, <2>5, <2>6, <2>7 DEF WorkerInv
<1>6. ASSUME NEW w \in Workers, TakeBatch(w) PROVE Goal'
  <2>0. /\ pc[w] = "take" /\ UNCHANGED <<batchSize, bufferList, announced, poolVars, odbcVars>>
        /\ \/ /\ pc' = [pc EXCEPT ![w] = "idle"]
              /\ packet' = [packet EXCEPT ![w] = NoPacket] /\ job' = [job EXCEPT ![w] = NoBatch]
              /\ UNCHANGED batchedDBJobMap
           \/ \E k \in DOMAIN batchedDBJobMap :
                /\ pc' = [pc EXCEPT ![w] = "append"] /\ UNCHANGED packet
                /\ job' = [job EXCEPT ![w] = batchedDBJobMap[k]]
                /\ batchedDBJobMap' =
                     [j \in DOMAIN batchedDBJobMap \ {k} |-> batchedDBJobMap[j]]
    BY <1>6 DEF TakeBatch, Running, Finish
  <2> USE BatchTypes, <2>0 DEF batchVars, poolVars, odbcVars
  <2>1. \A v \in Workers : HasBatch(v)'
    <3>1. \A v \in Workers : HasBatch(v)
      BY DEF WorkerInv
    <3> SUFFICES ASSUME NEW v \in Workers PROVE HasBatch(v)'
      OBVIOUS
    <3>2. CASE v = w
      <4>1. \/ pc'[w] = "idle" /\ job'[w] = NoBatch
            \/ pc'[w] = "append" /\ job'[w] \in Batches
        BY <2>0
      <4> QED
        BY <3>2, <4>1 DEF HasBatch, Adding, Executing
    <3>3. CASE v # w
      <4>1. pc'[v] = pc[v] /\ job'[v] = job[v]
        BY <2>0, <3>3
      <4> QED
        BY <3>1, <4>1 DEF HasBatch
    <3> QED
      BY <3>2, <3>3
  <2>2. \A v \in Workers : HasConnection(v)'
    BY DEF HasConnection, WorkerInv, Holding, Labels, Connections, NoConnection, Garbage
  <2>3. \A v \in Workers : BatchProgress(v)'
    <3>1. \A v \in Workers : BatchProgress(v)
      BY DEF WorkerInv
    <3>2. \A k \in DOMAIN batchedDBJobMap : Fresh(batchedDBJobMap[k])
      BY DEF BatchInv, WaitingInv
    <3> SUFFICES ASSUME NEW v \in Workers PROVE BatchProgress(v)'
      OBVIOUS
    <3>3. CASE v = w
      <4>1. \/ pc'[w] = "idle"
            \/ pc'[w] = "append" /\ Fresh(job'[w])
        BY <2>0, <3>2
      <4> QED
        BY <3>3, <4>1 DEF BatchProgress, Fresh, Executing
    <3>4. CASE v # w
      <4>1. pc'[v] = pc[v] /\ job'[v] = job[v]
        BY <2>0, <3>4
      <4> QED
        BY <3>1, <4>1 DEF BatchProgress
    <3> QED
      BY <3>3, <3>4
  <2>4. \A v \in Workers : ConnectionProgress(v)'
    <3> SUFFICES ASSUME NEW v \in Workers PROVE ConnectionProgress(v)'
      OBVIOUS
    <3>1. CASE v = w
      <4>1. pc'[w] \in {"idle", "append"}
        BY <2>0
      <4> QED
        BY <3>1, <4>1 DEF ConnectionProgress
    <3>2. CASE v # w
      <4>1. pc'[v] = pc[v] /\ job'[v] = job[v] /\ ConnectionProgress(v)
        BY <2>0, <3>2 DEF WorkerInv
      <4> QED
        BY <4>1 DEF ConnectionProgress
    <3> QED
      BY <3>1, <3>2
  <2>51. ASSUME UNCHANGED batchedDBJobMap, pc' = [pc EXCEPT ![w] = "idle"],
                job' = [job EXCEPT ![w] = NoBatch], packet' = [packet EXCEPT ![w] = NoPacket]
         PROVE  BatchInv'
    <3>1. \A v \in Workers : job'[v] = job[v] \/ job'[v] = NoBatch
      BY <2>51
    <3>2. \A v \in Workers : pc'[v] = "insert" => pc[v] = "insert" /\ packet'[v] = packet[v]
      BY <2>51
    <3>3. UNCHANGED <<batchedDBJobMap, announced>>
      BY <2>51
    <3>4. \A b \in Batches : b # job[w] =>
            /\ bufferList'[b] = bufferList[b]
            /\ committed'[b] = committed[b] /\ answers'[b] = answers[b]
      OBVIOUS
    <3> QED
      BY <3>1, <3>2, <3>3, <3>4, BatchKept
  <2>52. ASSUME NEW k \in DOMAIN batchedDBJobMap,
                pc' = [pc EXCEPT ![w] = "append"], UNCHANGED packet,
                job' = [job EXCEPT ![w] = batchedDBJobMap[k]],
                batchedDBJobMap' =
                  [j \in DOMAIN batchedDBJobMap \ {k} |-> batchedDBJobMap[j]]
         PROVE  BatchInv'
    <3>1. \A j \in DOMAIN batchedDBJobMap' : j \in DOMAIN batchedDBJobMap /\ j # k
                                            /\ batchedDBJobMap'[j] = batchedDBJobMap[j]
      BY <2>52
    <3>2. /\ \A j \in DOMAIN batchedDBJobMap : batchedDBJobMap[j] = batchedDBJobMap[k] => j = k
          /\ batchedDBJobMap[k] <= announced
          /\ \A v \in Workers : job[v] # batchedDBJobMap[k]
      <4>1. batchedDBJobMap[k] \in Batches
        OBVIOUS
      <4> QED
        BY <4>1 DEF BatchInv, BatchExclusive, WaitingInv
    <3>3. \A v \in Workers : job'[v] = IF v = w THEN batchedDBJobMap[k] ELSE job[v]
      BY <2>52
    <3>4. BatchExclusive'
      BY <3>1, <3>2, <3>3 DEF BatchInv, BatchExclusive
    <3>5. InsertsInv'
      <4> SUFFICES ASSUME NEW v \in Workers, pc'[v] = "insert" PROVE Inserts(v)'
        BY DEF InsertsInv
      <4>1. pc[v] = "insert" /\ Inserts(v)
        BY <2>52 DEF BatchInv, InsertsInv
      <4>2. \A u \in Workers : pc'[u] = "insert" => pc[u] = "insert"
        BY <2>52
      <4> QED
        BY <2>52, <3>1, <3>3, <4>1, <4>2 DEF Inserts, Fresh
    <3>6. UnannouncedFresh'
      BY DEF BatchInv, UnannouncedFresh, Fresh
    <3>7. JobsAnnounced'
      BY <3>2, <3>3 DEF BatchInv, JobsAnnounced
    <3>8. WaitingInv'
      BY <3>1 DEF BatchInv, WaitingInv, Fresh
    <3> QED
      BY <3>4, <3>5, <3>6, <3>7, <3>8 DEF BatchInv
  <2>5. BatchInv'
    BY <2>51, <2>52
  <2>6. TransactionInv'
    <3>1. \A v \in Workers : pc[v] = "commit" => pc'[v] = "commit"
      BY <2>0
    <3> QED
      BY <3>1 DEF TransactionInv
  <2>7. HistoryInv'
    BY DEF HistoryInv, WorkerInv, BatchProgress, BatchInv, Fresh, InsertsInv, Inserts
  <2> QED
    BY <2>1, <2>2, <2>3, <2>4, <2>5, <2>6, <2>7 DEF WorkerInv
<1>7. ASSUME NEW w \in Workers, AppendItem(w) PROVE Goal'
  <2> USE BatchTypes, Stages, <1>7 DEF AppendItem, Running, Goto, Finish, threadVars,
           batchVars, poolVars, odbcVars
  <2>1. \A v \in Workers : HasBatch(v)'
    BY DEF HasBatch, WorkerInv, Adding, Executing, Batches, NoBatch, Labels, Holding
  <2>2. \A v \in Workers : HasConnection(v)'
    BY DEF HasConnection, WorkerInv, Holding, Labels, Connections, NoConnection, Garbage
  <2>3. \A v \in Workers : BatchProgress(v)'
    <3>1. /\ job[w] \in Batches /\ bufferList[job[w]] = <<>>
          /\ committed[job[w]] = 0 /\ answers[job[w]] = 0
      BY DEF WorkerInv, HasBatch, BatchProgress, Adding
    <3>2. /\ UNCHANGED <<job, committed, answers, batchSize>>
          /\ pc' = [pc EXCEPT ![w] = "compare"]
          /\ bufferList'[job[w]] = <<packet[w].channel>>
          /\ \A b \in Batches : b # job[w] => bufferList'[b] = bufferList[b]
      BY <3>1
    <3>3. BatchProgress(w)'
      BY ONLY <3>1, <3>2, TypeOK DEF BatchProgress, TypeOK, Executing
    <3>4. ASSUME NEW v \in Workers, v # w PROVE BatchProgress(v)'
      <4>1. BatchProgress(v) /\ HasBatch(v)
        BY DEF WorkerInv
      <4>2. job[v] # NoBatch => job[v] \in Batches /\ job[v] # job[w]
        BY <3>1, <3>4 DEF BatchInv, BatchExclusive
      <4>3. pc'[v] = pc[v] /\ (pc[v] \in Adding \cup Executing => bufferList'[job[v]] = bufferList[job[v]])
        BY ONLY <3>2, <3>4, <4>1, <4>2, TypeOK DEF HasBatch, TypeOK
      <4> QED
        BY ONLY <3>2, <4>1, <4>3 DEF BatchProgress, Adding, Executing
    <3> QED
      BY <3>3, <3>4
  <2>4. \A v \in Workers : ConnectionProgress(v)'
    BY DEF WorkerInv, HasConnection, ConnectionProgress, ConnectionExclusive,
           Holders, Holding, TransactionInv, Labels
  <2>5. BatchInv'
    <3>1. UNCHANGED <<batchedDBJobMap, announced>>
      OBVIOUS
    <3>2. \A b \in Batches : b # job[w] =>
            /\ bufferList'[b] = bufferList[b]
            /\ committed'[b] = committed[b] /\ answers'[b] = answers[b]
      OBVIOUS
    <3>3. \A v \in Workers : job'[v] = job[v] \/ job'[v] = NoBatch
      OBVIOUS
    <3>4. \A v \in Workers : pc'[v] = "insert" => pc[v] = "insert" /\ packet'[v] = packet[v]
      OBVIOUS
    <3> QED
      BY <3>1, <3>2, <3>3, <3>4, BatchKept
  <2>6. TransactionInv'
    BY DEF TransactionInv, WorkerInv, ConnectionProgress
  <2>7. HistoryInv'
    <3>1. committed[job[w]] = 0
      BY DEF WorkerInv, BatchProgress
    <3>2. UNCHANGED <<committed, answers>>
          /\ \A b \in Batches : b # job[w] => bufferList'[b] = bufferList[b]
      OBVIOUS
    <3> QED
      BY <3>1, <3>2 DEF HistoryInv
  <2> QED
    BY <2>1, <2>2, <2>3, <2>4, <2>5, <2>6, <2>7 DEF WorkerInv
<1>8. ASSUME NEW w \in Workers, CompareSize(w) PROVE Goal'
  <2> USE BatchTypes, Stages, <1>8 DEF CompareSize, Running, Goto, Finish, threadVars,
           batchVars, poolVars, odbcVars
  <2>1. \A v \in Workers : HasBatch(v)'
    BY ZenonT(60) DEF HasBatch, WorkerInv, Adding, Executing, Batches, NoBatch, Labels, Holding
  <2>2. \A v \in Workers : HasConnection(v)'
    BY DEF HasConnection, WorkerInv, Holding, Labels, Connections, NoConnection, Garbage
  <2>3. \A v \in Workers : BatchProgress(v)'
    <3>1. \A v \in Workers : BatchProgress(v)
      BY DEF WorkerInv
    <3>2. pc[w] = "compare" /\ job[w] \in Batches
      BY DEF Adding
    <3>3. Len(bufferList[job[w]]) = 1 /\ committed[job[w]] = 0 /\ answers[job[w]] = 0
      BY <3>1, <3>2 DEF BatchProgress
    <3>4. \/ pc' = [pc EXCEPT ![w] = "batch"] /\ UNCHANGED job /\ batchSize[job[w]] = 1
          \/ pc' = [pc EXCEPT ![w] = "idle"] /\ job' = [job EXCEPT ![w] = NoBatch]
      BY <3>3
    <3> HIDE <1>8 DEF CompareSize
    <3>5. UNCHANGED <<batchSize, bufferList, committed, answers>>
      BY <1>8 DEF CompareSize
    <3> SUFFICES ASSUME NEW v \in Workers PROVE BatchProgress(v)'
      OBVIOUS
    <3>6. CASE v = w
      BY <3>3, <3>4, <3>5, <3>6 DEF BatchProgress, Executing
    <3>7. CASE v # w
      <4>1. pc'[v] = pc[v] /\ (pc[v] # "idle" => job'[v] = job[v])
        BY <3>4, <3>7
      <4> QED
        BY <3>1, <3>5, <4>1 DEF BatchProgress, Executing
    <3> QED
      BY <3>6, <3>7
  <2>4. \A v \in Workers : ConnectionProgress(v)'
    BY DEF WorkerInv, HasConnection, ConnectionProgress, ConnectionExclusive,
           Holders, Holding, TransactionInv, Labels
  <2>5. BatchInv'
    <3>1. UNCHANGED <<batchedDBJobMap, announced>>
      OBVIOUS
    <3>2. \A b \in Batches : b # job[w] =>
            /\ bufferList'[b] = bufferList[b]
            /\ committed'[b] = committed[b] /\ answers'[b] = answers[b]
      OBVIOUS
    <3>3. \A v \in Workers : job'[v] = job[v] \/ job'[v] = NoBatch
      OBVIOUS
    <3>4. \A v \in Workers : pc'[v] = "insert" => pc[v] = "insert" /\ packet'[v] = packet[v]
      OBVIOUS
    <3> QED
      BY <3>1, <3>2, <3>3, <3>4, BatchKept
  <2>6. TransactionInv'
    BY DEF TransactionInv, WorkerInv, ConnectionProgress
  <2>7. HistoryInv'
    BY DEF HistoryInv, WorkerInv, BatchProgress, BatchInv, Fresh, InsertsInv, Inserts
  <2> QED
    BY <2>1, <2>2, <2>3, <2>4, <2>5, <2>6, <2>7 DEF WorkerInv
<1>9. ASSUME NEW w \in Workers, DoBatchedJob(w) PROVE Goal'
  <2>0. /\ \/ UNCHANGED <<pc, job, packet, conn>>
           \/ \E c \in Connections \cup {Garbage} :
                /\ conn' = [conn EXCEPT ![w] = c] /\ pc' = [pc EXCEPT ![w] = "manual"]
                /\ UNCHANGED <<job, packet>>
        /\ pc[w] = "batch"
        /\ UNCHANGED <<received, batchVars, opened, odbcVars>>
    BY <1>9, PoolTypes DEF DoBatchedJob, GetConnection, CopyFront, Goto, Running, threadVars
  <2> USE BatchTypes, <2>0 DEF batchVars, odbcVars
  <2>1. \A v \in Workers : HasBatch(v)'
    BY DEF HasBatch, WorkerInv, Adding, Executing, Batches, NoBatch, Labels, Holding
  <2>2. \A v \in Workers : HasConnection(v)'
    BY DEF HasConnection, WorkerInv, Holding, Labels, Connections, NoConnection, Garbage
  <2>3. \A v \in Workers : BatchProgress(v)'
    BY DEF WorkerInv, HasBatch, BatchProgress, BatchInv, BatchExclusive,
           InsertsInv, WaitingInv, Fresh, Inserts, Adding, Executing, Labels, Holding
  <2>4. \A v \in Workers : ConnectionProgress(v)'
    BY DEF WorkerInv, HasConnection, ConnectionProgress, ConnectionExclusive,
           Holders, Holding, TransactionInv, Labels
  <2>5. BatchInv'
    <3>1. UNCHANGED <<batchedDBJobMap, announced>>
      OBVIOUS
    <3>2. \A b \in Batches : b # job[w] =>
            /\ bufferList'[b] = bufferList[b]
            /\ committed'[b] = committed[b] /\ answers'[b] = answers[b]
      OBVIOUS
    <3>3. \A v \in Workers : job'[v] = job[v] \/ job'[v] = NoBatch
      OBVIOUS
    <3>4. \A v \in Workers : pc'[v] = "insert" => pc[v] = "insert" /\ packet'[v] = packet[v]
      OBVIOUS
    <3> QED
      BY <3>1, <3>2, <3>3, <3>4, BatchKept
  <2>6. TransactionInv'
    BY DEF TransactionInv, WorkerInv, ConnectionProgress
  <2>7. HistoryInv'
    BY DEF HistoryInv, WorkerInv, BatchProgress, BatchInv, Fresh, InsertsInv, Inserts
  <2> QED
    BY <2>1, <2>2, <2>3, <2>4, <2>5, <2>6, <2>7 DEF WorkerInv
<1>10. ASSUME NEW w \in Workers, SetManualCommit(w) PROVE Goal'
  <2> USE BatchTypes, Stages, <1>10 DEF SetManualCommit, Running, Goto, Finish,
       threadVars,
           batchVars, poolVars, odbcVars
  <2>1. \A v \in Workers : HasBatch(v)'
    BY DEF HasBatch, WorkerInv, Adding, Executing, Batches, NoBatch, Labels, Holding
  <2>2. \A v \in Workers : HasConnection(v)'
    BY DEF HasConnection, WorkerInv, Holding, Labels, Connections, NoConnection, Garbage
  <2>3. \A v \in Workers : BatchProgress(v)'
    BY DEF WorkerInv, HasBatch, BatchProgress, BatchInv, BatchExclusive,
           InsertsInv, WaitingInv, Fresh, Inserts, Adding, Executing, Labels, Holding
  <2>4. \A v \in Workers : ConnectionProgress(v)'
    BY DEF WorkerInv, HasConnection, ConnectionProgress, ConnectionExclusive,
           Holders, Holding, TransactionInv, Labels
  <2>5. BatchInv'
    <3>1. UNCHANGED <<batchedDBJobMap, announced>>
      OBVIOUS
    <3>2. \A b \in Batches : b # job[w] =>
            /\ bufferList'[b] = bufferList[b]
            /\ committed'[b] = committed[b] /\ answers'[b] = answers[b]
      OBVIOUS
    <3>3. \A v \in Workers : job'[v] = job[v] \/ job'[v] = NoBatch
      OBVIOUS
    <3>4. \A v \in Workers : pc'[v] = "insert" => pc[v] = "insert" /\ packet'[v] = packet[v]
      OBVIOUS
    <3> QED
      BY <3>1, <3>2, <3>3, <3>4, BatchKept
  <2>6. TransactionInv'
    BY DEF TransactionInv, WorkerInv, ConnectionProgress
  <2>7. HistoryInv'
    BY DEF HistoryInv, WorkerInv, BatchProgress, BatchInv, Fresh, InsertsInv, Inserts
  <2> QED
    BY <2>1, <2>2, <2>3, <2>4, <2>5, <2>6, <2>7 DEF WorkerInv
<1>11. ASSUME NEW w \in Workers, HandleJob(w) PROVE Goal'
  <2>0. /\ pc[w] = "job" /\ conn[w] \in Connections /\ job[w] \in Batches
        /\ transaction[conn[w]] = <<>> /\ Len(bufferList[job[w]]) = 1
        /\ transaction' = [transaction EXCEPT ![conn[w]] = <<job[w]>>]
        /\ pc' = [pc EXCEPT ![w] = "commit"]
        /\ UNCHANGED <<packet, job, batchVars, poolVars, autocommit, committed, answers>>
    <3>1. pc[w] = "job" /\ conn[w] \in Connections /\ job[w] \in Batches
      BY <1>11, Stages DEF HandleJob, Running, Executing
    <3>2. Len(bufferList[job[w]]) = 1
      BY <3>1 DEF WorkerInv, BatchProgress, Executing
    <3>3. transaction[conn[w]] = <<>>
      <4>1. \A v \in Workers : pc[v] = "commit" => conn[v] # conn[w]
        BY <3>1 DEF ConnectionExclusive, Holders, Holding
      <4> QED
        BY <3>1, <4>1 DEF TransactionInv
    <3>4. Append(transaction[conn[w]], job[w]) = <<job[w]>> /\ Len(<<job[w]>>) = 1
      BY <3>3
    <3>5. transaction' = [transaction EXCEPT ![conn[w]] = <<job[w]>>]
      BY <1>11, <3>4 DEF HandleJob
    <3>6. transaction'[conn[w]] = <<job[w]>>
      BY <3>1, <3>5, BatchTypes
    <3>7. pc' = [pc EXCEPT ![w] = "commit"] /\ UNCHANGED <<packet, job>>
      <4>1. Len(transaction'[conn[w]]) = 1
        BY <3>4, <3>6
      <4>2. ~(Len(transaction'[conn[w]]) < Len(bufferList[job[w]]))
        BY <3>2, <4>1
      <4> QED
        BY <1>11, <4>2 DEF HandleJob, Goto
    <3> QED
      BY <1>11, <3>1, <3>2, <3>3, <3>5, <3>7 DEF HandleJob
  <2> USE BatchTypes, <2>0 DEF batchVars, poolVars, odbcVars
  <2>1. \A v \in Workers : HasBatch(v)'
    BY DEF HasBatch, WorkerInv, Adding, Executing, Batches, NoBatch, Labels, Holding
  <2>2. \A v \in Workers : HasConnection(v)'
    BY DEF HasConnection, WorkerInv, Holding, Labels, Connections, NoConnection, Garbage
  <2>3. \A v \in Workers : BatchProgress(v)'
    BY DEF WorkerInv, HasBatch, BatchProgress, BatchInv, BatchExclusive,
           InsertsInv, WaitingInv, Fresh, Inserts, Adding, Executing, Labels, Holding
  <2>4. \A v \in Workers : ConnectionProgress(v)'
    <3>1. \A v \in Workers : v # w /\ pc[v] \in Holding => conn[v] # conn[w]
      BY DEF ConnectionExclusive, Holders, Holding
    <3>2. \A v \in Workers : ConnectionProgress(v)
      BY DEF WorkerInv
    <3> QED
      BY <3>1, <3>2 DEF ConnectionProgress, Holding
  <2>5. BatchInv'
    <3>1. UNCHANGED <<batchedDBJobMap, announced>>
      OBVIOUS
    <3>2. \A b \in Batches : b # job[w] =>
            /\ bufferList'[b] = bufferList[b]
            /\ committed'[b] = committed[b] /\ answers'[b] = answers[b]
      OBVIOUS
    <3>3. \A v \in Workers : job'[v] = job[v] \/ job'[v] = NoBatch
      OBVIOUS
    <3>4. \A v \in Workers : pc'[v] = "insert" => pc[v] = "insert" /\ packet'[v] = packet[v]
      OBVIOUS
    <3> QED
      BY <3>1, <3>2, <3>3, <3>4, BatchKept
  <2>6. TransactionInv'
    <3> SUFFICES ASSUME NEW c \in Connections, transaction'[c] # <<>>
                 PROVE  \E v \in Workers : pc'[v] = "commit" /\ conn'[v] = c
      BY DEF TransactionInv
    <3>1. CASE c = conn[w]
      BY <3>1
    <3>2. CASE c # conn[w]
      <4>1. PICK v \in Workers : pc[v] = "commit" /\ conn[v] = c
        BY <3>2 DEF TransactionInv
      <4> QED
        BY <4>1
    <3> QED
      BY <3>1, <3>2
  <2>7. HistoryInv'
    BY DEF HistoryInv, WorkerInv, BatchProgress, BatchInv, Fresh, InsertsInv, Inserts
  <2> QED
    BY <2>1, <2>2, <2>3, <2>4, <2>5, <2>6, <2>7 DEF WorkerInv
<1>12. ASSUME NEW w \in Workers, EndTran(w) PROVE Goal'
  <2>0. /\ pc[w] = "commit" /\ conn[w] \in Connections /\ job[w] \in Batches
        /\ transaction[conn[w]] = <<job[w]>> /\ committed[job[w]] = 0
        /\ UNCHANGED <<packet, job, batchVars, poolVars, autocommit, answers>>
        /\ \/ UNCHANGED <<pc, transaction, committed>>
           \/ /\ pc' = [pc EXCEPT ![w] = "reply"]
              /\ transaction' = [transaction EXCEPT ![conn[w]] = <<>>]
              /\ \A a \in Batches : committed'[a] =
                   IF a = job[w] THEN committed[a] + 1 ELSE committed[a]
    <3>1. pc[w] = "commit" /\ conn[w] \in Connections /\ job[w] \in Batches
      BY <1>12, Stages DEF EndTran, Running, Executing
    <3>2. transaction[conn[w]] = <<job[w]>> /\ committed[job[w]] = 0
      BY <3>1 DEF WorkerInv, ConnectionProgress, BatchProgress
    <3>3. \A a \in Batches :
            Cardinality({i \in DOMAIN transaction[conn[w]] : transaction[conn[w]][i] = a})
              = IF a = job[w] THEN 1 ELSE 0
      BY <3>1, <3>2, CommitOne
    <3>4. UNCHANGED <<pc, transaction, committed>> \/
          /\ pc' = [pc EXCEPT ![w] = "reply"]
          /\ transaction' = [transaction EXCEPT ![conn[w]] = <<>>]
          /\ committed' = [b \in Batches |-> committed[b]
               + Cardinality({i \in DOMAIN transaction[conn[w]] : transaction[conn[w]][i] = b})]
      BY <1>12 DEF EndTran, Goto, threadVars
    <3>5. committed \in [Batches -> Nat]
      BY BatchTypes
    <3>6. UNCHANGED <<packet, job, batchVars, poolVars, autocommit, answers>>
      BY <1>12 DEF EndTran, Goto, threadVars
    <3>7. ASSUME committed' = [b \in Batches |-> committed[b]
               + Cardinality({i \in DOMAIN transaction[conn[w]] : transaction[conn[w]][i] = b})],
                 NEW a \in Batches
          PROVE  committed'[a] = IF a = job[w] THEN committed[a] + 1 ELSE committed[a]
      <4>1. committed'[a] = committed[a] + IF a = job[w] THEN 1 ELSE 0
        BY <3>3, <3>7
      <4> QED
        BY <3>5, <4>1
    <3> QED
      BY <3>1, <3>2, <3>4, <3>6, <3>7
  <2> USE BatchTypes, <2>0 DEF batchVars, poolVars, odbcVars
  <2>1. \A v \in Workers : HasBatch(v)'
    BY DEF HasBatch, WorkerInv, Adding, Executing, Batches, NoBatch, Labels, Holding
  <2>2. \A v \in Workers : HasConnection(v)'
    BY DEF HasConnection, WorkerInv, Holding, Labels, Connections, NoConnection, Garbage
  <2>3. \A v \in Workers : BatchProgress(v)'
    <3>1. \A v \in Workers : BatchProgress(v)
      BY DEF WorkerInv
    <3>2. \A v \in Workers : v # w => job[v] # job[w]
      BY DEF BatchInv, BatchExclusive, Batches, NoBatch
    <3>3. \A v \in Workers : pc[v] \in Adding \cup Executing => job[v] \in Batches
      BY Stages
    <3> QED
      BY <3>1, <3>2, <3>3 DEF BatchProgress, Adding, Executing
  <2>4. \A v \in Workers : ConnectionProgress(v)'
    <3>1. \A v \in Workers : v # w /\ pc[v] \in Holding => conn[v] # conn[w]
      BY DEF ConnectionExclusive, Holders, Holding
    <3>2. \A v \in Workers : ConnectionProgress(v)
      BY DEF WorkerInv
    <3> QED
      BY <3>1, <3>2 DEF ConnectionProgress, Holding
  <2>5. BatchInv'
    <3>1. UNCHANGED <<batchedDBJobMap, announced>>
      OBVIOUS
    <3>2. \A b \in Batches : b # job[w] =>
            /\ bufferList'[b] = bufferList[b]
            /\ committed'[b] = committed[b] /\ answers'[b] = answers[b]
      OBVIOUS
    <3>3. \A v \in Workers : job'[v] = job[v] \/ job'[v] = NoBatch
      OBVIOUS
    <3>4. \A v \in Workers : pc'[v] = "insert" => pc[v] = "insert" /\ packet'[v] = packet[v]
      OBVIOUS
    <3> QED
      BY <3>1, <3>2, <3>3, <3>4, BatchKept
  <2>6. TransactionInv'
    <3> SUFFICES ASSUME NEW c \in Connections, transaction'[c] # <<>>
                 PROVE  \E v \in Workers : pc'[v] = "commit" /\ conn'[v] = c
      BY DEF TransactionInv
    <3>1. transaction[c] # <<>>
      OBVIOUS
    <3>2. PICK v \in Workers : pc[v] = "commit" /\ conn[v] = c
      BY <3>1 DEF TransactionInv
    <3> QED
      BY <3>2
  <2>7. HistoryInv'
    <3>1. Len(bufferList[job[w]]) = 1
      BY DEF WorkerInv, BatchProgress, Executing
    <3>2. \A b \in Batches : answers[b] <= 1
      BY DEF HistoryInv
    <3> QED
      BY <3>1, <3>2 DEF HistoryInv
  <2> QED
    BY <2>1, <2>2, <2>3, <2>4, <2>5, <2>6, <2>7 DEF WorkerInv
<1>13. ASSUME NEW w \in Workers, Reply(w) PROVE Goal'
  <2> USE BatchTypes, Stages, <1>13 DEF Reply, Running, Goto, Finish, threadVars,
           batchVars, poolVars, odbcVars
  <2>1. \A v \in Workers : HasBatch(v)'
    BY DEF HasBatch, WorkerInv, Adding, Executing, Batches, NoBatch, Labels, Holding
  <2>2. \A v \in Workers : HasConnection(v)'
    BY DEF HasConnection, WorkerInv, Holding, Labels, Connections, NoConnection, Garbage
  <2>3. \A v \in Workers : BatchProgress(v)'
    BY DEF WorkerInv, HasBatch, BatchProgress, BatchInv, BatchExclusive,
           InsertsInv, WaitingInv, Fresh, Inserts, Adding, Executing, Labels, Holding
  <2>4. \A v \in Workers : ConnectionProgress(v)'
    BY DEF WorkerInv, HasConnection, ConnectionProgress, ConnectionExclusive,
           Holders, Holding, TransactionInv, Labels
  <2>5. BatchInv'
    <3>1. UNCHANGED <<batchedDBJobMap, announced>>
      OBVIOUS
    <3>2. \A b \in Batches : b # job[w] =>
            /\ bufferList'[b] = bufferList[b]
            /\ committed'[b] = committed[b] /\ answers'[b] = answers[b]
      OBVIOUS
    <3>3. \A v \in Workers : job'[v] = job[v] \/ job'[v] = NoBatch
      OBVIOUS
    <3>4. \A v \in Workers : pc'[v] = "insert" => pc[v] = "insert" /\ packet'[v] = packet[v]
      OBVIOUS
    <3> QED
      BY <3>1, <3>2, <3>3, <3>4, BatchKept
  <2>6. TransactionInv'
    BY DEF TransactionInv, WorkerInv, ConnectionProgress
  <2>7. HistoryInv'
    BY DEF HistoryInv, WorkerInv, BatchProgress, BatchInv, Fresh, InsertsInv, Inserts
  <2> QED
    BY <2>1, <2>2, <2>3, <2>4, <2>5, <2>6, <2>7 DEF WorkerInv
<1>14. ASSUME NEW w \in Workers, SetAutocommit(w) PROVE Goal'
  <2> USE BatchTypes, Stages, <1>14 DEF SetAutocommit, Running, Goto, Finish, threadVars,
           batchVars, poolVars, odbcVars
  <2>1. \A v \in Workers : HasBatch(v)'
    BY DEF HasBatch, WorkerInv, Adding, Executing, Batches, NoBatch, Labels, Holding
  <2>2. \A v \in Workers : HasConnection(v)'
    BY DEF HasConnection, WorkerInv, Holding, Labels, Connections, NoConnection, Garbage
  <2>3. \A v \in Workers : BatchProgress(v)'
    BY DEF WorkerInv, HasBatch, BatchProgress, BatchInv, BatchExclusive,
           InsertsInv, WaitingInv, Fresh, Inserts, Adding, Executing, Labels, Holding
  <2>4. \A v \in Workers : ConnectionProgress(v)'
    BY DEF WorkerInv, HasConnection, ConnectionProgress, ConnectionExclusive,
           Holders, Holding, TransactionInv, Labels
  <2>5. BatchInv'
    <3>1. UNCHANGED <<batchedDBJobMap, announced>>
      OBVIOUS
    <3>2. \A b \in Batches : b # job[w] =>
            /\ bufferList'[b] = bufferList[b]
            /\ committed'[b] = committed[b] /\ answers'[b] = answers[b]
      OBVIOUS
    <3>3. \A v \in Workers : job'[v] = job[v] \/ job'[v] = NoBatch
      OBVIOUS
    <3>4. \A v \in Workers : pc'[v] = "insert" => pc[v] = "insert" /\ packet'[v] = packet[v]
      OBVIOUS
    <3> QED
      BY <3>1, <3>2, <3>3, <3>4, BatchKept
  <2>6. TransactionInv'
    BY DEF TransactionInv, WorkerInv, ConnectionProgress
  <2>7. HistoryInv'
    BY DEF HistoryInv, WorkerInv, BatchProgress, BatchInv, Fresh, InsertsInv, Inserts
  <2> QED
    BY <2>1, <2>2, <2>3, <2>4, <2>5, <2>6, <2>7 DEF WorkerInv
<1>15. ASSUME NEW w \in Workers, BatchEnd(w) PROVE Goal'
  <2> USE BatchTypes, Stages, <1>15 DEF BatchEnd, Running, Goto, Finish,
       FreeConnection, threadVars,
           batchVars, poolVars, odbcVars
  <2>1. \A v \in Workers : HasBatch(v)'
    BY DEF HasBatch, WorkerInv, Adding, Executing, Batches, NoBatch, Labels, Holding
  <2>2. \A v \in Workers : HasConnection(v)'
    BY DEF HasConnection, WorkerInv, Holding, Labels, Connections, NoConnection, Garbage
  <2>3. \A v \in Workers : BatchProgress(v)'
    BY DEF WorkerInv, HasBatch, BatchProgress, BatchInv, BatchExclusive,
           InsertsInv, WaitingInv, Fresh, Inserts, Adding, Executing, Labels, Holding
  <2>4. \A v \in Workers : ConnectionProgress(v)'
    BY DEF WorkerInv, HasConnection, ConnectionProgress, ConnectionExclusive,
           Holders, Holding, TransactionInv, Labels
  <2>5. BatchInv'
    <3>1. UNCHANGED <<batchedDBJobMap, announced>>
      OBVIOUS
    <3>2. \A b \in Batches : b # job[w] =>
            /\ bufferList'[b] = bufferList[b]
            /\ committed'[b] = committed[b] /\ answers'[b] = answers[b]
      OBVIOUS
    <3>3. \A v \in Workers : job'[v] = job[v] \/ job'[v] = NoBatch
      OBVIOUS
    <3>4. \A v \in Workers : pc'[v] = "insert" => pc[v] = "insert" /\ packet'[v] = packet[v]
      OBVIOUS
    <3> QED
      BY <3>1, <3>2, <3>3, <3>4, BatchKept
  <2>6. TransactionInv'
    BY DEF TransactionInv, WorkerInv, ConnectionProgress
  <2>7. HistoryInv'
    BY DEF HistoryInv, WorkerInv, BatchProgress, BatchInv, Fresh, InsertsInv, Inserts
  <2> QED
    BY <2>1, <2>2, <2>3, <2>4, <2>5, <2>6, <2>7 DEF WorkerInv
<1>16. CASE UNCHANGED vars
  BY <1>16 DEF vars, WorkerInv, BatchInv, BatchExclusive, InsertsInv, UnannouncedFresh,
       JobsAnnounced, WaitingInv, TransactionInv, HistoryInv, HasBatch, HasConnection,
       BatchProgress, ConnectionProgress, Fresh, Inserts
<1> QED
  BY <1>16, <1>1, <1>2, <1>3, <1>4, <1>5, <1>6, <1>7, <1>8, <1>9, <1>10, <1>11, <1>12,
       <1>13, <1>14, <1>15, NextCases

-----------------------------------------------------------------------------
(* The connections one by one.                                             *)

(* A worker that gets a connection, or garbage in its place.               *)
LEMMA KeptGet ==
  ASSUME TypeOK, ConnectionExclusive, KeptInv,
         NEW w \in Workers, NEW next \in Holding, pc[w] \notin Holding,
         connectionList # <<>>, connectionList' = Tail(connectionList), CopyFront(w),
         pc' = [pc EXCEPT ![w] = next], opened' = opened
  PROVE  KeptInv'
<1> DEFINE n == Len(connectionList)
           front == connectionList[1]
<1>1. connectionList \in Seq(Connections \cup {Garbage}) /\ pc \in [Workers -> Labels]
      /\ conn \in [Workers -> Connections \cup {NoConnection, Garbage}]
      /\ opened \in 0..PoolSize /\ PoolSize \in Nat
  BY ConstantsAssumption DEF TypeOK
<1>2. /\ n \in Nat /\ n > 0
      /\ DOMAIN connectionList = 1..n
      /\ DOMAIN connectionList' = 1..(n - 1)
      /\ \A i \in 1..(n - 1) : connectionList'[i] = connectionList[i + 1]
      /\ Head(connectionList) = front
  BY <1>1
<1>3. Holders' = Holders \cup {w} /\ w \notin Holders
      /\ \A v \in Holders : v # w /\ conn'[v] = conn[v]
  BY <1>1 DEF Holders, CopyFront
<1> SUFFICES ASSUME NEW c \in 1..opened PROVE c \in lost' <=> ~Kept(c)'
  BY DEF KeptInv
<1>4. c \in lost <=> ~Kept(c)
  BY DEF KeptInv
<1>5. c \in Connections /\ c # Garbage
  BY <1>1 DEF Connections, Garbage
<1>6. conn'[w] = front \/ conn'[w] = Garbage
  BY <1>1, <1>2 DEF CopyFront
<1>7. Kept(c)' <=> \/ \E i \in 1..(n - 1) : connectionList[i + 1] = c
                   \/ \E v \in Holders : conn[v] = c
                   \/ conn'[w] = c
  BY <1>2, <1>3, ZenonT(30) DEF Kept
<1>8. Kept(c) <=> \/ \E i \in 1..n : connectionList[i] = c
                  \/ \E v \in Holders : conn[v] = c
  BY <1>2 DEF Kept
<1>9. (\E i \in 1..n : connectionList[i] = c)
        <=> front = c \/ \E i \in 1..(n - 1) : connectionList[i + 1] = c
  <2> HIDE DEF n
  <2>1. 1 \in 1..n /\ \A i \in 1..(n - 1) : i + 1 \in 1..n
    BY <1>2
  <2>2. \A i \in 1..n : i = 1 \/ (i - 1 \in 1..(n - 1) /\ (i - 1) + 1 = i)
    BY <1>2
  <2> QED
    BY <2>1, <2>2
<1>10. CASE front # c
  <2>1. c \in lost' <=> c \in lost
    BY <1>2, <1>10 DEF CopyFront
  <2>2. Kept(c)' <=> Kept(c)
    BY <1>5, <1>6, <1>7, <1>8, <1>9, <1>10
  <2> QED
    BY <1>4, <2>1, <2>2
<1>11. CASE front = c
  <2>1. Kept(c) /\ c \notin lost
    BY <1>4, <1>8, <1>9, <1>11
  <2>2. CASE conn' = [conn EXCEPT ![w] = front] /\ UNCHANGED lost
    <3>1. conn'[w] = c
      BY <1>1, <1>11, <2>2
    <3> QED
      BY <1>7, <2>1, <2>2, <3>1
  <2>3. CASE conn' = [conn EXCEPT ![w] = Garbage] /\ lost' = lost \cup ({front} \ {Garbage})
    <3>1. conn'[w] # c /\ c \in lost'
      BY <1>1, <1>5, <1>11, <2>3
    <3>2. \A i \in 1..(n - 1) : connectionList[i + 1] # c
      <4>1. \A i \in 1..(n - 1) : 1 \in 1..n /\ i + 1 \in 1..n /\ i + 1 # 1
        BY <1>2
      <4> QED
        BY <1>2, <1>5, <1>11, <4>1 DEF ConnectionExclusive
    <3>3. \A v \in Holders : conn[v] # c
      <4>1. 1 \in DOMAIN connectionList
        BY <1>2
      <4> QED
        BY <1>5, <1>11, <4>1 DEF ConnectionExclusive
    <3> QED
      BY <1>7, <3>1, <3>2, <3>3
  <2> QED
    BY <1>2, <2>2, <2>3 DEF CopyFront
<1> QED
  BY <1>10, <1>11

(* A worker that gives back what it has.                                   *)
LEMMA KeptFree ==
  ASSUME TypeOK, KeptInv, NEW w \in Workers,
         NEW next \in Labels \ Holding, pc[w] \in Holding,
         conn[w] \in Connections \cup {Garbage}, FreeConnection(w),
         pc' = [pc EXCEPT ![w] = next], opened' = opened
  PROVE  KeptInv'
<1> DEFINE n == Len(connectionList)
<1>1. connectionList \in Seq(Connections \cup {Garbage}) /\ pc \in [Workers -> Labels]
      /\ conn \in [Workers -> Connections \cup {NoConnection, Garbage}]
      /\ opened \in 0..PoolSize
  BY DEF TypeOK
<1>2. /\ n \in Nat /\ DOMAIN connectionList = 1..n
      /\ DOMAIN connectionList' = 1..(n + 1)
      /\ \A i \in 1..n : connectionList'[i] = connectionList[i]
      /\ connectionList'[n + 1] = conn[w]
      /\ lost' = lost
  BY <1>1 DEF FreeConnection
<1>3. /\ Holders' = Holders \ {w} /\ w \in Holders
      /\ \A v \in Holders \ {w} : conn'[v] = conn[v]
  BY <1>1 DEF Holders, FreeConnection
<1>4. \A i \in 1..(n + 1) : i \in 1..n \/ i = n + 1
  BY <1>2
<1>5. n + 1 \in 1..(n + 1) /\ 1..n \subseteq 1..(n + 1)
  BY <1>2
<1> SUFFICES ASSUME NEW c \in 1..opened PROVE Kept(c)' <=> Kept(c)
  BY <1>2 DEF KeptInv
<1> HIDE DEF n
<1>6. Kept(c)' <=> \/ \E i \in 1..n : connectionList[i] = c
                   \/ conn[w] = c
                   \/ \E v \in Holders \ {w} : conn[v] = c
  BY <1>2, <1>3, <1>4, <1>5 DEF Kept
<1> QED
  BY <1>2, <1>3, <1>6 DEF Kept

(* Steps that leave the pool and the connections alone.                    *)
LEMMA KeptUnchanged ==
  ASSUME TypeOK, KeptInv, UNCHANGED poolVars,
         NEW w \in Workers, NEW next, next \in Holding <=> pc[w] \in Holding,
         pc' = [pc EXCEPT ![w] = next] \/ pc' = pc
  PROVE  KeptInv'
<1>1. Holders' = Holders
  BY DEF Holders, TypeOK
<1> QED
  BY <1>1 DEF KeptInv, Kept, poolVars

(* Every step of a worker keeps account of each connection.                *)
LEMMA KeptStep ==
  ASSUME TypeOK, WorkerInv, BatchInv, ConnectionExclusive, KeptInv, [Next]_vars
  PROVE  KeptInv'
<1>1. ASSUME NEW w \in Workers, Receive(w) PROVE KeptInv'
  <2>1. \/ pc' = [pc EXCEPT ![w] = "insert"]
        \/ pc' = [pc EXCEPT ![w] = "procedure"]
        \/ pc' = [pc EXCEPT ![w] = "find"]
    BY <1>1 DEF Receive, Goto, Finish, threadVars
  <2>2. pc[w] \notin Holding /\ "insert" \notin Holding /\ "procedure" \notin Holding /\ "find" \notin Holding
    BY <1>1 DEF Receive, Running, Holding
  <2>3. UNCHANGED poolVars
    BY <1>1 DEF Receive, poolVars
  <2> QED
    BY <2>1, <2>2, <2>3, KeptUnchanged
<1>2. ASSUME NEW w \in Workers, InsertBatchJob(w) PROVE KeptInv'
  <2>1. \/ pc' = [pc EXCEPT ![w] = "idle"]
    BY <1>2 DEF InsertBatchJob, Goto, Finish, threadVars
  <2>2. pc[w] \notin Holding /\ "idle" \notin Holding
    BY <1>2 DEF InsertBatchJob, Running, Holding
  <2>3. UNCHANGED poolVars
    BY <1>2 DEF InsertBatchJob, poolVars
  <2> QED
    BY <2>1, <2>2, <2>3, KeptUnchanged
<1>3. ASSUME NEW w \in Workers, ProcedureHandleImpl(w) PROVE KeptInv'
  <2>1. CASE connectionList = <<>>
    <3>1. UNCHANGED <<pc, poolVars>>
      BY <1>3, <2>1 DEF ProcedureHandleImpl, GetConnection, threadVars, poolVars
    <3> QED
      BY <3>1 DEF KeptInv, Kept, Holders, poolVars
  <2>2. CASE connectionList # <<>>
    <3>1. /\ CopyFront(w) /\ connectionList' = Tail(connectionList)
          /\ pc' = [pc EXCEPT ![w] = "procedureEnd"] /\ UNCHANGED opened
      BY <1>3, <2>2 DEF ProcedureHandleImpl, GetConnection, Goto
    <3>2. pc[w] \notin Holding /\ "procedureEnd" \in Holding
      BY <1>3 DEF ProcedureHandleImpl, Running, Holding
    <3> QED
      BY <2>2, <3>1, <3>2, KeptGet
  <2> QED
    BY <2>1, <2>2
<1>4. ASSUME NEW w \in Workers, ProcedureEnd(w) PROVE KeptInv'
  <2>1. FreeConnection(w) /\ pc' = [pc EXCEPT ![w] = "find"] /\ UNCHANGED opened
    BY <1>4 DEF ProcedureEnd, Goto, Finish
  <2>2. pc[w] \in Holding /\ "find" \in Labels \ Holding
    BY <1>4 DEF ProcedureEnd, Running, Labels, Holding
  <2>3. conn[w] \in Connections \cup {Garbage}
    BY <2>2, Stages
  <2> QED
    BY <2>1, <2>2, <2>3, KeptFree
<1>5. ASSUME NEW w \in Workers, IsBatchJobWaitingJob(w) PROVE KeptInv'
  <2>1. \/ pc' = [pc EXCEPT ![w] = "take"]
        \/ pc' = [pc EXCEPT ![w] = "idle"]
    BY <1>5 DEF IsBatchJobWaitingJob, Goto, Finish, threadVars
  <2>2. pc[w] \notin Holding /\ "take" \notin Holding /\ "idle" \notin Holding
    BY <1>5 DEF IsBatchJobWaitingJob, Running, Holding
  <2>3. UNCHANGED poolVars
    BY <1>5 DEF IsBatchJobWaitingJob, poolVars
  <2> QED
    BY <2>1, <2>2, <2>3, KeptUnchanged
<1>6. ASSUME NEW w \in Workers, TakeBatch(w) PROVE KeptInv'
  <2>1. \/ pc' = [pc EXCEPT ![w] = "append"]
        \/ pc' = [pc EXCEPT ![w] = "idle"]
    BY <1>6 DEF TakeBatch, Goto, Finish, threadVars
  <2>2. pc[w] \notin Holding /\ "append" \notin Holding /\ "idle" \notin Holding
    BY <1>6 DEF TakeBatch, Running, Holding
  <2>3. UNCHANGED poolVars
    BY <1>6 DEF TakeBatch, poolVars
  <2> QED
    BY <2>1, <2>2, <2>3, KeptUnchanged
<1>7. ASSUME NEW w \in Workers, AppendItem(w) PROVE KeptInv'
  <2>1. \/ pc' = [pc EXCEPT ![w] = "compare"]
    BY <1>7 DEF AppendItem, Goto, Finish, threadVars
  <2>2. pc[w] \notin Holding /\ "compare" \notin Holding
    BY <1>7 DEF AppendItem, Running, Holding
  <2>3. UNCHANGED poolVars
    BY <1>7 DEF AppendItem, poolVars
  <2> QED
    BY <2>1, <2>2, <2>3, KeptUnchanged
<1>8. ASSUME NEW w \in Workers, CompareSize(w) PROVE KeptInv'
  <2>1. \/ pc' = [pc EXCEPT ![w] = "batch"]
        \/ pc' = [pc EXCEPT ![w] = "idle"]
    BY <1>8 DEF CompareSize, Goto, Finish, threadVars
  <2>2. pc[w] \notin Holding /\ "batch" \notin Holding /\ "idle" \notin Holding
    BY <1>8 DEF CompareSize, Running, Holding
  <2>3. UNCHANGED poolVars
    BY <1>8 DEF CompareSize, poolVars
  <2> QED
    BY <2>1, <2>2, <2>3, KeptUnchanged
<1>9. ASSUME NEW w \in Workers, DoBatchedJob(w) PROVE KeptInv'
  <2>1. CASE connectionList = <<>>
    <3>1. UNCHANGED <<pc, poolVars>>
      BY <1>9, <2>1 DEF DoBatchedJob, GetConnection, threadVars, poolVars
    <3> QED
      BY <3>1 DEF KeptInv, Kept, Holders, poolVars
  <2>2. CASE connectionList # <<>>
    <3>1. /\ CopyFront(w) /\ connectionList' = Tail(connectionList)
          /\ pc' = [pc EXCEPT ![w] = "manual"] /\ UNCHANGED opened
      BY <1>9, <2>2 DEF DoBatchedJob, GetConnection, Goto
    <3>2. pc[w] \notin Holding /\ "manual" \in Holding
      BY <1>9 DEF DoBatchedJob, Running, Holding
    <3> QED
      BY <2>2, <3>1, <3>2, KeptGet
  <2> QED
    BY <2>1, <2>2
<1>10. ASSUME NEW w \in Workers, SetManualCommit(w) PROVE KeptInv'
  <2>1. \/ pc' = [pc EXCEPT ![w] = "job"]
        \/ pc' = pc
    BY <1>10 DEF SetManualCommit, Goto, Finish, threadVars
  <2>2. pc[w] \in Holding /\ "job" \in Holding
    BY <1>10 DEF SetManualCommit, Running, Holding
  <2>3. UNCHANGED poolVars
    BY <1>10 DEF SetManualCommit, poolVars
  <2> QED
    BY <2>1, <2>2, <2>3, KeptUnchanged
<1>11. ASSUME NEW w \in Workers, HandleJob(w) PROVE KeptInv'
  <2>1. \/ pc' = [pc EXCEPT ![w] = "commit"]
        \/ pc' = pc
    BY <1>11 DEF HandleJob, Goto, Finish, threadVars
  <2>2. pc[w] \in Holding /\ "commit" \in Holding
    BY <1>11 DEF HandleJob, Running, Holding
  <2>3. UNCHANGED poolVars
    BY <1>11 DEF HandleJob, poolVars
  <2> QED
    BY <2>1, <2>2, <2>3, KeptUnchanged
<1>12. ASSUME NEW w \in Workers, EndTran(w) PROVE KeptInv'
  <2>1. \/ pc' = [pc EXCEPT ![w] = "reply"]
        \/ pc' = pc
    BY <1>12 DEF EndTran, Goto, Finish, threadVars
  <2>2. pc[w] \in Holding /\ "reply" \in Holding
    BY <1>12 DEF EndTran, Running, Holding
  <2>3. UNCHANGED poolVars
    BY <1>12 DEF EndTran, poolVars
  <2> QED
    BY <2>1, <2>2, <2>3, KeptUnchanged
<1>13. ASSUME NEW w \in Workers, Reply(w) PROVE KeptInv'
  <2>1. \/ pc' = [pc EXCEPT ![w] = "auto"]
    BY <1>13 DEF Reply, Goto, Finish, threadVars
  <2>2. pc[w] \in Holding /\ "auto" \in Holding
    BY <1>13 DEF Reply, Running, Holding
  <2>3. UNCHANGED poolVars
    BY <1>13 DEF Reply, poolVars
  <2> QED
    BY <2>1, <2>2, <2>3, KeptUnchanged
<1>14. ASSUME NEW w \in Workers, SetAutocommit(w) PROVE KeptInv'
  <2>1. \/ pc' = [pc EXCEPT ![w] = "free"]
    BY <1>14 DEF SetAutocommit, Goto, Finish, threadVars
  <2>2. pc[w] \in Holding /\ "free" \in Holding
    BY <1>14 DEF SetAutocommit, Running, Holding
  <2>3. UNCHANGED poolVars
    BY <1>14 DEF SetAutocommit, poolVars
  <2> QED
    BY <2>1, <2>2, <2>3, KeptUnchanged
<1>15. ASSUME NEW w \in Workers, BatchEnd(w) PROVE KeptInv'
  <2>1. FreeConnection(w) /\ pc' = [pc EXCEPT ![w] = "idle"] /\ UNCHANGED opened
    BY <1>15 DEF BatchEnd, Goto, Finish
  <2>2. pc[w] \in Holding /\ "idle" \in Labels \ Holding
    BY <1>15 DEF BatchEnd, Running, Labels, Holding
  <2>3. conn[w] \in Connections \cup {Garbage}
    BY <2>2, Stages
  <2> QED
    BY <2>1, <2>2, <2>3, KeptFree
<1>16. CASE UNCHANGED vars
  BY <1>16 DEF vars, KeptInv, Kept, Holders
<1> QED
  BY <1>1, <1>2, <1>3, <1>4, <1>5, <1>6, <1>7, <1>8, <1>9,
     <1>10, <1>11, <1>12, <1>13, <1>14, <1>15, <1>16, NextCases

-----------------------------------------------------------------------------
(* Inv is an invariant.                                                    *)

(* The process starts in a state of Inv.                                   *)
LEMMA InvInit == Init => Inv
<1> SUFFICES ASSUME Init PROVE Inv
  OBVIOUS
<1>1. /\ PoolSize \in Nat /\ MaxBatches \in Nat /\ MaxPackets \in Nat
      /\ NoBatch \notin Batches /\ DOMAIN batchedDBJobMap = {}
  BY ConstantsAssumption DEF Init, Batches, NoBatch
<1>2. opened \in 0..PoolSize /\ opened \in Nat
  BY <1>1 DEF Init
<1>3. connectionList \in Seq(Connections \cup {Garbage}) /\ Len(connectionList) = opened
  <2>1. \A i \in 1..opened : i \in Connections
    BY <1>1, <1>2 DEF Connections
  <2>2. connectionList \in [1..opened -> Connections \cup {Garbage}]
    BY <2>1 DEF Init
  <2> QED
    BY <1>2, <2>2, IsASeq, LenProperties
<1>4. TypeOK
  BY <1>1, <1>2, <1>3, PacketTypes DEF Init, TypeOK, Labels
<1>5. Holders = {}
  BY DEF Init, Holders, Holding
<1>6. PoolCount
  BY <1>2, <1>3, <1>5, FS_EmptySet DEF PoolCount
<1>7. ConnectionExclusive
  BY <1>5 DEF Init, ConnectionExclusive
<1>8. NeverRefused
  BY DEF Init, NeverRefused
<1>9. WorkerInv
  BY DEF Init, WorkerInv, HasBatch, HasConnection, BatchProgress, ConnectionProgress,
         Adding, Executing, Holding
<1>10. BatchInv
  <2>1. BatchExclusive /\ InsertsInv /\ WaitingInv
    BY <1>1 DEF Init, BatchExclusive, InsertsInv, WaitingInv
  <2>2. UnannouncedFresh /\ JobsAnnounced
    BY DEF Init, UnannouncedFresh, JobsAnnounced, Fresh, NoBatch
  <2> QED
    BY <2>1, <2>2 DEF BatchInv
<1>11. TransactionInv /\ HistoryInv
  BY DEF Init, TransactionInv, HistoryInv
<1> QED
  BY <1>4, <1>6, <1>7, <1>8, <1>9, <1>10, <1>11 DEF Inv

(* Every reachable state is a state of Inv.                                *)
LEMMA Invariance == Spec => []Inv
<1>1. Inv /\ [Next]_vars => Inv'
  BY TypeStep, PoolStep, BatchStep DEF Inv
<1> QED
  BY <1>1, InvInit, PTL DEF Spec

(* No connection is unaccounted for.                                       *)
LEMMA KeptInvariance == Spec => []KeptInv
<1>1. ASSUME Init PROVE KeptInv
  <2> SUFFICES ASSUME NEW c \in 1..opened PROVE Kept(c) /\ c \notin lost
    BY DEF KeptInv
  <2> QED
    BY <1>1 DEF Init, Kept
<1>2. Inv /\ KeptInv /\ [Next]_vars => KeptInv'
  BY KeptStep DEF Inv
<1> QED
  BY <1>1, <1>2, Invariance, PTL DEF Spec

-----------------------------------------------------------------------------
(* The theorems.                                                           *)

(* Every variable holds a value of its type, whatever the workers do.      *)
THEOREM TypeCorrect == Spec => []TypeOK
<1>1. Inv => TypeOK
  BY DEF Inv
<1> QED
  BY <1>1, Invariance, PTL

(* The pool and the workers' connections together are as many as were      *)
(* opened; each that was opened is in the pool or with a worker, or lost.  *)
THEOREM PoolConservedCorrect == Spec => []PoolConserved
<1>1. Inv /\ KeptInv => PoolConserved
  BY DEF Inv, KeptInv, PoolConserved
<1> QED
  BY <1>1, Invariance, KeptInvariance, PTL

(* With a connection for each worker GetConnection is never refused.       *)
THEOREM NeverRefusedCorrect == Spec => []NeverRefused
<1>1. Inv => NeverRefused
  BY DEF Inv
<1> QED
  BY <1>1, Invariance, PTL

(* A connection is in the pool or with one worker.                         *)
THEOREM ConnectionExclusiveCorrect == Spec => []ConnectionExclusive
<1>1. Inv => ConnectionExclusive
  BY DEF Inv
<1> QED
  BY <1>1, Invariance, PTL

(* A batch that a worker has taken is no other worker's.                   *)
THEOREM BatchExclusiveCorrect == Spec => []BatchExclusive
<1>1. Inv => BatchExclusive
  BY DEF Inv, BatchInv
<1> QED
  BY <1>1, Invariance, PTL

(* What was done on a connection since its last commit is the work of one  *)
(* batch, in manual commit mode.                                           *)
THEOREM TransactionsIsolatedCorrect == Spec => []TransactionsIsolated
<1>1. ASSUME Inv PROVE TransactionsIsolated
  <2> SUFFICES ASSUME NEW c \in Connections, transaction[c] # <<>>
               PROVE  /\ ~autocommit[c]
                      /\ \E w \in Holders : /\ conn[w] = c
                                            /\ \A i \in DOMAIN transaction[c] :
                                                 transaction[c][i] = job[w]
    BY DEF TransactionsIsolated
  <2>1. PICK w \in Workers : pc[w] = "commit" /\ conn[w] = c
    BY <1>1 DEF Inv, TransactionInv
  <2>2. w \in Holders
    BY <2>1 DEF Holders, Holding
  <2>3. ~autocommit[c] /\ transaction[c] = <<job[w]>>
    BY <1>1, <2>1 DEF Inv, WorkerInv, ConnectionProgress
  <2>4. \A i \in DOMAIN <<job[w]>> : <<job[w]>>[i] = job[w]
    OBVIOUS
  <2> QED
    BY <2>1, <2>2, <2>3, <2>4
<1> QED
  BY <1>1, Invariance, PTL

(* A batch is answered once, after all jobs it was given were committed.   *)
THEOREM AnswersAreCommittedCorrect == Spec => []AnswersAreCommitted
<1>1. ASSUME Inv PROVE AnswersAreCommitted
  <2> SUFFICES ASSUME NEW b \in Batches
               PROVE  /\ answers[b] <= 1
                      /\ answers[b] = 1 => committed[b] = Len(bufferList[b])
    BY DEF AnswersAreCommitted
  <2>1. /\ answers[b] <= 1
        /\ answers[b] = 1 => committed[b] = 1
        /\ committed[b] > 0 => committed[b] = 1 /\ Len(bufferList[b]) = 1
    BY <1>1 DEF Inv, HistoryInv
  <2>2. 1 > 0
    OBVIOUS
  <2> QED
    BY <2>1, <2>2
<1> QED
  BY <1>1, Invariance, PTL

=============================================================================
