------------------------ MODULE RIOServerStepProofs -------------------------
(***************************************************************************)
(* Proofs that RIOServer's variables keep their types and its threads      *)
(* their control flow, and that every step keeps the parts of its          *)
(* inductive invariant: sessions' identities, the exclusion of sends, the  *)
(* exclusion of receives, and the reference count.                         *)
(***************************************************************************)
EXTENDS RIOServerInvariants, SequenceTheorems, TLAPS

(* The frames are abbreviations and always expanded.                       *)
USE DEF threadVars, idVars, mapVars, countVars, registryVars, kernelVars, ioVars,
        sendVars, ghostVars

-----------------------------------------------------------------------------
(* Threads.                                                                *)

(* A step keeps the threads' variables in their types and every thread in  *)
(* its control flow.                                                       *)
LEMMA ThreadStep ==
  ASSUME ThreadTypeOK, RegistryTypeOK, Control, [Next]_vars
  PROVE  ThreadTypeOK' /\ Control'
<1> USE ConstantsAssumption
    DEF ThreadTypeOK, Control, ThreadControl, AccepterControl, WorkerControl, AppControl,
        SendLabels, Releasing, Labels, Goto, Call, Return, Caller, Threads
<1>1. CASE AcceptSession
  BY <1>1 DEF AcceptSession, RegistryTypeOK, Sessions, FirstSessionId, NoSession
<1>2. CASE Publish
  BY <1>2 DEF Publish
<1>3. CASE OnSessionEntered
  BY <1>3 DEF OnSessionEntered
<1>4. CASE CountSession
  BY <1>4 DEF CountSession
<1>5. ASSUME NEW t \in Threads, RIOReceive(t) PROVE ThreadTypeOK' /\ Control'
  BY <1>5 DEF RIOReceive
<1>6. ASSUME NEW t \in Threads, CountRecv(t) PROVE ThreadTypeOK' /\ Control'
  BY <1>6 DEF CountRecv
<1>7. ASSUME NEW t \in Threads, IOCountDecrement(t) PROVE ThreadTypeOK' /\ Control'
  BY <1>7 DEF IOCountDecrement
<1>8. ASSUME NEW t \in Threads, OnSessionLeaved(t) PROVE ThreadTypeOK' /\ Control'
  BY <1>8 DEF OnSessionLeaved
<1>9. ASSUME NEW t \in Threads, CloseSocket(t) PROVE ThreadTypeOK' /\ Control'
  BY <1>9 DEF CloseSocket
<1>10. ASSUME NEW t \in Threads, EraseSession(t) PROVE ThreadTypeOK' /\ Control'
  BY <1>10 DEF EraseSession
<1>11. ASSUME NEW t \in Threads, OnSessionReleased(t) PROVE ThreadTypeOK' /\ Control'
  BY <1>11 DEF OnSessionReleased
<1>12. ASSUME NEW t \in Threads, Enqueue(t) PROVE ThreadTypeOK' /\ Control'
  BY <1>12 DEF Enqueue
<1>13. ASSUME NEW t \in Threads, TrySending(t) PROVE ThreadTypeOK' /\ Control'
  BY <1>13 DEF TrySending
<1>14. ASSUME NEW t \in Threads, MakeSendStream(t) PROVE ThreadTypeOK' /\ Control'
  BY <1>14 DEF MakeSendStream
<1>15. ASSUME NEW t \in Threads, CountSend(t) PROVE ThreadTypeOK' /\ Control'
  BY <1>15 DEF CountSend
<1>16. ASSUME NEW t \in Threads, RIOSend(t) PROVE ThreadTypeOK' /\ Control'
  BY <1>16 DEF RIOSend, SendFailed
<1>17. ASSUME NEW w \in Workers, HandlerReplies(w) PROVE ThreadTypeOK' /\ Control'
  BY <1>17 DEF HandlerReplies
<1>18. ASSUME NEW w \in Workers, RecvCompleted(w) PROVE ThreadTypeOK' /\ Control'
  BY <1>18 DEF RecvCompleted
<1>19. ASSUME NEW w \in Workers, SendIOCompleted(w) PROVE ThreadTypeOK' /\ Control'
  BY <1>19 DEF SendIOCompleted
<1>20. ASSUME NEW w \in Workers, SendCompleted(w) PROVE ThreadTypeOK' /\ Control'
  BY <1>20 DEF SendCompleted
<1>21. ASSUME NEW w \in Workers, NEW s \in Sessions, DequeueRecv(w, s) PROVE ThreadTypeOK' /\ Control'
  BY <1>21 DEF DequeueRecv
<1>22. ASSUME NEW w \in Workers, NEW s \in Sessions, DequeueSend(w, s) PROVE ThreadTypeOK' /\ Control'
  BY <1>22 DEF DequeueSend
<1>23. ASSUME NEW a \in Apps, SetSendDisconnect(a) PROVE ThreadTypeOK' /\ Control'
  BY <1>23 DEF SetSendDisconnect
<1>24. ASSUME NEW a \in Apps, NEW s \in Sessions, AppSendPacket(a, s) PROVE ThreadTypeOK' /\ Control'
  BY <1>24 DEF AppSendPacket
<1>25. ASSUME NEW a \in Apps, NEW s \in Sessions, AppSendPacketAndDisconnect(a, s) PROVE ThreadTypeOK' /\ Control'
  BY <1>25 DEF AppSendPacketAndDisconnect
<1>26. ASSUME NEW a \in Apps, NEW s \in Sessions, AppDisconnect(a, s) PROVE ThreadTypeOK' /\ Control'
  BY <1>26 DEF AppDisconnect
<1>27. ASSUME NEW s \in Sessions, ConnectionLost(s) PROVE ThreadTypeOK' /\ Control'
  BY <1>27 DEF ConnectionLost
<1>28. CASE UNCHANGED vars
  BY <1>28 DEF vars
<1>29. QED
  BY <1>1, <1>2, <1>3, <1>4, <1>5, <1>6, <1>7, <1>8, <1>9, <1>10, <1>11, <1>12, <1>13,
     <1>14, <1>15, <1>16, <1>17, <1>18, <1>19, <1>20, <1>21, <1>22, <1>23, <1>24, <1>25,
     <1>26, <1>27, <1>28
     DEF Next, AccepterStep, CallStep, WorkerStep, DequeueCompletion, AppCall

-----------------------------------------------------------------------------
(* Which steps change what.                                                *)

(* The steps that change the registry's variables.                         *)
LEMMA RegistryChange ==
  ASSUME [Next]_vars
  PROVE  \/ AcceptSession \/ Publish \/ OnSessionEntered \/ CountSession
         \/ \E t \in Threads : OnSessionLeaved(t) \/ CloseSocket(t) \/ EraseSession(t)
         \/ UNCHANGED registryVars
<1>1. ASSUME NEW t \in Threads, CallStep(t)
      PROVE  \/ OnSessionLeaved(t) \/ CloseSocket(t) \/ EraseSession(t)
             \/ UNCHANGED registryVars
  BY <1>1 DEF registryVars, CallStep, RIOReceive, CountRecv, IOCountDecrement,
           OnSessionReleased, Enqueue, TrySending, MakeSendStream, CountSend, RIOSend
<1>2. ASSUME NEW w \in Workers, WorkerStep(w)
      PROVE  UNCHANGED registryVars
  BY <1>2 DEF registryVars, WorkerStep, HandlerReplies, RecvCompleted,
           SendIOCompleted, SendCompleted
<1>3. ASSUME NEW w \in Workers, NEW s \in Sessions, DequeueCompletion(w, s)
      PROVE  UNCHANGED registryVars
  BY <1>3 DEF registryVars, DequeueCompletion, DequeueRecv, DequeueSend
<1>4. ASSUME NEW a \in Apps, SetSendDisconnect(a)
      PROVE  UNCHANGED registryVars
  BY <1>4 DEF registryVars, SetSendDisconnect
<1>5. ASSUME NEW a \in Apps, NEW s \in Sessions, AppCall(a, s)
      PROVE  UNCHANGED registryVars
  BY <1>5 DEF registryVars, AppCall, AppSendPacket, AppSendPacketAndDisconnect,
           AppDisconnect
<1>6. ASSUME NEW s \in Sessions, ConnectionLost(s)
      PROVE  UNCHANGED registryVars
  BY <1>6 DEF registryVars, ConnectionLost
<1>7. CASE UNCHANGED vars
  BY <1>7 DEF vars, registryVars
<1>8. QED
  BY <1>1, <1>2, <1>3, <1>4, <1>5, <1>6, <1>7 DEF Next, AccepterStep

(* The steps that change the reference counts and what is in RIO.          *)
LEMMA IoChange ==
  ASSUME [Next]_vars
  PROVE  \/ AcceptSession
         \/ \E t \in Threads : \/ RIOReceive(t) \/ CountRecv(t) \/ IOCountDecrement(t)
                               \/ CloseSocket(t) \/ TrySending(t) \/ CountSend(t)
                               \/ RIOSend(t)
         \/ \E w \in Workers : SendIOCompleted(w) \/ SendCompleted(w)
         \/ \E w \in Workers, s \in Sessions : DequeueRecv(w, s) \/ DequeueSend(w, s)
         \/ \E a \in Apps, s \in Sessions : AppDisconnect(a, s)
         \/ \E s \in Sessions : ConnectionLost(s)
         \/ UNCHANGED ioVars
<1>1. ASSUME NEW t \in Threads, CallStep(t)
      PROVE  \/ RIOReceive(t) \/ CountRecv(t) \/ IOCountDecrement(t) \/ CloseSocket(t)
             \/ TrySending(t) \/ CountSend(t) \/ RIOSend(t)
             \/ UNCHANGED ioVars
  BY <1>1 DEF ioVars, CallStep, OnSessionLeaved, EraseSession, OnSessionReleased,
           Enqueue, MakeSendStream
<1>2. ASSUME NEW w \in Workers, WorkerStep(w)
      PROVE  \/ SendIOCompleted(w) \/ SendCompleted(w)
             \/ UNCHANGED ioVars
  BY <1>2 DEF ioVars, WorkerStep, HandlerReplies, RecvCompleted
<1>3. ASSUME NEW a \in Apps, SetSendDisconnect(a)
      PROVE  UNCHANGED ioVars
  BY <1>3 DEF ioVars, SetSendDisconnect
<1>4. ASSUME NEW a \in Apps, NEW s \in Sessions, AppCall(a, s)
      PROVE  \/ AppDisconnect(a, s)
             \/ UNCHANGED ioVars
  BY <1>4 DEF ioVars, AppCall, AppSendPacket, AppSendPacketAndDisconnect
<1>5. ASSUME Publish \/ OnSessionEntered \/ CountSession PROVE UNCHANGED ioVars
  BY <1>5 DEF ioVars, Publish, OnSessionEntered, CountSession
<1>6. CASE UNCHANGED vars
  BY <1>6 DEF vars, ioVars
<1>7. QED
  BY <1>1, <1>2, <1>3, <1>4, <1>5, <1>6 DEF Next, AccepterStep, DequeueCompletion

(* The steps that change what is queued, prepared and sent.                *)
LEMMA SendChange ==
  ASSUME [Next]_vars
  PROVE  \/ \E t \in Threads : Enqueue(t) \/ MakeSendStream(t) \/ RIOSend(t)
         \/ \E a \in Apps : SetSendDisconnect(a)
         \/ UNCHANGED sendVars
<1>1. ASSUME NEW t \in Threads, CallStep(t)
      PROVE  \/ Enqueue(t) \/ MakeSendStream(t) \/ RIOSend(t)
             \/ UNCHANGED sendVars
  BY <1>1 DEF sendVars, CallStep, RIOReceive, CountRecv, IOCountDecrement,
           OnSessionLeaved, CloseSocket, EraseSession, OnSessionReleased, TrySending,
           CountSend
<1>2. ASSUME NEW w \in Workers, WorkerStep(w)
      PROVE  UNCHANGED sendVars
  BY <1>2 DEF sendVars, WorkerStep, HandlerReplies, RecvCompleted, SendIOCompleted,
           SendCompleted
<1>3. ASSUME NEW w \in Workers, NEW s \in Sessions, DequeueCompletion(w, s)
      PROVE  UNCHANGED sendVars
  BY <1>3 DEF sendVars, DequeueCompletion, DequeueRecv, DequeueSend
<1>4. ASSUME NEW a \in Apps, NEW s \in Sessions, AppCall(a, s)
      PROVE  UNCHANGED sendVars
  BY <1>4 DEF sendVars, AppCall, AppSendPacket, AppSendPacketAndDisconnect,
           AppDisconnect
<1>5. ASSUME NEW s \in Sessions, ConnectionLost(s)
      PROVE  UNCHANGED sendVars
  BY <1>5 DEF sendVars, ConnectionLost
<1>6. ASSUME AcceptSession \/ Publish \/ OnSessionEntered \/ CountSession
      PROVE  UNCHANGED sendVars
  BY <1>6 DEF sendVars, AcceptSession, Publish, OnSessionEntered, CountSession
<1>7. CASE UNCHANGED vars
  BY <1>7 DEF vars, sendVars
<1>8. QED
  BY <1>1, <1>2, <1>3, <1>4, <1>5, <1>6, <1>7 DEF Next, AccepterStep

(* The steps that change the history variables.                            *)
LEMMA HistoryChange ==
  ASSUME [Next]_vars
  PROVE  \/ AcceptSession
         \/ \E t \in Threads : CountRecv(t) \/ OnSessionReleased(t) \/ CountSend(t)
         \/ \E w \in Workers : RecvCompleted(w)
         \/ \E w \in Workers, s \in Sessions : DequeueRecv(w, s) \/ DequeueSend(w, s)
         \/ UNCHANGED ghostVars
<1>1. ASSUME NEW t \in Threads, CallStep(t)
      PROVE  \/ CountRecv(t) \/ OnSessionReleased(t) \/ CountSend(t)
             \/ UNCHANGED ghostVars
  BY <1>1 DEF ghostVars, CallStep, RIOReceive, IOCountDecrement, OnSessionLeaved,
           CloseSocket, EraseSession, Enqueue, TrySending, MakeSendStream, RIOSend
<1>2. ASSUME NEW w \in Workers, WorkerStep(w)
      PROVE  \/ RecvCompleted(w)
             \/ UNCHANGED ghostVars
  BY <1>2 DEF ghostVars, WorkerStep, HandlerReplies, SendIOCompleted, SendCompleted
<1>3. ASSUME NEW a \in Apps, SetSendDisconnect(a)
      PROVE  UNCHANGED ghostVars
  BY <1>3 DEF ghostVars, SetSendDisconnect
<1>4. ASSUME NEW a \in Apps, NEW s \in Sessions, AppCall(a, s)
      PROVE  UNCHANGED ghostVars
  BY <1>4 DEF ghostVars, AppCall, AppSendPacket, AppSendPacketAndDisconnect,
           AppDisconnect
<1>5. ASSUME NEW s \in Sessions, ConnectionLost(s)
      PROVE  UNCHANGED ghostVars
  BY <1>5 DEF ghostVars, ConnectionLost
<1>6. ASSUME Publish \/ OnSessionEntered \/ CountSession PROVE UNCHANGED ghostVars
  BY <1>6 DEF ghostVars, Publish, OnSessionEntered, CountSession
<1>7. CASE UNCHANGED vars
  BY <1>7 DEF vars, ghostVars
<1>8. QED
  BY <1>1, <1>2, <1>3, <1>4, <1>5, <1>6, <1>7 DEF Next, AccepterStep, DequeueCompletion

-----------------------------------------------------------------------------
(* Types.                                                                  *)

(* A thread that is at a label of a call has a session to work on.         *)
LEMMA Busy ==
  ASSUME Control, NEW t \in Threads, pc[t] # "idle" PROVE cur[t] \in Sessions
BY DEF Control, ThreadControl

(* The 32-bit count stays one.                                             *)
LEMMA PlusType ==
  ASSUME NEW c \in 0..(CountModulus - 1), NEW d \in {1, -1}
  PROVE  Plus(c, d) \in 0..(CountModulus - 1)
BY ConstantsAssumption DEF Plus

(* A step keeps the registry's types.                                      *)
LEMMA RegistryTypeStep ==
  ASSUME TypeOK, Control, [Next]_vars PROVE RegistryTypeOK'
<1> USE ConstantsAssumption DEF TypeOK, RegistryTypeOK
<1>1. CASE AcceptSession
  BY <1>1 DEF AcceptSession, Sessions, FirstSessionId, NoSession
<1>2. CASE Publish
  <2>1. cur[Accepter] \in Sessions
    BY <1>2, Busy DEF Publish, Threads
  <2>2. QED
    BY <1>2, <2>1, PlusType DEF Publish
<1>3. CASE OnSessionEntered
  <2>1. cur[Accepter] \in Sessions
    BY <1>3, Busy DEF OnSessionEntered, Threads
  <2>2. QED
    BY <1>3, <2>1 DEF OnSessionEntered
<1>4. CASE CountSession
  BY <1>4, PlusType DEF CountSession
<1>5. ASSUME NEW t \in Threads, OnSessionLeaved(t) \/ EraseSession(t)
      PROVE  RegistryTypeOK'
  BY <1>5 DEF OnSessionLeaved, EraseSession
<1>6. ASSUME NEW t \in Threads, CloseSocket(t) PROVE RegistryTypeOK'
  <2>1. cur[t] \in Sessions
    BY <1>6, Busy DEF CloseSocket
  <2>2. QED
    BY <1>6, <2>1, PlusType DEF CloseSocket
<1>7. CASE UNCHANGED registryVars
  BY <1>7
<1>8. QED
  BY <1>1, <1>2, <1>3, <1>4, <1>5, <1>6, <1>7, RegistryChange

(* A step keeps the types of the counts and of what is in RIO.             *)
LEMMA IoTypeStep ==
  ASSUME TypeOK, Control, [Next]_vars PROVE IoTypeOK'
<1> USE DEF TypeOK, IoTypeOK
<1>1. CASE AcceptSession
  <2>1. /\ ioCount' = [ioCount EXCEPT ![nextSessionId'] = 1]
        /\ \/ conn' = [conn EXCEPT ![nextSessionId'] = "open"]
           \/ conn' = [conn EXCEPT ![nextSessionId'] = "closed"]
        /\ UNCHANGED <<recvOps, sendOps, ioMode>>
    BY <1>1 DEF AcceptSession
  <2>2. ioCount' \in [Sessions -> Int]
    <3>1. PICK n : ioCount' = [ioCount EXCEPT ![n] = 1]
      BY <2>1
    <3>2. 1 \in Int
      OBVIOUS
    <3>3. QED
      BY <3>1, <3>2
  <2>3. conn' \in [Sessions -> {"none", "open", "gone", "closed"}]
    BY <2>1
  <2>4. QED
    BY <2>1, <2>2, <2>3
<1>2. ASSUME NEW t \in Threads, RIOReceive(t) \/ CountRecv(t) \/ IOCountDecrement(t)
      PROVE  IoTypeOK'
  BY <1>2 DEF RIOReceive, CountRecv, IOCountDecrement, TakesReference
<1>3. ASSUME NEW t \in Threads, CloseSocket(t) \/ TrySending(t) PROVE IoTypeOK'
  BY <1>3 DEF CloseSocket, TrySending
<1>4. ASSUME NEW t \in Threads, CountSend(t) \/ RIOSend(t) PROVE IoTypeOK'
  BY <1>4 DEF CountSend, RIOSend, TakesReference
<1>5. ASSUME NEW w \in Workers, SendIOCompleted(w) \/ SendCompleted(w) PROVE IoTypeOK'
  BY <1>5 DEF SendIOCompleted, SendCompleted, Disconnect
<1>6. ASSUME NEW w \in Workers, NEW s \in Sessions, DequeueRecv(w, s) \/ DequeueSend(w, s)
      PROVE  IoTypeOK'
  BY <1>6 DEF DequeueRecv, DequeueSend
<1>7. ASSUME NEW a \in Apps, NEW s \in Sessions, AppDisconnect(a, s) PROVE IoTypeOK'
  BY <1>7 DEF AppDisconnect, Disconnect
<1>8. ASSUME NEW s \in Sessions, ConnectionLost(s) PROVE IoTypeOK'
  BY <1>8 DEF ConnectionLost
<1>9. CASE UNCHANGED ioVars
  BY <1>9
<1>10. QED
  BY <1>1, <1>2, <1>3, <1>4, <1>5, <1>6, <1>7, <1>8, <1>9, IoChange

(* A step keeps the types of what is queued, prepared and sent.            *)
LEMMA SendTypeStep ==
  ASSUME TypeOK, Control, [Next]_vars PROVE SendTypeOK'
<1> USE DEF TypeOK, SendTypeOK
<1>1. ASSUME NEW t \in Threads, Enqueue(t) PROVE SendTypeOK'
  <2>1. cur[t] \in Sessions
    BY <1>1, Busy DEF Enqueue
  <2>2. QED
    BY <1>1, <2>1 DEF Enqueue
<1>2. ASSUME NEW t \in Threads, MakeSendStream(t) PROVE SendTypeOK'
  <2> DEFINE s == cur[t]
             q == sendQueue[s]
  <2>1. s \in Sessions
    BY <1>2, Busy DEF MakeSendStream
  <2>2. PICK k \in 0..Len(q) :
          /\ k = Len(q) \/ Overflows(s, k)
          /\ sendQueue' = [sendQueue EXCEPT ![s] = SubSeq(q, k + 1, Len(q))]
          /\ reservedBuffer' = [reservedBuffer EXCEPT ![s] = NextReserved(s, k)]
          /\ \/ UNCHANGED stream
             \/ /\ ~(k = 0 /\ reservedBuffer[s] = NoPacket)
                /\ stream' = [stream EXCEPT ![t] =
                     [first   |-> IF reservedBuffer[s] = NoPacket
                                  THEN q[1] ELSE reservedBuffer[s],
                      copied  |-> reservedBuffer[s] # NoPacket \/ Fits(SizeOf[q[1]]),
                      stale   |-> k > 1 \/ (k = 1 /\ reservedBuffer[s] # NoPacket),
                      tooLong |-> TotalSendSize(s, k) > MaxSendBufferSize]]
    BY <1>2 DEF MakeSendStream
  <2>3. q \in Seq(Nat)
    BY <2>1
  <2>4. sendQueue' \in [Sessions -> Seq(Nat)]
    <3>1. SubSeq(q, k + 1, Len(q)) \in Seq(Nat)
      BY <2>3, SubSeqProperties
    <3>2. QED
      BY <2>1, <2>2, <3>1
  <2>5. NextReserved(s, k) \in Nat
    BY <2>3 DEF NextReserved, Overflows, NoPacket
  <2>6. reservedBuffer' \in [Sessions -> Nat]
    BY <2>1, <2>2, <2>5
  <2>7. stream' \in [Threads -> [first : Nat, copied : BOOLEAN, stale : BOOLEAN,
                                tooLong : BOOLEAN]]
    <3>1. ~(k = 0 /\ reservedBuffer[s] = NoPacket)
          => (IF reservedBuffer[s] = NoPacket THEN q[1] ELSE reservedBuffer[s]) \in Nat
      BY <2>1, <2>3
    <3>2. CASE UNCHANGED stream
      BY <3>2
    <3>3. ASSUME NEW f \in Nat, NEW a \in BOOLEAN, NEW b \in BOOLEAN, NEW c \in BOOLEAN,
                 stream' = [stream EXCEPT ![t] =
                   [first |-> f, copied |-> a, stale |-> b, tooLong |-> c]]
          PROVE  stream' \in [Threads -> [first : Nat, copied : BOOLEAN, stale : BOOLEAN,
                                         tooLong : BOOLEAN]]
      BY <3>3
    <3>4. CASE stream # stream'
      <4> DEFINE f == IF reservedBuffer[s] = NoPacket THEN q[1] ELSE reservedBuffer[s]
                 a == reservedBuffer[s] # NoPacket \/ Fits(SizeOf[q[1]])
                 b == k > 1 \/ (k = 1 /\ reservedBuffer[s] # NoPacket)
                 c == TotalSendSize(s, k) > MaxSendBufferSize
      <4>1. f \in Nat /\ a \in BOOLEAN /\ b \in BOOLEAN /\ c \in BOOLEAN
        BY <2>2, <3>1, <3>4 DEF Fits
      <4>2. stream' = [stream EXCEPT ![t] =
              [first |-> f, copied |-> a, stale |-> b, tooLong |-> c]]
        BY <2>2, <3>4
      <4> HIDE DEF f, a, b, c
      <4>3. QED
        BY <4>1, <4>2, <3>3
    <3>5. QED
      BY <3>2, <3>4
  <2>8. UNCHANGED <<sendDisconnect, handed, wire>>
    BY <1>2 DEF MakeSendStream
  <2>9. QED
    BY <2>4, <2>6, <2>7, <2>8
<1>3. ASSUME NEW t \in Threads, RIOSend(t) PROVE SendTypeOK'
  <2>1. cur[t] \in Sessions
    BY <1>3, Busy DEF RIOSend
  <2>2. stream[t].first \in Nat
    OBVIOUS
  <2>3. stream' \in [Threads -> [first : Nat, copied : BOOLEAN, stale : BOOLEAN,
                                tooLong : BOOLEAN]]
    BY <1>3 DEF RIOSend, NoStream, NoPacket
  <2>4. wire' \in [Sessions -> Seq([packet : Nat, stale : BOOLEAN])]
    <3> DEFINE D == [packet : Nat, stale : BOOLEAN]
    <3>1. wire \in [Sessions -> Seq(D)] /\ wire[cur[t]] \in Seq(D)
      BY <2>1
    <3>2. OnWire(t) \subseteq D
      BY <2>2 DEF OnWire, NoPacket
    <3>3. \/ \E d \in D : wire' = [wire EXCEPT ![cur[t]] = Append(wire[cur[t]], d)]
          \/ wire' = wire
      BY <1>3, <3>2 DEF RIOSend
    <3>4. \A d \in D : Append(wire[cur[t]], d) \in Seq(D)
      BY <3>1, AppendProperties
    <3> HIDE DEF D
    <3>5. wire' \in [Sessions -> Seq(D)]
      BY <3>1, <3>3, <3>4
    <3>6. QED
      BY <3>5 DEF D
  <2>5. UNCHANGED <<sendDisconnect, sendQueue, reservedBuffer, handed>>
    BY <1>3 DEF RIOSend
  <2>6. QED
    BY <2>3, <2>4, <2>5
<1>4. ASSUME NEW a \in Apps, SetSendDisconnect(a) PROVE SendTypeOK'
  BY <1>4 DEF SetSendDisconnect
<1>5. CASE UNCHANGED sendVars
  BY <1>5
<1>6. QED
  BY <1>1, <1>2, <1>3, <1>4, <1>5, SendChange

(* A step keeps the history variables' types.                              *)
LEMMA HistoryTypeStep ==
  ASSUME TypeOK, Control, [Next]_vars PROVE HistoryTypeOK'
<1> USE DEF TypeOK, HistoryTypeOK
<1>1. CASE AcceptSession
  BY <1>1 DEF AcceptSession
<1>2. ASSUME NEW t \in Threads, CountRecv(t) \/ CountSend(t) PROVE HistoryTypeOK'
  <2>1. cur[t] \in Sessions
    BY <1>2, Busy DEF CountRecv, CountSend
  <2>2. QED
    BY <1>2, <2>1 DEF CountRecv, CountSend, TakesReference
<1>3. ASSUME NEW t \in Threads, OnSessionReleased(t) PROVE HistoryTypeOK'
  <2>1. cur[t] \in Sessions
    BY <1>3, Busy DEF OnSessionReleased
  <2>2. QED
    BY <1>3, <2>1 DEF OnSessionReleased
<1>4. ASSUME NEW w \in Workers, RecvCompleted(w) PROVE HistoryTypeOK'
  <2>1. cur[w] \in Sessions
    BY <1>4, Busy DEF RecvCompleted, Threads
  <2>2. QED
    BY <1>4, <2>1 DEF RecvCompleted
<1>5. ASSUME NEW w \in Workers, NEW s \in Sessions, DequeueRecv(w, s) \/ DequeueSend(w, s)
      PROVE  HistoryTypeOK'
  BY <1>5 DEF DequeueRecv, DequeueSend
<1>6. CASE UNCHANGED ghostVars
  BY <1>6
<1>7. QED
  BY <1>1, <1>2, <1>3, <1>4, <1>5, <1>6, HistoryChange

(* A step keeps all types and the control flow.                            *)
LEMMA TypeStep ==
  ASSUME TypeOK, Control, [Next]_vars PROVE TypeOK' /\ Control'
BY ThreadStep, RegistryTypeStep, IoTypeStep, SendTypeStep, HistoryTypeStep DEF TypeOK

(* The process starts with every variable in its type.                     *)
LEMMA TypeInit == Init => TypeOK /\ Control
BY ConstantsAssumption
   DEF Init, TypeOK, ThreadTypeOK, RegistryTypeOK, IoTypeOK, SendTypeOK, HistoryTypeOK,
       Control, ThreadControl, AccepterControl, WorkerControl, AppControl, Labels, Threads,
       Workers, NoSession, NoPacket, NoStream

(* Every variable of RIOServer keeps its type, and every thread its        *)
(* control flow.                                                           *)
THEOREM TypeCorrect == Spec => [](TypeOK /\ Control)
<1>1. Init => TypeOK /\ Control
  BY TypeInit
<1>2. TypeOK /\ Control /\ [Next]_vars => (TypeOK /\ Control)'
  BY TypeStep
<1>3. QED
  BY <1>1, <1>2, PTL DEF Spec

-----------------------------------------------------------------------------
(* The parts of the inductive invariant.                                  *)

(* The session AcceptSession makes was untouched.                          *)
LEMMA AcceptsUntouched ==
  ASSUME TypeOK, IdsInOrder, AcceptSession
  PROVE  \E n \in Sessions, w \in Workers :
           /\ Untouched(n)
           /\ nextSessionId' = n
           /\ threadId' = [threadId EXCEPT ![n] = w]
           /\ pc[Accepter] = "idle"
           /\ UNCHANGED threadVars \/ Call(Accepter, n, "publish", "dec")
           /\ UNCHANGED <<recvOps, sendOps>>
<1>1. nextSessionId' \in Sessions /\ nextSessionId' > nextSessionId
  BY ConstantsAssumption
     DEF AcceptSession, TypeOK, RegistryTypeOK, Sessions, FirstSessionId, NoSession
<1>2. Untouched(nextSessionId')
  BY <1>1 DEF IdsInOrder
<1>3. QED
  BY <1>1, <1>2 DEF AcceptSession

(* INVALID_SESSION_ID is no session's id.                                  *)
LEMMA NoSessionIsNone == NoSession \notin Sessions
BY DEF Sessions, FirstSessionId, NoSession

(* MakeSendStream and RIOSend without their data.                          *)
LEMMA MakeSendStreamControl ==
  ASSUME NEW t \in Threads, MakeSendStream(t)
  PROVE  /\ pc[t] = "make"
         /\ Return(t) \/ Goto(t, "sendCount")
         /\ UNCHANGED <<registryVars, ioVars, ghostVars>>
BY DEF MakeSendStream

(* RIOSend without its data.                                               *)
LEMMA RIOSendControl ==
  ASSUME NEW t \in Threads, RIOSend(t)
  PROVE  /\ pc[t] = "RIOSend"
         /\ \/ Goto(t, "cas") /\ sendOps' = [sendOps EXCEPT ![cur[t]] = @ + 1]
            \/ Goto(t, "dec") /\ UNCHANGED sendOps
         /\ UNCHANGED <<registryVars, ghostVars, conn, recvOps, ioCount, ioMode>>
BY DEF RIOSend, SendFailed

(* Every step keeps the sends apart.                                       *)
LEMMA SendStep ==
  ASSUME TypeOK, Control, IdsInOrder, OwnWorker, SendInv, [Next]_vars
  PROVE  SendInv'
<1> SUFFICES ASSUME NEW s \in Sessions PROVE SendMutex(s)'
  BY DEF SendInv
<1> USE ConstantsAssumption, NoSessionIsNone
    DEF TypeOK, ThreadTypeOK, IoTypeOK, SendInv, SendMutex, Sends, UndoesSend,
        OwnWorker, Threads, Goto, Call, Return, Caller, Control, ThreadControl,
        AccepterControl, WorkerControl, AppControl, SendLabels, Releasing
<1>1. CASE AcceptSession
  BY <1>1 DEF AcceptSession, IdsInOrder, Untouched
<1>2. CASE Publish
  BY <1>2 DEF Publish
<1>3. CASE OnSessionEntered
  BY <1>3 DEF OnSessionEntered
<1>4. CASE CountSession
  BY <1>4 DEF CountSession
<1>5. ASSUME NEW t \in Threads, RIOReceive(t) PROVE SendMutex(s)'
  BY <1>5 DEF RIOReceive
<1>6. ASSUME NEW t \in Threads, CountRecv(t) PROVE SendMutex(s)'
  BY <1>6 DEF CountRecv, TakesReference
<1>7. ASSUME NEW t \in Threads, IOCountDecrement(t) PROVE SendMutex(s)'
  BY <1>7 DEF IOCountDecrement
<1>8. ASSUME NEW t \in Threads, OnSessionLeaved(t) PROVE SendMutex(s)'
  BY <1>8 DEF OnSessionLeaved
<1>9. ASSUME NEW t \in Threads, CloseSocket(t) PROVE SendMutex(s)'
  BY <1>9 DEF CloseSocket
<1>10. ASSUME NEW t \in Threads, EraseSession(t) PROVE SendMutex(s)'
  BY <1>10 DEF EraseSession
<1>11. ASSUME NEW t \in Threads, OnSessionReleased(t) PROVE SendMutex(s)'
  BY <1>11 DEF OnSessionReleased
<1>12. ASSUME NEW t \in Threads, Enqueue(t) PROVE SendMutex(s)'
  BY <1>12 DEF Enqueue
<1>13. ASSUME NEW t \in Threads, TrySending(t) PROVE SendMutex(s)'
  BY <1>13 DEF TrySending
<1>14. ASSUME NEW t \in Threads, MakeSendStream(t) PROVE SendMutex(s)'
  BY <1>14, MakeSendStreamControl
<1>15. ASSUME NEW t \in Threads, CountSend(t) PROVE SendMutex(s)'
  BY <1>15 DEF CountSend, TakesReference
<1>16. ASSUME NEW t \in Threads, RIOSend(t) PROVE SendMutex(s)'
  BY <1>16 DEF RIOSend, SendFailed
<1>17. ASSUME NEW w \in Workers, HandlerReplies(w) PROVE SendMutex(s)'
  BY <1>17 DEF HandlerReplies
<1>18. ASSUME NEW w \in Workers, RecvCompleted(w) PROVE SendMutex(s)'
  BY <1>18 DEF RecvCompleted
<1>19. ASSUME NEW w \in Workers, SendIOCompleted(w) PROVE SendMutex(s)'
  BY <1>19 DEF SendIOCompleted
<1>20. ASSUME NEW w \in Workers, SendCompleted(w) PROVE SendMutex(s)'
  BY <1>20 DEF SendCompleted, Disconnect
<1>21. ASSUME NEW w \in Workers, NEW c \in Sessions, DequeueRecv(w, c)
       PROVE  SendMutex(s)'
  BY <1>21 DEF DequeueRecv
<1>22. ASSUME NEW w \in Workers, NEW c \in Sessions, DequeueSend(w, c)
       PROVE  SendMutex(s)'
  BY <1>22 DEF DequeueSend
<1>23. ASSUME NEW a \in Apps, SetSendDisconnect(a) PROVE SendMutex(s)'
  BY <1>23 DEF SetSendDisconnect
<1>24. ASSUME NEW a \in Apps, NEW c \in Sessions, AppSendPacket(a, c)
       PROVE  SendMutex(s)'
  BY <1>24 DEF AppSendPacket
<1>25. ASSUME NEW a \in Apps, NEW c \in Sessions, AppSendPacketAndDisconnect(a, c)
       PROVE  SendMutex(s)'
  BY <1>25 DEF AppSendPacketAndDisconnect
<1>26. ASSUME NEW a \in Apps, NEW c \in Sessions, AppDisconnect(a, c)
       PROVE  SendMutex(s)'
  BY <1>26 DEF AppDisconnect, Disconnect
<1>27. ASSUME NEW c \in Sessions, ConnectionLost(c) PROVE SendMutex(s)'
  BY <1>27 DEF ConnectionLost
<1>28. CASE UNCHANGED vars
  BY <1>28 DEF vars
<1>29. QED
  BY <1>1, <1>2, <1>3, <1>4, <1>5, <1>6, <1>7, <1>8, <1>9, <1>10, <1>11, <1>12, <1>13,
     <1>14, <1>15, <1>16, <1>17, <1>18, <1>19, <1>20, <1>21, <1>22, <1>23, <1>24,
     <1>25, <1>26, <1>27, <1>28
     DEF Next, AccepterStep, CallStep, WorkerStep, DequeueCompletion, AppCall

(* Every step keeps the receives apart.                                    *)
LEMMA ReceiveStep ==
  ASSUME TypeOK, Control, Identity, ReceiveInv, [Next]_vars
  PROVE  ReceiveInv'
<1> SUFFICES ASSUME NEW s \in Sessions PROVE OneReceive(s)'
  BY DEF ReceiveInv
<1> USE ConstantsAssumption, NoSessionIsNone
    DEF TypeOK, ThreadTypeOK, IoTypeOK, RegistryTypeOK, ReceiveInv, OneReceive,
        AccepterPosts, WorkerPosts, Bit, Identity, OwnWorker, Threads, Goto, Call,
        Return, Caller, Control, ThreadControl, AccepterControl, WorkerControl,
        AppControl, SendLabels, Releasing
<1>1. CASE AcceptSession
  <2>1. PICK n \in Sessions, v \in Workers :
          /\ Untouched(n)
          /\ threadId' = [threadId EXCEPT ![n] = v]
          /\ pc[Accepter] = "idle"
          /\ UNCHANGED threadVars \/ Call(Accepter, n, "publish", "dec")
          /\ UNCHANGED <<recvOps, sendOps>>
    BY <1>1, AcceptsUntouched DEF Identity
  <2>2. QED
    BY <2>1 DEF Untouched
<1>2. CASE Publish
  BY <1>2 DEF Publish
<1>3. CASE OnSessionEntered
  BY <1>3 DEF OnSessionEntered
<1>4. CASE CountSession
  BY <1>4 DEF CountSession
<1>5. ASSUME NEW t \in Threads, RIOReceive(t) PROVE OneReceive(s)'
  BY <1>5 DEF RIOReceive
<1>6. ASSUME NEW t \in Threads, CountRecv(t) PROVE OneReceive(s)'
  BY <1>6 DEF CountRecv, TakesReference
<1>7. ASSUME NEW t \in Threads, IOCountDecrement(t) PROVE OneReceive(s)'
  BY <1>7 DEF IOCountDecrement
<1>8. ASSUME NEW t \in Threads, OnSessionLeaved(t) PROVE OneReceive(s)'
  BY <1>8 DEF OnSessionLeaved
<1>9. ASSUME NEW t \in Threads, CloseSocket(t) PROVE OneReceive(s)'
  BY <1>9 DEF CloseSocket
<1>10. ASSUME NEW t \in Threads, EraseSession(t) PROVE OneReceive(s)'
  BY <1>10 DEF EraseSession
<1>11. ASSUME NEW t \in Threads, OnSessionReleased(t) PROVE OneReceive(s)'
  BY <1>11 DEF OnSessionReleased
<1>12. ASSUME NEW t \in Threads, Enqueue(t) PROVE OneReceive(s)'
  BY <1>12 DEF Enqueue
<1>13. ASSUME NEW t \in Threads, TrySending(t) PROVE OneReceive(s)'
  BY <1>13 DEF TrySending
<1>14. ASSUME NEW t \in Threads, MakeSendStream(t) PROVE OneReceive(s)'
  BY <1>14, MakeSendStreamControl
<1>15. ASSUME NEW t \in Threads, CountSend(t) PROVE OneReceive(s)'
  BY <1>15 DEF CountSend, TakesReference
<1>16. ASSUME NEW t \in Threads, RIOSend(t) PROVE OneReceive(s)'
  BY <1>16, RIOSendControl
<1>17. ASSUME NEW w \in Workers, HandlerReplies(w) PROVE OneReceive(s)'
  BY <1>17 DEF HandlerReplies
<1>18. ASSUME NEW w \in Workers, RecvCompleted(w) PROVE OneReceive(s)'
  BY <1>18 DEF RecvCompleted
<1>19. ASSUME NEW w \in Workers, SendIOCompleted(w) PROVE OneReceive(s)'
  BY <1>19 DEF SendIOCompleted
<1>20. ASSUME NEW w \in Workers, SendCompleted(w) PROVE OneReceive(s)'
  BY <1>20 DEF SendCompleted, Disconnect
<1>21. ASSUME NEW w \in Workers, NEW c \in Sessions, DequeueRecv(w, c)
       PROVE  OneReceive(s)'
  BY <1>21 DEF DequeueRecv
<1>22. ASSUME NEW w \in Workers, NEW c \in Sessions, DequeueSend(w, c)
       PROVE  OneReceive(s)'
  BY <1>22 DEF DequeueSend
<1>23. ASSUME NEW a \in Apps, SetSendDisconnect(a) PROVE OneReceive(s)'
  BY <1>23 DEF SetSendDisconnect
<1>24. ASSUME NEW a \in Apps, NEW c \in Sessions, AppSendPacket(a, c)
       PROVE  OneReceive(s)'
  BY <1>24 DEF AppSendPacket
<1>25. ASSUME NEW a \in Apps, NEW c \in Sessions, AppSendPacketAndDisconnect(a, c)
       PROVE  OneReceive(s)'
  BY <1>25 DEF AppSendPacketAndDisconnect
<1>26. ASSUME NEW a \in Apps, NEW c \in Sessions, AppDisconnect(a, c)
       PROVE  OneReceive(s)'
  BY <1>26 DEF AppDisconnect, Disconnect
<1>27. ASSUME NEW c \in Sessions, ConnectionLost(c) PROVE OneReceive(s)'
  BY <1>27 DEF ConnectionLost
<1>28. CASE UNCHANGED vars
  BY <1>28 DEF vars
<1>29. QED
  BY <1>1, <1>2, <1>3, <1>4, <1>5, <1>6, <1>7, <1>8, <1>9, <1>10, <1>11, <1>12, <1>13,
     <1>14, <1>15, <1>16, <1>17, <1>18, <1>19, <1>20, <1>21, <1>22, <1>23, <1>24,
     <1>25, <1>26, <1>27, <1>28
     DEF Next, AccepterStep, CallStep, WorkerStep, DequeueCompletion, AppCall

(* No step touches a session whose id has not been given out.              *)
LEMMA IdsStep ==
  ASSUME TypeOK, Control, IdsInOrder, [Next]_vars
  PROVE  IdsInOrder'
<1> SUFFICES ASSUME NEW s \in Sessions PROVE (s > nextSessionId => Untouched(s))'
  BY DEF IdsInOrder
<1> USE ConstantsAssumption, NoSessionIsNone
    DEF TypeOK, ThreadTypeOK, IoTypeOK, RegistryTypeOK, HistoryTypeOK, IdsInOrder,
        Untouched, Threads, Goto, Call, Return, Caller, Control, ThreadControl,
        AccepterControl, WorkerControl, AppControl, SendLabels, Releasing
<1>1. CASE AcceptSession
  BY SMTT(40), <1>1 DEF AcceptSession, Sessions, FirstSessionId, NoSession
<1>2. CASE Publish
  BY <1>2 DEF Publish
<1>3. CASE OnSessionEntered
  BY <1>3 DEF OnSessionEntered
<1>4. CASE CountSession
  BY <1>4 DEF CountSession
<1>5. ASSUME NEW t \in Threads, RIOReceive(t)
      PROVE  (s > nextSessionId => Untouched(s))'
  BY <1>5 DEF RIOReceive
<1>6. ASSUME NEW t \in Threads, CountRecv(t)
      PROVE  (s > nextSessionId => Untouched(s))'
  BY <1>6 DEF CountRecv, TakesReference
<1>7. ASSUME NEW t \in Threads, IOCountDecrement(t)
      PROVE  (s > nextSessionId => Untouched(s))'
  BY <1>7 DEF IOCountDecrement
<1>8. ASSUME NEW t \in Threads, OnSessionLeaved(t)
      PROVE  (s > nextSessionId => Untouched(s))'
  BY <1>8 DEF OnSessionLeaved
<1>9. ASSUME NEW t \in Threads, CloseSocket(t)
      PROVE  (s > nextSessionId => Untouched(s))'
  BY <1>9 DEF CloseSocket
<1>10. ASSUME NEW t \in Threads, EraseSession(t)
       PROVE  (s > nextSessionId => Untouched(s))'
  BY <1>10 DEF EraseSession
<1>11. ASSUME NEW t \in Threads, OnSessionReleased(t)
       PROVE  (s > nextSessionId => Untouched(s))'
  BY <1>11 DEF OnSessionReleased
<1>12. ASSUME NEW t \in Threads, Enqueue(t)
       PROVE  (s > nextSessionId => Untouched(s))'
  BY <1>12 DEF Enqueue
<1>13. ASSUME NEW t \in Threads, TrySending(t)
       PROVE  (s > nextSessionId => Untouched(s))'
  BY <1>13 DEF TrySending
<1>14. ASSUME NEW t \in Threads, MakeSendStream(t)
       PROVE  (s > nextSessionId => Untouched(s))'
  BY <1>14, MakeSendStreamControl
<1>15. ASSUME NEW t \in Threads, CountSend(t)
       PROVE  (s > nextSessionId => Untouched(s))'
  BY <1>15 DEF CountSend, TakesReference
<1>16. ASSUME NEW t \in Threads, RIOSend(t)
       PROVE  (s > nextSessionId => Untouched(s))'
  BY <1>16, RIOSendControl
<1>17. ASSUME NEW w \in Workers, HandlerReplies(w)
       PROVE  (s > nextSessionId => Untouched(s))'
  BY <1>17 DEF HandlerReplies
<1>18. ASSUME NEW w \in Workers, RecvCompleted(w)
       PROVE  (s > nextSessionId => Untouched(s))'
  BY <1>18 DEF RecvCompleted
<1>19. ASSUME NEW w \in Workers, SendIOCompleted(w)
       PROVE  (s > nextSessionId => Untouched(s))'
  BY <1>19 DEF SendIOCompleted
<1>20. ASSUME NEW w \in Workers, SendCompleted(w)
       PROVE  (s > nextSessionId => Untouched(s))'
  BY <1>20 DEF SendCompleted, Disconnect
<1>21. ASSUME NEW w \in Workers, NEW c \in Sessions, DequeueRecv(w, c)
       PROVE  (s > nextSessionId => Untouched(s))'
  BY <1>21 DEF DequeueRecv
<1>22. ASSUME NEW w \in Workers, NEW c \in Sessions, DequeueSend(w, c)
       PROVE  (s > nextSessionId => Untouched(s))'
  BY <1>22 DEF DequeueSend
<1>23. ASSUME NEW a \in Apps, SetSendDisconnect(a)
       PROVE  (s > nextSessionId => Untouched(s))'
  BY <1>23 DEF SetSendDisconnect
<1>24. ASSUME NEW a \in Apps, NEW c \in Sessions, AppSendPacket(a, c)
       PROVE  (s > nextSessionId => Untouched(s))'
  BY <1>24 DEF AppSendPacket
<1>25. ASSUME NEW a \in Apps, NEW c \in Sessions, AppSendPacketAndDisconnect(a, c)
       PROVE  (s > nextSessionId => Untouched(s))'
  BY <1>25 DEF AppSendPacketAndDisconnect
<1>26. ASSUME NEW a \in Apps, NEW c \in Sessions, AppDisconnect(a, c)
       PROVE  (s > nextSessionId => Untouched(s))'
  BY <1>26 DEF AppDisconnect, Disconnect
<1>27. ASSUME NEW c \in Sessions, ConnectionLost(c)
       PROVE  (s > nextSessionId => Untouched(s))'
  BY <1>27 DEF ConnectionLost
<1>28. CASE UNCHANGED vars
  BY <1>28 DEF vars
<1>29. QED
  BY <1>1, <1>2, <1>3, <1>4, <1>5, <1>6, <1>7, <1>8, <1>9, <1>10, <1>11, <1>12, <1>13,
     <1>14, <1>15, <1>16, <1>17, <1>18, <1>19, <1>20, <1>21, <1>22, <1>23, <1>24,
     <1>25, <1>26, <1>27, <1>28
     DEF Next, AccepterStep, CallStep, WorkerStep, DequeueCompletion, AppCall

(* No step touches a session before it is published.                       *)
LEMMA PublishStep ==
  ASSUME TypeOK, Control, IdsInOrder, PublishesFresh, [Next]_vars
  PROVE  PublishesFresh'
<1> USE ConstantsAssumption, NoSessionIsNone
    DEF TypeOK, ThreadTypeOK, IoTypeOK, RegistryTypeOK, HistoryTypeOK,
        PublishesFresh, Threads, Goto, Call, Return, Caller, Control, ThreadControl,
        AccepterControl, WorkerControl, AppControl, SendLabels, Releasing
<1>1. CASE AcceptSession
  BY <1>1
     DEF AcceptSession, Sessions, FirstSessionId, NoSession, IdsInOrder, Untouched
<1>2. CASE Publish
  BY <1>2 DEF Publish
<1>3. CASE OnSessionEntered
  BY <1>3 DEF OnSessionEntered
<1>4. CASE CountSession
  BY <1>4 DEF CountSession
<1>5. ASSUME NEW t \in Threads, RIOReceive(t) PROVE PublishesFresh'
  BY <1>5 DEF RIOReceive
<1>6. ASSUME NEW t \in Threads, CountRecv(t) PROVE PublishesFresh'
  BY <1>6 DEF CountRecv, TakesReference
<1>7. ASSUME NEW t \in Threads, IOCountDecrement(t) PROVE PublishesFresh'
  BY <1>7 DEF IOCountDecrement
<1>8. ASSUME NEW t \in Threads, OnSessionLeaved(t) PROVE PublishesFresh'
  BY <1>8 DEF OnSessionLeaved
<1>9. ASSUME NEW t \in Threads, CloseSocket(t) PROVE PublishesFresh'
  BY <1>9 DEF CloseSocket
<1>10. ASSUME NEW t \in Threads, EraseSession(t) PROVE PublishesFresh'
  BY <1>10 DEF EraseSession
<1>11. ASSUME NEW t \in Threads, OnSessionReleased(t) PROVE PublishesFresh'
  BY <1>11 DEF OnSessionReleased
<1>12. ASSUME NEW t \in Threads, Enqueue(t) PROVE PublishesFresh'
  BY <1>12 DEF Enqueue
<1>13. ASSUME NEW t \in Threads, TrySending(t) PROVE PublishesFresh'
  BY <1>13 DEF TrySending
<1>14. ASSUME NEW t \in Threads, MakeSendStream(t) PROVE PublishesFresh'
  BY <1>14, MakeSendStreamControl
<1>15. ASSUME NEW t \in Threads, CountSend(t) PROVE PublishesFresh'
  BY <1>15 DEF CountSend, TakesReference
<1>16. ASSUME NEW t \in Threads, RIOSend(t) PROVE PublishesFresh'
  BY <1>16, RIOSendControl
<1>17. ASSUME NEW w \in Workers, HandlerReplies(w) PROVE PublishesFresh'
  BY <1>17 DEF HandlerReplies
<1>18. ASSUME NEW w \in Workers, RecvCompleted(w) PROVE PublishesFresh'
  BY <1>18 DEF RecvCompleted
<1>19. ASSUME NEW w \in Workers, SendIOCompleted(w) PROVE PublishesFresh'
  BY <1>19 DEF SendIOCompleted
<1>20. ASSUME NEW w \in Workers, SendCompleted(w) PROVE PublishesFresh'
  BY <1>20 DEF SendCompleted, Disconnect
<1>21. ASSUME NEW w \in Workers, NEW c \in Sessions, DequeueRecv(w, c)
       PROVE  PublishesFresh'
  BY <1>21 DEF DequeueRecv
<1>22. ASSUME NEW w \in Workers, NEW c \in Sessions, DequeueSend(w, c)
       PROVE  PublishesFresh'
  BY <1>22 DEF DequeueSend
<1>23. ASSUME NEW a \in Apps, SetSendDisconnect(a) PROVE PublishesFresh'
  BY <1>23 DEF SetSendDisconnect
<1>24. ASSUME NEW a \in Apps, NEW c \in Sessions, AppSendPacket(a, c)
       PROVE  PublishesFresh'
  BY <1>24 DEF AppSendPacket
<1>25. ASSUME NEW a \in Apps, NEW c \in Sessions, AppSendPacketAndDisconnect(a, c)
       PROVE  PublishesFresh'
  BY <1>25 DEF AppSendPacketAndDisconnect
<1>26. ASSUME NEW a \in Apps, NEW c \in Sessions, AppDisconnect(a, c)
       PROVE  PublishesFresh'
  BY <1>26 DEF AppDisconnect, Disconnect
<1>27. ASSUME NEW c \in Sessions, ConnectionLost(c) PROVE PublishesFresh'
  BY <1>27 DEF ConnectionLost
<1>28. CASE UNCHANGED vars
  BY <1>28 DEF vars
<1>29. QED
  BY <1>1, <1>2, <1>3, <1>4, <1>5, <1>6, <1>7, <1>8, <1>9, <1>10, <1>11, <1>12, <1>13,
     <1>14, <1>15, <1>16, <1>17, <1>18, <1>19, <1>20, <1>21, <1>22, <1>23, <1>24,
     <1>25, <1>26, <1>27, <1>28
     DEF Next, AccepterStep, CallStep, WorkerStep, DequeueCompletion, AppCall

(* No step gives a worker another worker's session.                        *)
LEMMA OwnWorkerStep ==
  ASSUME TypeOK, Control, IdsInOrder, OwnWorker, [Next]_vars
  PROVE  OwnWorker'
<1> USE ConstantsAssumption, NoSessionIsNone
    DEF TypeOK, ThreadTypeOK, IoTypeOK, RegistryTypeOK, HistoryTypeOK, OwnWorker,
        Threads, Goto, Call, Return, Caller, Control, ThreadControl,
        AccepterControl, WorkerControl, AppControl, SendLabels, Releasing
<1>1. CASE AcceptSession
  <2>1. PICK n \in Sessions, v \in Workers :
          /\ Untouched(n)
          /\ threadId' = [threadId EXCEPT ![n] = v]
          /\ pc[Accepter] = "idle"
          /\ UNCHANGED threadVars \/ Call(Accepter, n, "publish", "dec")
          /\ UNCHANGED <<recvOps, sendOps>>
    BY <1>1, AcceptsUntouched DEF Identity
  <2>2. QED
    BY <2>1 DEF Untouched
<1>2. CASE Publish
  BY <1>2 DEF Publish
<1>3. CASE OnSessionEntered
  BY <1>3 DEF OnSessionEntered
<1>4. CASE CountSession
  BY <1>4 DEF CountSession
<1>5. ASSUME NEW t \in Threads, RIOReceive(t) PROVE OwnWorker'
  BY <1>5 DEF RIOReceive
<1>6. ASSUME NEW t \in Threads, CountRecv(t) PROVE OwnWorker'
  BY <1>6 DEF CountRecv, TakesReference
<1>7. ASSUME NEW t \in Threads, IOCountDecrement(t) PROVE OwnWorker'
  BY <1>7 DEF IOCountDecrement
<1>8. ASSUME NEW t \in Threads, OnSessionLeaved(t) PROVE OwnWorker'
  BY <1>8 DEF OnSessionLeaved
<1>9. ASSUME NEW t \in Threads, CloseSocket(t) PROVE OwnWorker'
  BY <1>9 DEF CloseSocket
<1>10. ASSUME NEW t \in Threads, EraseSession(t) PROVE OwnWorker'
  BY <1>10 DEF EraseSession
<1>11. ASSUME NEW t \in Threads, OnSessionReleased(t) PROVE OwnWorker'
  BY <1>11 DEF OnSessionReleased
<1>12. ASSUME NEW t \in Threads, Enqueue(t) PROVE OwnWorker'
  BY <1>12 DEF Enqueue
<1>13. ASSUME NEW t \in Threads, TrySending(t) PROVE OwnWorker'
  BY <1>13 DEF TrySending
<1>14. ASSUME NEW t \in Threads, MakeSendStream(t) PROVE OwnWorker'
  BY <1>14, MakeSendStreamControl
<1>15. ASSUME NEW t \in Threads, CountSend(t) PROVE OwnWorker'
  BY <1>15 DEF CountSend, TakesReference
<1>16. ASSUME NEW t \in Threads, RIOSend(t) PROVE OwnWorker'
  BY <1>16, RIOSendControl
<1>17. ASSUME NEW w \in Workers, HandlerReplies(w) PROVE OwnWorker'
  BY <1>17 DEF HandlerReplies
<1>18. ASSUME NEW w \in Workers, RecvCompleted(w) PROVE OwnWorker'
  BY <1>18 DEF RecvCompleted
<1>19. ASSUME NEW w \in Workers, SendIOCompleted(w) PROVE OwnWorker'
  BY <1>19 DEF SendIOCompleted
<1>20. ASSUME NEW w \in Workers, SendCompleted(w) PROVE OwnWorker'
  BY <1>20 DEF SendCompleted, Disconnect
<1>21. ASSUME NEW w \in Workers, NEW c \in Sessions, DequeueRecv(w, c)
       PROVE  OwnWorker'
  BY <1>21 DEF DequeueRecv
<1>22. ASSUME NEW w \in Workers, NEW c \in Sessions, DequeueSend(w, c)
       PROVE  OwnWorker'
  BY <1>22 DEF DequeueSend
<1>23. ASSUME NEW a \in Apps, SetSendDisconnect(a) PROVE OwnWorker'
  BY <1>23 DEF SetSendDisconnect
<1>24. ASSUME NEW a \in Apps, NEW c \in Sessions, AppSendPacket(a, c)
       PROVE  OwnWorker'
  BY <1>24 DEF AppSendPacket
<1>25. ASSUME NEW a \in Apps, NEW c \in Sessions, AppSendPacketAndDisconnect(a, c)
       PROVE  OwnWorker'
  BY <1>25 DEF AppSendPacketAndDisconnect
<1>26. ASSUME NEW a \in Apps, NEW c \in Sessions, AppDisconnect(a, c)
       PROVE  OwnWorker'
  BY <1>26 DEF AppDisconnect, Disconnect
<1>27. ASSUME NEW c \in Sessions, ConnectionLost(c) PROVE OwnWorker'
  BY <1>27 DEF ConnectionLost
<1>28. CASE UNCHANGED vars
  BY <1>28 DEF vars
<1>29. QED
  BY <1>1, <1>2, <1>3, <1>4, <1>5, <1>6, <1>7, <1>8, <1>9, <1>10, <1>11, <1>12, <1>13,
     <1>14, <1>15, <1>16, <1>17, <1>18, <1>19, <1>20, <1>21, <1>22, <1>23, <1>24,
     <1>25, <1>26, <1>27, <1>28
     DEF Next, AccepterStep, CallStep, WorkerStep, DequeueCompletion, AppCall

-----------------------------------------------------------------------------
(* The holders of a session's references, and the counts, stay the same.   *)
SameHolders(s) ==
  /\ \A u \in Threads : HoldsSend(u, s)' <=> HoldsSend(u, s)
  /\ AccepterHolds(s)' <=> AccepterHolds(s)
  /\ Uncounted(Accepter, s)' <=> Uncounted(Accepter, s)
  /\ WorkerHolds(s)' <=> WorkerHolds(s)
  /\ Uncounted(threadId[s], s)' <=> Uncounted(threadId[s], s)

SameCounts(s) ==
  /\ ioCount'[s] = ioCount[s] /\ abandoned'[s] = abandoned[s]
  /\ recvOps'[s] = recvOps[s] /\ sendOps'[s] = sendOps[s]

(* The steps that move references, for the session they move them of.      *)
MovesReference(s) ==
  \/ AcceptSession /\ nextSessionId' = s
  \/ \E t \in Threads : /\ cur[t] = s
                        /\ \/ RIOReceive(t) \/ CountRecv(t) \/ IOCountDecrement(t)
                           \/ CountSend(t) \/ RIOSend(t)
  \/ \E w \in Workers : DequeueRecv(w, s) \/ DequeueSend(w, s)

(* All other steps leave a session's references where they are.            *)
LEMMA WhoMovesReferences ==
  ASSUME NEW s \in Sessions, TypeOK, Control, Identity, [Next]_vars
  PROVE  MovesReference(s) \/ (SameHolders(s) /\ SameCounts(s))
<1> USE ConstantsAssumption, NoSessionIsNone
    DEF TypeOK, ThreadTypeOK, RegistryTypeOK, IoTypeOK, HistoryTypeOK, HoldsSend,
        UndoesSend, AccepterHolds, WorkerHolds, Handles, Uncounted, Identity,
        OwnWorker, Threads, Goto, Call, Return, Caller, Control, ThreadControl,
        AccepterControl, WorkerControl, AppControl, SendLabels, Releasing
<1>1. CASE AcceptSession
  <2>1. CASE ~(nextSessionId' # s)
    BY <1>1, <2>1 DEF MovesReference
  <2>2. CASE nextSessionId' # s
    <3>1. SameHolders(s)
      BY <2>2, <1>1 DEF SameHolders, AcceptSession
    <3>2. SameCounts(s)
      BY <2>2, <1>1 DEF SameCounts, AcceptSession
    <3>3. QED
      BY <3>1, <3>2
  <2>3. QED
    BY <2>1, <2>2
<1>2. CASE Publish
  <2>1. SameHolders(s)
    BY <1>2 DEF SameHolders, Publish
  <2>2. SameCounts(s)
    BY <1>2 DEF SameCounts, Publish
  <2>3. QED
    BY <2>1, <2>2
<1>3. CASE OnSessionEntered
  <2>1. SameHolders(s)
    BY <1>3 DEF SameHolders, OnSessionEntered
  <2>2. SameCounts(s)
    BY <1>3 DEF SameCounts, OnSessionEntered
  <2>3. QED
    BY <2>1, <2>2
<1>4. CASE CountSession
  <2>1. SameHolders(s)
    BY <1>4 DEF SameHolders, CountSession
  <2>2. SameCounts(s)
    BY <1>4 DEF SameCounts, CountSession
  <2>3. QED
    BY <2>1, <2>2
<1>5. ASSUME NEW t \in Threads, RIOReceive(t)
      PROVE MovesReference(s) \/ (SameHolders(s) /\ SameCounts(s))
  <2>1. CASE ~(cur[t] # s)
    BY <1>5, <2>1 DEF MovesReference
  <2>2. CASE cur[t] # s
    <3>1. SameHolders(s)
      BY <2>2, <1>5 DEF SameHolders, RIOReceive
    <3>2. SameCounts(s)
      BY <2>2, <1>5 DEF SameCounts, RIOReceive
    <3>3. QED
      BY <3>1, <3>2
  <2>3. QED
    BY <2>1, <2>2
<1>6. ASSUME NEW t \in Threads, CountRecv(t)
      PROVE MovesReference(s) \/ (SameHolders(s) /\ SameCounts(s))
  <2>1. CASE ~(cur[t] # s)
    BY <1>6, <2>1 DEF MovesReference
  <2>2. CASE cur[t] # s
    <3>1. SameHolders(s)
      BY <2>2, <1>6 DEF SameHolders, CountRecv, TakesReference
    <3>2. SameCounts(s)
      BY <2>2, <1>6 DEF SameCounts, CountRecv, TakesReference
    <3>3. QED
      BY <3>1, <3>2
  <2>3. QED
    BY <2>1, <2>2
<1>7. ASSUME NEW t \in Threads, IOCountDecrement(t)
      PROVE MovesReference(s) \/ (SameHolders(s) /\ SameCounts(s))
  <2>1. CASE ~(cur[t] # s)
    BY <1>7, <2>1 DEF MovesReference
  <2>2. CASE cur[t] # s
    <3>1. SameHolders(s)
      BY <2>2, <1>7 DEF SameHolders, IOCountDecrement
    <3>2. SameCounts(s)
      BY <2>2, <1>7 DEF SameCounts, IOCountDecrement
    <3>3. QED
      BY <3>1, <3>2
  <2>3. QED
    BY <2>1, <2>2
<1>8. ASSUME NEW t \in Threads, OnSessionLeaved(t)
      PROVE MovesReference(s) \/ (SameHolders(s) /\ SameCounts(s))
  <2>1. SameHolders(s)
    BY <1>8 DEF SameHolders, OnSessionLeaved
  <2>2. SameCounts(s)
    BY <1>8 DEF SameCounts, OnSessionLeaved
  <2>3. QED
    BY <2>1, <2>2
<1>9. ASSUME NEW t \in Threads, CloseSocket(t)
      PROVE MovesReference(s) \/ (SameHolders(s) /\ SameCounts(s))
  <2>1. SameHolders(s)
    BY <1>9 DEF SameHolders, CloseSocket
  <2>2. SameCounts(s)
    BY <1>9 DEF SameCounts, CloseSocket
  <2>3. QED
    BY <2>1, <2>2
<1>10. ASSUME NEW t \in Threads, EraseSession(t)
       PROVE MovesReference(s) \/ (SameHolders(s) /\ SameCounts(s))
  <2>1. SameHolders(s)
    BY <1>10 DEF SameHolders, EraseSession
  <2>2. SameCounts(s)
    BY <1>10 DEF SameCounts, EraseSession
  <2>3. QED
    BY <2>1, <2>2
<1>11. ASSUME NEW t \in Threads, OnSessionReleased(t)
       PROVE MovesReference(s) \/ (SameHolders(s) /\ SameCounts(s))
  <2>1. SameHolders(s)
    BY <1>11 DEF SameHolders, OnSessionReleased
  <2>2. SameCounts(s)
    BY <1>11 DEF SameCounts, OnSessionReleased
  <2>3. QED
    BY <2>1, <2>2
<1>12. ASSUME NEW t \in Threads, Enqueue(t)
       PROVE MovesReference(s) \/ (SameHolders(s) /\ SameCounts(s))
  <2>1. SameHolders(s)
    BY <1>12 DEF SameHolders, Enqueue
  <2>2. SameCounts(s)
    BY <1>12 DEF SameCounts, Enqueue
  <2>3. QED
    BY <2>1, <2>2
<1>13. ASSUME NEW t \in Threads, TrySending(t)
       PROVE MovesReference(s) \/ (SameHolders(s) /\ SameCounts(s))
  <2>1. SameHolders(s)
    BY <1>13 DEF SameHolders, TrySending
  <2>2. SameCounts(s)
    BY <1>13 DEF SameCounts, TrySending
  <2>3. QED
    BY <2>1, <2>2
<1>14. ASSUME NEW t \in Threads, MakeSendStream(t)
       PROVE MovesReference(s) \/ (SameHolders(s) /\ SameCounts(s))
  <2>1. SameHolders(s)
    BY <1>14, MakeSendStreamControl DEF SameHolders
  <2>2. SameCounts(s)
    BY <1>14, MakeSendStreamControl DEF SameCounts
  <2>3. QED
    BY <2>1, <2>2
<1>15. ASSUME NEW t \in Threads, CountSend(t)
       PROVE MovesReference(s) \/ (SameHolders(s) /\ SameCounts(s))
  <2>1. CASE ~(cur[t] # s)
    BY <1>15, <2>1 DEF MovesReference
  <2>2. CASE cur[t] # s
    <3>1. SameHolders(s)
      BY <2>2, <1>15 DEF SameHolders, CountSend, TakesReference
    <3>2. SameCounts(s)
      BY <2>2, <1>15 DEF SameCounts, CountSend, TakesReference
    <3>3. QED
      BY <3>1, <3>2
  <2>3. QED
    BY <2>1, <2>2
<1>16. ASSUME NEW t \in Threads, RIOSend(t)
       PROVE MovesReference(s) \/ (SameHolders(s) /\ SameCounts(s))
  <2>1. CASE ~(cur[t] # s)
    BY <1>16, <2>1 DEF MovesReference
  <2>2. CASE cur[t] # s
    <3>1. SameHolders(s)
      BY <2>2, RIOSendControl, <1>16 DEF SameHolders
    <3>2. SameCounts(s)
      BY <2>2, RIOSendControl, <1>16 DEF SameCounts
    <3>3. QED
      BY <3>1, <3>2
  <2>3. QED
    BY <2>1, <2>2
<1>17. ASSUME NEW w \in Workers, HandlerReplies(w)
       PROVE MovesReference(s) \/ (SameHolders(s) /\ SameCounts(s))
  <2>1. SameHolders(s)
    BY <1>17 DEF SameHolders, HandlerReplies
  <2>2. SameCounts(s)
    BY <1>17 DEF SameCounts, HandlerReplies
  <2>3. QED
    BY <2>1, <2>2
<1>18. ASSUME NEW w \in Workers, RecvCompleted(w)
       PROVE MovesReference(s) \/ (SameHolders(s) /\ SameCounts(s))
  <2>1. SameHolders(s)
    BY <1>18 DEF SameHolders, RecvCompleted
  <2>2. SameCounts(s)
    BY <1>18 DEF SameCounts, RecvCompleted
  <2>3. QED
    BY <2>1, <2>2
<1>19. ASSUME NEW w \in Workers, SendIOCompleted(w)
       PROVE MovesReference(s) \/ (SameHolders(s) /\ SameCounts(s))
  <2>1. SameHolders(s)
    BY <1>19 DEF SameHolders, SendIOCompleted
  <2>2. SameCounts(s)
    BY <1>19 DEF SameCounts, SendIOCompleted
  <2>3. QED
    BY <2>1, <2>2
<1>20. ASSUME NEW w \in Workers, SendCompleted(w)
       PROVE MovesReference(s) \/ (SameHolders(s) /\ SameCounts(s))
  <2>1. SameHolders(s)
    BY <1>20 DEF SameHolders, SendCompleted, Disconnect
  <2>2. SameCounts(s)
    BY <1>20 DEF SameCounts, SendCompleted, Disconnect
  <2>3. QED
    BY <2>1, <2>2
<1>21. ASSUME NEW w \in Workers, NEW c \in Sessions, DequeueRecv(w, c)
       PROVE MovesReference(s) \/ (SameHolders(s) /\ SameCounts(s))
  <2>1. CASE ~(c # s)
    BY <1>21, <2>1 DEF MovesReference
  <2>2. CASE c # s
    <3>1. SameHolders(s)
      BY <2>2, <1>21 DEF SameHolders, DequeueRecv
    <3>2. SameCounts(s)
      BY <2>2, <1>21 DEF SameCounts, DequeueRecv
    <3>3. QED
      BY <3>1, <3>2
  <2>3. QED
    BY <2>1, <2>2
<1>22. ASSUME NEW w \in Workers, NEW c \in Sessions, DequeueSend(w, c)
       PROVE MovesReference(s) \/ (SameHolders(s) /\ SameCounts(s))
  <2>1. CASE ~(c # s)
    BY <1>22, <2>1 DEF MovesReference
  <2>2. CASE c # s
    <3>1. SameHolders(s)
      BY <2>2, <1>22 DEF SameHolders, DequeueSend
    <3>2. SameCounts(s)
      BY <2>2, <1>22 DEF SameCounts, DequeueSend
    <3>3. QED
      BY <3>1, <3>2
  <2>3. QED
    BY <2>1, <2>2
<1>23. ASSUME NEW a \in Apps, SetSendDisconnect(a)
       PROVE MovesReference(s) \/ (SameHolders(s) /\ SameCounts(s))
  <2>1. SameHolders(s)
    BY <1>23 DEF SameHolders, SetSendDisconnect
  <2>2. SameCounts(s)
    BY <1>23 DEF SameCounts, SetSendDisconnect
  <2>3. QED
    BY <2>1, <2>2
<1>24. ASSUME NEW a \in Apps, NEW c \in Sessions, AppSendPacket(a, c)
       PROVE MovesReference(s) \/ (SameHolders(s) /\ SameCounts(s))
  <2>1. SameHolders(s)
    BY <1>24 DEF SameHolders, AppSendPacket
  <2>2. SameCounts(s)
    BY <1>24 DEF SameCounts, AppSendPacket
  <2>3. QED
    BY <2>1, <2>2
<1>25. ASSUME NEW a \in Apps, NEW c \in Sessions, AppSendPacketAndDisconnect(a, c)
       PROVE  MovesReference(s) \/ (SameHolders(s) /\ SameCounts(s))
  <2>1. SameHolders(s)
    BY <1>25 DEF SameHolders, AppSendPacketAndDisconnect
  <2>2. SameCounts(s)
    BY <1>25 DEF SameCounts, AppSendPacketAndDisconnect
  <2>3. QED
    BY <2>1, <2>2
<1>26. ASSUME NEW a \in Apps, NEW c \in Sessions, AppDisconnect(a, c)
       PROVE MovesReference(s) \/ (SameHolders(s) /\ SameCounts(s))
  <2>1. SameHolders(s)
    BY <1>26 DEF SameHolders, AppDisconnect, Disconnect
  <2>2. SameCounts(s)
    BY <1>26 DEF SameCounts, AppDisconnect, Disconnect
  <2>3. QED
    BY <2>1, <2>2
<1>27. ASSUME NEW c \in Sessions, ConnectionLost(c)
       PROVE MovesReference(s) \/ (SameHolders(s) /\ SameCounts(s))
  <2>1. SameHolders(s)
    BY <1>27 DEF SameHolders, ConnectionLost
  <2>2. SameCounts(s)
    BY <1>27 DEF SameCounts, ConnectionLost
  <2>3. QED
    BY <2>1, <2>2
<1>28. CASE UNCHANGED vars
  <2>1. SameHolders(s)
    BY <1>28 DEF SameHolders, vars
  <2>2. SameCounts(s)
    BY <1>28 DEF SameCounts, vars
  <2>3. QED
    BY <2>1, <2>2
<1>29. QED
  BY <1>1, <1>2, <1>3, <1>4, <1>5, <1>6, <1>7, <1>8, <1>9, <1>10, <1>11, <1>12, <1>13,
     <1>14, <1>15, <1>16, <1>17, <1>18, <1>19, <1>20, <1>21, <1>22, <1>23, <1>24,
     <1>25, <1>26, <1>27, <1>28
     DEF Next, AccepterStep, CallStep, WorkerStep, DequeueCompletion, AppCall

-----------------------------------------------------------------------------
(* SendPost's reference, thread by thread.                                 *)
LEMMA SendHoldsSame ==
  ASSUME NEW s \in Sessions, \A u \in Threads : HoldsSend(u, s)' <=> HoldsSend(u, s)
  PROVE  SendHolds(s)' <=> SendHolds(s)
BY DEF SendHolds

(* When no reference moves the count stays exact.                          *)
LEMMA RefCountSame ==
  ASSUME NEW s \in Sessions, RefCount(s), SameHolders(s), SameCounts(s)
  PROVE  RefCount(s)'
<1>1. SendHolds(s)' <=> SendHolds(s)
  BY SendHoldsSame DEF SameHolders
<1>2. Bit(SendHolds(s))' = Bit(SendHolds(s))
  BY <1>1 DEF Bit
<1>3. Bit(AccepterHolds(s))' = Bit(AccepterHolds(s)) /\ Bit(WorkerHolds(s))' = Bit(WorkerHolds(s))
  BY DEF Bit, SameHolders
<1>4. /\ Bit(Uncounted(Accepter, s))' = Bit(Uncounted(Accepter, s))
      /\ Bit(Uncounted(threadId[s], s))' = Bit(Uncounted(threadId[s], s))
  BY DEF Bit, SameHolders
<1>5. QED
  BY <1>2, <1>3, <1>4 DEF RefCount, SameCounts

(* Every step keeps the count exact.                                       *)
LEMMA RefCountStep ==
  ASSUME TypeOK, Control, Identity, SendInv, RefCountExact, [Next]_vars
  PROVE  RefCountExact'
<1> SUFFICES ASSUME NEW s \in Sessions PROVE RefCount(s)'
  BY DEF RefCountExact
<1>0. RefCount(s)
  BY DEF RefCountExact
<1>t. threadId[s] \in Workers /\ threadId[s] # Accepter /\ threadId[s] \in Threads
  BY ConstantsAssumption DEF TypeOK, RegistryTypeOK, Threads
<1>b. /\ Accepter \in Threads /\ ioCount[s] \in Int /\ recvOps[s] \in Nat /\ sendOps[s] \in Nat
      /\ abandoned[s] \in Nat
  BY DEF TypeOK, IoTypeOK, HistoryTypeOK, Threads
<1> DEFINE A  == AccepterHolds(s)
           W  == WorkerHolds(s)
           S  == SendHolds(s)
           UA == Uncounted(Accepter, s)
           UW == Uncounted(threadId[s], s)
<1>c. /\ Bit(A) \in Int /\ Bit(W) \in Int /\ Bit(S) \in Int /\ Bit(UA) \in Int /\ Bit(UW) \in Int
      /\ Bit(A)' \in Int /\ Bit(W)' \in Int /\ Bit(S)' \in Int
      /\ Bit(UA)' \in Int /\ Bit(UW)' \in Int
  BY DEF Bit
<1> USE ConstantsAssumption, NoSessionIsNone, <1>t, <1>b
   
      DEF TypeOK, ThreadTypeOK, RegistryTypeOK, IoTypeOK, HistoryTypeOK,
          Threads, Goto, Call,
        Return, Caller, Control, ThreadControl, AccepterControl, WorkerControl, AppControl,
        SendLabels, Releasing
<1>1. CASE AcceptSession /\ nextSessionId' = s
  <2>1. Untouched(s) /\ ioCount'[s] = 1 /\ recvOps'[s] = 0 /\ sendOps'[s] = 0
    BY <1>1 DEF AcceptSession, Identity, IdsInOrder, Untouched
  <2>2. ~W' /\ ~S' /\ ~UA' /\ ~UW'
    BY <1>1, <2>1
       DEF Untouched, AcceptSession, WorkerHolds, SendHolds, HoldsSend,
           UndoesSend, Uncounted
  <2>3. Bit(A)' + abandoned'[s] = 1
    BY <1>1, <2>1 DEF Untouched, AcceptSession, AccepterHolds, Bit
  <2>4. QED
    BY <2>1, <2>2, <2>3 DEF RefCount, Bit
<1>2. ASSUME NEW t \in Threads, cur[t] = s, RIOReceive(t) PROVE RefCount(s)'
  <2>1. (A' <=> A) /\ (W' <=> W)
    BY <1>2 DEF RIOReceive, AccepterHolds, WorkerHolds, Handles, Identity, OwnWorker
  <2>2. S' <=> S
    <3>1. \A u \in Threads : HoldsSend(u, s)' <=> HoldsSend(u, s)
      BY <1>2 DEF RIOReceive, HoldsSend, UndoesSend
    <3>2. QED
      BY <3>1, SendHoldsSame
  <2>3. UNCHANGED <<ioCount, abandoned, sendOps, threadId>>
    BY <1>2 DEF RIOReceive
  <2>4. Bit(UA)' + Bit(UW)' - Bit(UA) - Bit(UW) = recvOps'[s] - recvOps[s]
    BY <1>2 DEF RIOReceive, Uncounted, Bit, Identity, OwnWorker
  <2>5. Bit(A)' = Bit(A) /\ Bit(W)' = Bit(W) /\ Bit(S)' = Bit(S)
    BY <2>1, <2>2 DEF Bit
  <2>6. recvOps'[s] \in Int
    BY <1>2 DEF RIOReceive
  <2> HIDE DEF TypeOK, Control, Bit
  <2>7. QED
    BY <1>0, <2>3, <2>4, <2>5, <2>6, <1>c DEF RefCount
<1>3. ASSUME NEW t \in Threads, cur[t] = s, CountRecv(t) PROVE RefCount(s)'
  <2>1. (A' <=> A) /\ (W' <=> W)
    BY <1>3 DEF CountRecv, AccepterHolds, WorkerHolds, Handles, Identity, OwnWorker
  <2>2. S' <=> S
    <3>1. \A u \in Threads : HoldsSend(u, s)' <=> HoldsSend(u, s)
      BY <1>3 DEF CountRecv, HoldsSend, UndoesSend
    <3>2. QED
      BY <3>1, SendHoldsSame
  <2>3. UNCHANGED <<recvOps, abandoned, sendOps, threadId>> /\ ioCount'[s] = ioCount[s] + 1
    BY <1>3 DEF CountRecv, TakesReference
  <2>4. Bit(UA)' + Bit(UW)' = Bit(UA) + Bit(UW) - 1
    BY <1>3 DEF CountRecv, Uncounted, Bit, Identity, OwnWorker
  <2>5. Bit(A)' = Bit(A) /\ Bit(W)' = Bit(W) /\ Bit(S)' = Bit(S)
    BY <2>1, <2>2 DEF Bit
  <2> HIDE DEF TypeOK, Control, Bit
  <2>7. QED
    BY SMTT(40), <1>0, <2>3, <2>4, <2>5, <1>c DEF RefCount
<1>4. ASSUME NEW t \in Threads, cur[t] = s, IOCountDecrement(t) PROVE RefCount(s)'
  <2>1. (UA' <=> UA) /\ (UW' <=> UW)
    BY <1>4 DEF IOCountDecrement, Uncounted, Identity, OwnWorker
  <2>2. UNCHANGED <<recvOps, abandoned, sendOps, threadId>> /\ ioCount'[s] = ioCount[s] - 1
    BY <1>4 DEF IOCountDecrement
  <2>3. \A u \in Threads \ {t} : HoldsSend(u, s)' <=> HoldsSend(u, s)
    BY <1>4 DEF IOCountDecrement, HoldsSend, UndoesSend
  <2>4. ~HoldsSend(t, s)'
    BY <1>4 DEF IOCountDecrement, HoldsSend, UndoesSend
  <2>5. CASE UndoesSend(t)
    <3>1. (A' <=> A) /\ (W' <=> W)
      BY <1>4, <2>5
         DEF IOCountDecrement, UndoesSend, AccepterHolds, WorkerHolds,
             Handles, Identity, OwnWorker
    <3>2. S /\ ~S'
      <4>1. HoldsSend(t, s)
        BY <1>4, <2>5 DEF HoldsSend
      <4>2. \A u \in Threads : HoldsSend(u, s) => u = t
        BY <4>1 DEF SendInv, SendMutex, Sends, HoldsSend
      <4>3. QED
        BY <2>3, <2>4, <4>1, <4>2 DEF SendHolds
    <3>3. QED
      BY <1>0, <2>1, <2>2, <3>1, <3>2 DEF RefCount, Bit
  <2>6. CASE ~UndoesSend(t)
    <3>1. Bit(A)' + Bit(W)' = Bit(A) + Bit(W) - 1
      BY <1>4, <2>6
         DEF IOCountDecrement, UndoesSend, AccepterHolds, WorkerHolds,
             Handles, Identity, OwnWorker, Bit
    <3>2. S' <=> S
      <4>1. ~HoldsSend(t, s)
        BY <1>4, <2>6 DEF HoldsSend, IOCountDecrement
      <4>2. QED
        BY <2>3, <2>4, <4>1 DEF SendHolds
    <3>3. Bit(UA)' = Bit(UA) /\ Bit(UW)' = Bit(UW) /\ Bit(S)' = Bit(S)
      BY <2>1, <3>2 DEF Bit
    <3> HIDE DEF TypeOK, Control, Bit
    <3>4. QED
      BY <1>0, <2>2, <3>1, <3>3, <1>c DEF RefCount
  <2>7. QED
    BY <2>5, <2>6
<1>5. ASSUME NEW t \in Threads, cur[t] = s, CountSend(t) PROVE RefCount(s)'
  <2>1. (UA' <=> UA) /\ (UW' <=> UW) /\ (A' <=> A) /\ (W' <=> W)
    BY <1>5
       DEF CountSend, Uncounted, AccepterHolds, WorkerHolds, Handles, Identity,
           OwnWorker
  <2>2. UNCHANGED <<recvOps, abandoned, sendOps, threadId>> /\ ioCount'[s] = ioCount[s] + 1
    BY <1>5 DEF CountSend, TakesReference
  <2>3. ~S /\ S'
    <3>1. Sends(t, s) /\ ~HoldsSend(t, s)
      BY <1>5 DEF CountSend, Sends, HoldsSend, UndoesSend
    <3>2. \A u \in Threads : HoldsSend(u, s) => u = t
      BY <3>1 DEF SendInv, SendMutex, Sends, HoldsSend
    <3>3. HoldsSend(t, s)'
      BY <1>5 DEF CountSend, HoldsSend
    <3>4. QED
      BY <3>1, <3>2, <3>3 DEF SendHolds
  <2>4. QED
    BY <1>0, <2>1, <2>2, <2>3 DEF RefCount, Bit
<1>6. ASSUME NEW t \in Threads, cur[t] = s, RIOSend(t) PROVE RefCount(s)'
  <2>1. (UA' <=> UA) /\ (UW' <=> UW) /\ (A' <=> A) /\ (W' <=> W)
    BY <1>6, RIOSendControl
       DEF Uncounted, AccepterHolds, WorkerHolds, Handles, Identity, OwnWorker
  <2>2. UNCHANGED <<recvOps, abandoned, ioCount, threadId>>
    BY <1>6, RIOSendControl
  <2>3. HoldsSend(t, s) /\ S
    BY <1>6, RIOSendControl DEF HoldsSend, SendHolds
  <2>4. \A u \in Threads \ {t} : ~HoldsSend(u, s)'
    <3>1. \A u \in Threads : HoldsSend(u, s) => u = t
      BY <2>3 DEF SendInv, SendMutex, Sends, HoldsSend
    <3>2. QED
      BY <1>6, <3>1, RIOSendControl DEF HoldsSend, UndoesSend
  <2>5. CASE Goto(t, "cas") /\ sendOps' = [sendOps EXCEPT ![s] = @ + 1]
    <3>1. ~S'
      BY <2>4, <2>5 DEF SendHolds, HoldsSend, UndoesSend
    <3>2. sendOps'[s] = sendOps[s] + 1
      BY <2>5
    <3>3. QED
      BY <1>0, <2>1, <2>2, <2>3, <3>1, <3>2 DEF RefCount, Bit
  <2>6. CASE Goto(t, "dec") /\ UNCHANGED sendOps
    <3>1. S'
      BY <1>6, <2>6, RIOSendControl DEF SendHolds, HoldsSend, UndoesSend
    <3>2. QED
      BY <1>0, <2>1, <2>2, <2>3, <2>6, <3>1 DEF RefCount, Bit
  <2>7. QED
    BY <1>6, <2>5, <2>6, RIOSendControl
<1>7. ASSUME NEW w \in Workers, DequeueRecv(w, s) \/ DequeueSend(w, s) PROVE RefCount(s)'
  <2>1. (UA' <=> UA) /\ (UW' <=> UW) /\ (A' <=> A) /\ ~W
    BY <1>7 DEF DequeueRecv, DequeueSend, Uncounted, AccepterHolds, WorkerHolds, Handles
  <2>2. S' <=> S
    <3>1. \A u \in Threads : HoldsSend(u, s)' <=> HoldsSend(u, s)
      BY <1>7 DEF DequeueRecv, DequeueSend, HoldsSend, UndoesSend
    <3>2. QED
      BY <3>1, SendHoldsSame
  <2>3. UNCHANGED <<ioCount, threadId>>
    BY <1>7 DEF DequeueRecv, DequeueSend
  <2>4. recvOps'[s] + sendOps'[s] = recvOps[s] + sendOps[s] - 1
    BY <1>7 DEF DequeueRecv, DequeueSend
  <2>5. Bit(W)' + abandoned'[s] = abandoned[s] + 1
    BY <1>7, <2>1 DEF DequeueRecv, DequeueSend, WorkerHolds, Handles, Bit
  <2>6. recvOps'[s] \in Int /\ sendOps'[s] \in Int /\ abandoned'[s] \in Int
    BY <1>7 DEF DequeueRecv, DequeueSend
  <2>7. Bit(UA)' = Bit(UA) /\ Bit(UW)' = Bit(UW) /\ Bit(S)' = Bit(S) /\ Bit(A)' = Bit(A)
    BY <2>1, <2>2 DEF Bit
  <2>8. Bit(W) = 0
    BY <2>1 DEF Bit
  <2> HIDE DEF TypeOK, Control, Bit
  <2>9. QED
    BY <1>0, <2>3, <2>4, <2>5, <2>6, <2>7, <2>8, <1>c DEF RefCount
<1>8. CASE SameHolders(s) /\ SameCounts(s)
  BY <1>0, <1>8, RefCountSame
<1>9. QED
  BY <1>1, <1>2, <1>3, <1>4, <1>5, <1>6, <1>7, <1>8, WhoMovesReferences DEF MovesReference

=============================================================================
