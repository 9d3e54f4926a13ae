----------------------- MODULE RIOServerSafetyProofs ------------------------
(***************************************************************************)
(* Proofs of RIOServer's safety properties, for every number of workers,   *)
(* of other threads, of sessions and of packets.                           *)
(***************************************************************************)
EXTENDS RIOServerStepProofs, FiniteSetTheorems, WellFoundedInduction

USE DEF threadVars, idVars, mapVars, countVars, registryVars, kernelVars, ioVars,
        sendVars, ghostVars

(* Who has posted a receive and not counted it holds another reference.    *)
LEMMA UncountedHolds ==
  ASSUME TypeOK, Control, NEW s \in Sessions
  PROVE  /\ Uncounted(Accepter, s) => AccepterHolds(s)
         /\ Uncounted(threadId[s], s) => WorkerHolds(s)
BY DEF Uncounted, AccepterHolds, WorkerHolds, Handles

(* Who gives a reference back has one: the count does not fall below 0.    *)
LEMMA DecrementHolds ==
  ASSUME TypeOK, Control, OwnWorker, RefCountExact, NEW t \in Threads, pc[t] = "dec"
  PROVE  ioCount[cur[t]] >= 1
<1> DEFINE s == cur[t]
<1>1. s \in Sessions
  BY Busy
<1>2. /\ ioCount[s] \in Int /\ recvOps[s] \in Nat /\ sendOps[s] \in Nat /\ abandoned[s] \in Nat
      /\ threadId[s] \in Workers
  BY <1>1 DEF TypeOK, IoTypeOK, HistoryTypeOK, RegistryTypeOK
<1>3. RefCount(s)
  BY <1>1 DEF RefCountExact
<1>4. /\ Uncounted(Accepter, s) => AccepterHolds(s)
      /\ Uncounted(threadId[s], s) => WorkerHolds(s)
  BY <1>1, UncountedHolds
<1>5. \/ AccepterHolds(s) /\ ~Uncounted(Accepter, s)
      \/ WorkerHolds(s) /\ ~Uncounted(threadId[s], s)
      \/ SendHolds(s)
  <2>1. CASE t = Accepter
    BY <2>1 DEF AccepterHolds, Uncounted
  <2>2. CASE t \in Workers
    BY <2>2 DEF OwnWorker, WorkerHolds, Handles, Uncounted
  <2>3. CASE t \in Apps
    BY <2>3 DEF SendHolds, HoldsSend, UndoesSend
  <2>4. QED
    BY <2>1, <2>2, <2>3 DEF Threads
<1>6. QED
  BY <1>2, <1>3, <1>4, <1>5 DEF RefCount, Bit

(* Every step keeps the end of regular sessions in order.                  *)
LEMMA ReleaseStep ==
  ASSUME TypeOK, Control, Identity, RefCountExact, ReleaseInv, [Next]_vars
  PROVE  (\A s \in Sessions \ irregular : RegularRelease(s))'
<1> SUFFICES ASSUME NEW s \in Sessions, s \notin irregular' PROVE RegularRelease(s)'
  OBVIOUS
<1>0. s \notin irregular
  <2>1. irregular \subseteq irregular'
    BY HistoryChange
       DEF AcceptSession, CountRecv, OnSessionReleased, CountSend,
           TakesReference,
       RecvCompleted, DequeueRecv, DequeueSend
  <2>2. QED
    BY <2>1
<1> USE <1>0, ConstantsAssumption, NoSessionIsNone
    DEF TypeOK, ThreadTypeOK, RegistryTypeOK, IoTypeOK, HistoryTypeOK,
        RegularRelease, Releases, ReleaseInv, WorkerReceive, TakesReference,
        Threads, Goto, Call, Return, Caller, Control, ThreadControl,
        AccepterControl, WorkerControl, AppControl, SendLabels, Releasing
<1>1. CASE AcceptSession
  BY <1>1 DEF AcceptSession, Identity, IdsInOrder, Untouched
<1>2. CASE Publish
  BY <1>2 DEF Publish, Identity, PublishesFresh
<1>3. CASE OnSessionEntered
  BY <1>3 DEF OnSessionEntered
<1>4. CASE CountSession
  BY <1>4 DEF CountSession
<1>5. ASSUME NEW t \in Threads, RIOReceive(t) PROVE RegularRelease(s)'
  BY <1>5 DEF RIOReceive
<1>6. ASSUME NEW t \in Threads, CountRecv(t) PROVE RegularRelease(s)'
  BY <1>6 DEF CountRecv, TakesReference
<1>7. ASSUME NEW t \in Threads, IOCountDecrement(t) PROVE RegularRelease(s)'
  BY <1>7, DecrementHolds DEF IOCountDecrement, Identity
<1>8. ASSUME NEW t \in Threads, OnSessionLeaved(t) PROVE RegularRelease(s)'
  BY <1>8 DEF OnSessionLeaved
<1>9. ASSUME NEW t \in Threads, CloseSocket(t) PROVE RegularRelease(s)'
  BY <1>9 DEF CloseSocket
<1>10. ASSUME NEW t \in Threads, EraseSession(t) PROVE RegularRelease(s)'
  BY <1>10 DEF EraseSession
<1>11. ASSUME NEW t \in Threads, OnSessionReleased(t) PROVE RegularRelease(s)'
  BY SMTT(40), <1>11 DEF OnSessionReleased
<1>12. ASSUME NEW t \in Threads, Enqueue(t) PROVE RegularRelease(s)'
  BY <1>12 DEF Enqueue
<1>13. ASSUME NEW t \in Threads, TrySending(t) PROVE RegularRelease(s)'
  BY <1>13 DEF TrySending
<1>14. ASSUME NEW t \in Threads, MakeSendStream(t) PROVE RegularRelease(s)'
  BY <1>14, MakeSendStreamControl
<1>15. ASSUME NEW t \in Threads, CountSend(t) PROVE RegularRelease(s)'
  BY <1>15 DEF CountSend, TakesReference
<1>16. ASSUME NEW t \in Threads, RIOSend(t) PROVE RegularRelease(s)'
  BY <1>16, RIOSendControl
<1>17. ASSUME NEW w \in Workers, HandlerReplies(w) PROVE RegularRelease(s)'
  BY <1>17 DEF HandlerReplies
<1>18. ASSUME NEW w \in Workers, RecvCompleted(w) PROVE RegularRelease(s)'
  BY <1>18 DEF RecvCompleted
<1>19. ASSUME NEW w \in Workers, SendIOCompleted(w) PROVE RegularRelease(s)'
  BY <1>19 DEF SendIOCompleted
<1>20. ASSUME NEW w \in Workers, SendCompleted(w) PROVE RegularRelease(s)'
  BY <1>20 DEF SendCompleted, Disconnect
<1>21. ASSUME NEW w \in Workers, NEW c \in Sessions, DequeueRecv(w, c)
       PROVE  RegularRelease(s)'
  BY SMTT(40), <1>21 DEF DequeueRecv
<1>22. ASSUME NEW w \in Workers, NEW c \in Sessions, DequeueSend(w, c)
       PROVE  RegularRelease(s)'
  BY SMTT(40), <1>22 DEF DequeueSend
<1>23. ASSUME NEW a \in Apps, SetSendDisconnect(a) PROVE RegularRelease(s)'
  BY <1>23 DEF SetSendDisconnect
<1>24. ASSUME NEW a \in Apps, NEW c \in Sessions, AppSendPacket(a, c)
       PROVE  RegularRelease(s)'
  BY <1>24 DEF AppSendPacket
<1>25. ASSUME NEW a \in Apps, NEW c \in Sessions, AppSendPacketAndDisconnect(a, c)
       PROVE  RegularRelease(s)'
  BY <1>25 DEF AppSendPacketAndDisconnect
<1>26. ASSUME NEW a \in Apps, NEW c \in Sessions, AppDisconnect(a, c)
       PROVE  RegularRelease(s)'
  BY <1>26 DEF AppDisconnect, Disconnect
<1>27. ASSUME NEW c \in Sessions, ConnectionLost(c) PROVE RegularRelease(s)'
  BY <1>27 DEF ConnectionLost
<1>28. CASE UNCHANGED vars
  BY <1>28 DEF vars
<1>29. QED
  BY <1>1, <1>2, <1>3, <1>4, <1>5, <1>6, <1>7, <1>8, <1>9, <1>10, <1>11, <1>12, <1>13,
     <1>14, <1>15, <1>16, <1>17, <1>18, <1>19, <1>20, <1>21, <1>22, <1>23, <1>24,
     <1>25, <1>26, <1>27, <1>28
     DEF Next, AccepterStep, CallStep, WorkerStep, DequeueCompletion, AppCall

(* Every step keeps what workers know of their receives.                   *)
LEMMA WorkerReceiveStep ==
  ASSUME TypeOK, Control, Identity, ReleaseInv, [Next]_vars
  PROVE  (\A v \in Workers : WorkerReceive(v))'
<1> SUFFICES ASSUME NEW v \in Workers PROVE WorkerReceive(v)'
  OBVIOUS
<1> USE ConstantsAssumption, NoSessionIsNone
    DEF TypeOK, ThreadTypeOK, RegistryTypeOK, IoTypeOK, HistoryTypeOK, ReleaseInv,
        WorkerReceive, Identity, OwnWorker, Threads, Goto, Call, Return, Caller,
        Control, ThreadControl, AccepterControl, WorkerControl, AppControl,
        SendLabels, Releasing
<1>1. CASE AcceptSession
  BY <1>1 DEF AcceptSession
<1>2. CASE Publish
  BY <1>2 DEF Publish
<1>3. CASE OnSessionEntered
  BY <1>3 DEF OnSessionEntered
<1>4. CASE CountSession
  BY <1>4 DEF CountSession
<1>5. ASSUME NEW t \in Threads, RIOReceive(t) PROVE WorkerReceive(v)'
  BY <1>5 DEF RIOReceive
<1>6. ASSUME NEW t \in Threads, CountRecv(t) PROVE WorkerReceive(v)'
  BY <1>6 DEF CountRecv, TakesReference
<1>7. ASSUME NEW t \in Threads, IOCountDecrement(t) PROVE WorkerReceive(v)'
  BY <1>7 DEF IOCountDecrement
<1>8. ASSUME NEW t \in Threads, OnSessionLeaved(t) PROVE WorkerReceive(v)'
  BY <1>8 DEF OnSessionLeaved
<1>9. ASSUME NEW t \in Threads, CloseSocket(t) PROVE WorkerReceive(v)'
  BY <1>9 DEF CloseSocket
<1>10. ASSUME NEW t \in Threads, EraseSession(t) PROVE WorkerReceive(v)'
  BY <1>10 DEF EraseSession
<1>11. ASSUME NEW t \in Threads, OnSessionReleased(t) PROVE WorkerReceive(v)'
  BY <1>11 DEF OnSessionReleased
<1>12. ASSUME NEW t \in Threads, Enqueue(t) PROVE WorkerReceive(v)'
  BY <1>12 DEF Enqueue
<1>13. ASSUME NEW t \in Threads, TrySending(t) PROVE WorkerReceive(v)'
  BY <1>13 DEF TrySending
<1>14. ASSUME NEW t \in Threads, MakeSendStream(t) PROVE WorkerReceive(v)'
  BY <1>14, MakeSendStreamControl
<1>15. ASSUME NEW t \in Threads, CountSend(t) PROVE WorkerReceive(v)'
  BY <1>15 DEF CountSend, TakesReference
<1>16. ASSUME NEW t \in Threads, RIOSend(t) PROVE WorkerReceive(v)'
  BY <1>16, RIOSendControl
<1>17. ASSUME NEW w \in Workers, HandlerReplies(w) PROVE WorkerReceive(v)'
  BY <1>17 DEF HandlerReplies
<1>18. ASSUME NEW w \in Workers, RecvCompleted(w) PROVE WorkerReceive(v)'
  BY <1>18 DEF RecvCompleted
<1>19. ASSUME NEW w \in Workers, SendIOCompleted(w) PROVE WorkerReceive(v)'
  BY <1>19 DEF SendIOCompleted
<1>20. ASSUME NEW w \in Workers, SendCompleted(w) PROVE WorkerReceive(v)'
  BY <1>20 DEF SendCompleted, Disconnect
<1>21. ASSUME NEW w \in Workers, NEW c \in Sessions, DequeueRecv(w, c)
       PROVE  WorkerReceive(v)'
  BY <1>21 DEF DequeueRecv
<1>22. ASSUME NEW w \in Workers, NEW c \in Sessions, DequeueSend(w, c)
       PROVE  WorkerReceive(v)'
  BY <1>22 DEF DequeueSend
<1>23. ASSUME NEW a \in Apps, SetSendDisconnect(a) PROVE WorkerReceive(v)'
  BY <1>23 DEF SetSendDisconnect
<1>24. ASSUME NEW a \in Apps, NEW c \in Sessions, AppSendPacket(a, c)
       PROVE  WorkerReceive(v)'
  BY <1>24 DEF AppSendPacket
<1>25. ASSUME NEW a \in Apps, NEW c \in Sessions, AppSendPacketAndDisconnect(a, c)
       PROVE  WorkerReceive(v)'
  BY <1>25 DEF AppSendPacketAndDisconnect
<1>26. ASSUME NEW a \in Apps, NEW c \in Sessions, AppDisconnect(a, c)
       PROVE  WorkerReceive(v)'
  BY <1>26 DEF AppDisconnect, Disconnect
<1>27. ASSUME NEW c \in Sessions, ConnectionLost(c) PROVE WorkerReceive(v)'
  BY <1>27 DEF ConnectionLost
<1>28. CASE UNCHANGED vars
  BY <1>28 DEF vars
<1>29. QED
  BY <1>1, <1>2, <1>3, <1>4, <1>5, <1>6, <1>7, <1>8, <1>9, <1>10, <1>11, <1>12, <1>13,
     <1>14, <1>15, <1>16, <1>17, <1>18, <1>19, <1>20, <1>21, <1>22, <1>23, <1>24,
     <1>25, <1>26, <1>27, <1>28
     DEF Next, AccepterStep, CallStep, WorkerStep, DequeueCompletion, AppCall

(* Every step keeps live sessions in the Broadcaster.                      *)
LEMMA BroadcastStep ==
  ASSUME TypeOK, Control, Identity, BroadcastInv, [Next]_vars
  PROVE  BroadcastInv'
<1> USE ConstantsAssumption, NoSessionIsNone
    DEF TypeOK, ThreadTypeOK, RegistryTypeOK, BroadcastInv, LiveSessionsRegistered,
        Leaving, Threads, Goto, Call, Return, Caller, Control, ThreadControl,
        AccepterControl, WorkerControl, AppControl, SendLabels, Releasing
<1>1. CASE AcceptSession
  BY <1>1 DEF AcceptSession, Identity, IdsInOrder, Untouched
<1>2. CASE Publish
  BY <1>2 DEF Publish, Identity, PublishesFresh
<1>3. CASE OnSessionEntered
  BY <1>3 DEF OnSessionEntered
<1>4. CASE CountSession
  BY <1>4 DEF CountSession
<1>5. ASSUME NEW t \in Threads, RIOReceive(t) PROVE BroadcastInv'
  BY <1>5 DEF RIOReceive
<1>6. ASSUME NEW t \in Threads, CountRecv(t) PROVE BroadcastInv'
  BY <1>6 DEF CountRecv, TakesReference
<1>7. ASSUME NEW t \in Threads, IOCountDecrement(t) PROVE BroadcastInv'
  BY <1>7 DEF IOCountDecrement
<1>8. ASSUME NEW t \in Threads, OnSessionLeaved(t) PROVE BroadcastInv'
  BY <1>8 DEF OnSessionLeaved
<1>9. ASSUME NEW t \in Threads, CloseSocket(t) PROVE BroadcastInv'
  BY <1>9 DEF CloseSocket
<1>10. ASSUME NEW t \in Threads, EraseSession(t) PROVE BroadcastInv'
  BY <1>10 DEF EraseSession
<1>11. ASSUME NEW t \in Threads, OnSessionReleased(t) PROVE BroadcastInv'
  BY <1>11 DEF OnSessionReleased
<1>12. ASSUME NEW t \in Threads, Enqueue(t) PROVE BroadcastInv'
  BY <1>12 DEF Enqueue
<1>13. ASSUME NEW t \in Threads, TrySending(t) PROVE BroadcastInv'
  BY <1>13 DEF TrySending
<1>14. ASSUME NEW t \in Threads, MakeSendStream(t) PROVE BroadcastInv'
  BY <1>14, MakeSendStreamControl
<1>15. ASSUME NEW t \in Threads, CountSend(t) PROVE BroadcastInv'
  BY <1>15 DEF CountSend, TakesReference
<1>16. ASSUME NEW t \in Threads, RIOSend(t) PROVE BroadcastInv'
  BY <1>16, RIOSendControl
<1>17. ASSUME NEW w \in Workers, HandlerReplies(w) PROVE BroadcastInv'
  BY <1>17 DEF HandlerReplies
<1>18. ASSUME NEW w \in Workers, RecvCompleted(w) PROVE BroadcastInv'
  BY <1>18 DEF RecvCompleted
<1>19. ASSUME NEW w \in Workers, SendIOCompleted(w) PROVE BroadcastInv'
  BY <1>19 DEF SendIOCompleted
<1>20. ASSUME NEW w \in Workers, SendCompleted(w) PROVE BroadcastInv'
  BY <1>20 DEF SendCompleted, Disconnect
<1>21. ASSUME NEW w \in Workers, NEW c \in Sessions, DequeueRecv(w, c)
       PROVE  BroadcastInv'
  BY <1>21 DEF DequeueRecv
<1>22. ASSUME NEW w \in Workers, NEW c \in Sessions, DequeueSend(w, c)
       PROVE  BroadcastInv'
  BY <1>22 DEF DequeueSend
<1>23. ASSUME NEW a \in Apps, SetSendDisconnect(a) PROVE BroadcastInv'
  BY <1>23 DEF SetSendDisconnect
<1>24. ASSUME NEW a \in Apps, NEW c \in Sessions, AppSendPacket(a, c)
       PROVE  BroadcastInv'
  BY <1>24 DEF AppSendPacket
<1>25. ASSUME NEW a \in Apps, NEW c \in Sessions, AppSendPacketAndDisconnect(a, c)
       PROVE  BroadcastInv'
  BY <1>25 DEF AppSendPacketAndDisconnect
<1>26. ASSUME NEW a \in Apps, NEW c \in Sessions, AppDisconnect(a, c)
       PROVE  BroadcastInv'
  BY <1>26 DEF AppDisconnect, Disconnect
<1>27. ASSUME NEW c \in Sessions, ConnectionLost(c) PROVE BroadcastInv'
  BY <1>27 DEF ConnectionLost
<1>28. CASE UNCHANGED vars
  BY <1>28 DEF vars
<1>29. QED
  BY <1>1, <1>2, <1>3, <1>4, <1>5, <1>6, <1>7, <1>8, <1>9, <1>10, <1>11, <1>12, <1>13,
     <1>14, <1>15, <1>16, <1>17, <1>18, <1>19, <1>20, <1>21, <1>22, <1>23, <1>24,
     <1>25, <1>26, <1>27, <1>28
     DEF Next, AccepterStep, CallStep, WorkerStep, DequeueCompletion, AppCall

-----------------------------------------------------------------------------
KeepsWakeup(s) ==
  /\ \A u \in Threads : Responsible(u, s) =>
       Responsible(u, s)' \/ ioMode'[s] = "IO_SENDING" \/ sendDisconnect'[s]
  /\ ioMode[s] = "IO_SENDING" =>
       ioMode'[s] = "IO_SENDING" \/ \E u \in Threads : Responsible(u, s)'
  /\ sendDisconnect[s] => sendDisconnect'[s]
  /\ sendQueue[s] = <<>> =>
       \/ sendQueue'[s] = <<>> \/ ioMode'[s] = "IO_SENDING"
       \/ \E u \in Threads : Responsible(u, s)'

(* No step takes the responsibility for a queue away.                      *)
LEMMA WakeupKept ==
  ASSUME NEW s \in Sessions, TypeOK, Control, SendInv, [Next]_vars
  PROVE  KeepsWakeup(s)
<1> USE ConstantsAssumption, NoSessionIsNone
    DEF TypeOK, ThreadTypeOK, IoTypeOK, SendTypeOK, SendInv, SendMutex, Sends,
        UndoesSend, KeepsWakeup, Responsible, Threads, Goto, Call, Return, Caller,
        Control, ThreadControl, AccepterControl, WorkerControl, AppControl,
        SendLabels, Releasing
<1>1. CASE AcceptSession
  BY <1>1 DEF AcceptSession
<1>2. CASE Publish
  BY <1>2 DEF Publish
<1>3. CASE OnSessionEntered
  BY <1>3 DEF OnSessionEntered
<1>4. CASE CountSession
  BY <1>4 DEF CountSession
<1>5. ASSUME NEW t \in Threads, RIOReceive(t) PROVE KeepsWakeup(s)
  BY SMTT(40), <1>5 DEF RIOReceive
<1>6. ASSUME NEW t \in Threads, CountRecv(t) PROVE KeepsWakeup(s)
  BY <1>6 DEF CountRecv, TakesReference
<1>7. ASSUME NEW t \in Threads, IOCountDecrement(t) PROVE KeepsWakeup(s)
  <2>1. /\ pc[t] = "dec"
        /\ \A u \in Threads \ {t} : cur'[u] = cur[u] /\ pc'[u] = pc[u]
        /\ UNCHANGED <<sendQueue, ioMode, sendDisconnect>>
    BY SMTT(40), <1>7 DEF IOCountDecrement
  <2>2. QED
    BY <2>1
<1>8. ASSUME NEW t \in Threads, OnSessionLeaved(t) PROVE KeepsWakeup(s)
  BY <1>8 DEF OnSessionLeaved
<1>9. ASSUME NEW t \in Threads, CloseSocket(t) PROVE KeepsWakeup(s)
  BY <1>9 DEF CloseSocket
<1>10. ASSUME NEW t \in Threads, EraseSession(t) PROVE KeepsWakeup(s)
  BY <1>10 DEF EraseSession
<1>11. ASSUME NEW t \in Threads, OnSessionReleased(t) PROVE KeepsWakeup(s)
  BY <1>11 DEF OnSessionReleased
<1>12. ASSUME NEW t \in Threads, Enqueue(t) PROVE KeepsWakeup(s)
  BY SMTT(40), <1>12 DEF Enqueue
<1>13. ASSUME NEW t \in Threads, TrySending(t) PROVE KeepsWakeup(s)
  BY SMTT(40), <1>13 DEF TrySending
<1>14. ASSUME NEW t \in Threads, MakeSendStream(t) PROVE KeepsWakeup(s)
  <2>a. PICK q : sendQueue' = [sendQueue EXCEPT ![cur[t]] = q]
    BY <1>14 DEF MakeSendStream
  <2>b. \A c \in Sessions : c # cur[t] => sendQueue'[c] = sendQueue[c]
    BY <2>a
  <2>c. pc[t] = "make" /\ (Return(t) \/ Goto(t, "sendCount"))
    BY ONLY <1>14, MakeSendStreamControl
  <2>d. UNCHANGED <<ioMode, sendDisconnect>>
    BY ONLY <1>14 DEF MakeSendStream, ioVars
  <2>1. /\ pc[t] = "make"
        /\ \A c \in Sessions : c # cur[t] => sendQueue'[c] = sendQueue[c]
        /\ Return(t) \/ Goto(t, "sendCount")
        /\ UNCHANGED <<ioMode, sendDisconnect>>
    BY <2>b, <2>c, <2>d
  <2>2. CASE cur[t] = s
    BY <2>1, <2>2 DEF Sends
  <2>3. CASE cur[t] # s
    BY SMTT(40), <2>1, <2>3
  <2>4. QED
    BY <2>2, <2>3
<1>15. ASSUME NEW t \in Threads, CountSend(t) PROVE KeepsWakeup(s)
  BY <1>15 DEF CountSend, TakesReference
<1>16. ASSUME NEW t \in Threads, RIOSend(t) PROVE KeepsWakeup(s)
  BY SMTT(40), <1>16 DEF RIOSend, SendFailed
<1>17. ASSUME NEW w \in Workers, HandlerReplies(w) PROVE KeepsWakeup(s)
  BY <1>17 DEF HandlerReplies
<1>18. ASSUME NEW w \in Workers, RecvCompleted(w) PROVE KeepsWakeup(s)
  BY <1>18 DEF RecvCompleted
<1>19. ASSUME NEW w \in Workers, SendIOCompleted(w) PROVE KeepsWakeup(s)
  BY <1>19 DEF SendIOCompleted
<1>20. ASSUME NEW w \in Workers, SendCompleted(w) PROVE KeepsWakeup(s)
  BY SMTT(40), <1>20 DEF SendCompleted, Disconnect
<1>21. ASSUME NEW w \in Workers, NEW c \in Sessions, DequeueRecv(w, c)
       PROVE KeepsWakeup(s)
  BY SMTT(40), <1>21 DEF DequeueRecv
<1>22. ASSUME NEW w \in Workers, NEW c \in Sessions, DequeueSend(w, c)
       PROVE KeepsWakeup(s)
  BY SMTT(40), <1>22 DEF DequeueSend
<1>23. ASSUME NEW a \in Apps, SetSendDisconnect(a) PROVE KeepsWakeup(s)
  BY SMTT(40), <1>23 DEF SetSendDisconnect
<1>24. ASSUME NEW a \in Apps, NEW c \in Sessions, AppSendPacket(a, c) PROVE KeepsWakeup(s)
  BY <1>24 DEF AppSendPacket
<1>25. ASSUME NEW a \in Apps, NEW c \in Sessions, AppSendPacketAndDisconnect(a, c)
       PROVE  KeepsWakeup(s)
  BY <1>25 DEF AppSendPacketAndDisconnect
<1>26. ASSUME NEW a \in Apps, NEW c \in Sessions, AppDisconnect(a, c) PROVE KeepsWakeup(s)
  BY <1>26 DEF AppDisconnect, Disconnect
<1>27. ASSUME NEW c \in Sessions, ConnectionLost(c) PROVE KeepsWakeup(s)
  BY <1>27 DEF ConnectionLost
<1>28. CASE UNCHANGED vars
  BY <1>28 DEF vars
<1>29. QED
  BY <1>1, <1>2, <1>3, <1>4, <1>5, <1>6, <1>7, <1>8, <1>9, <1>10, <1>11, <1>12, <1>13,
     <1>14, <1>15, <1>16, <1>17, <1>18, <1>19, <1>20, <1>21, <1>22, <1>23, <1>24,
     <1>25, <1>26, <1>27, <1>28
     DEF Next, AccepterStep, CallStep, WorkerStep, DequeueCompletion, AppCall

(* Every step keeps NoLostWakeup.                                          *)
LEMMA WakeupStep ==
  ASSUME TypeOK, Control, SendInv, NoLostWakeup, [Next]_vars
  PROVE  NoLostWakeup'
<1> SUFFICES ASSUME NEW s \in Sessions PROVE Wakeup(s)'
  BY DEF NoLostWakeup
<1>1. KeepsWakeup(s)
  BY WakeupKept
<1>2. QED
  BY <1>1 DEF KeepsWakeup, NoLostWakeup, Wakeup

-----------------------------------------------------------------------------
(* The invariant holds at the start,                                       *)
LEMMA InvInit == Init => Inv
<1> SUFFICES ASSUME Init PROVE Inv
  OBVIOUS
<1>1. TypeOK /\ Control
  BY TypeInit
<1>2. /\ \A t \in Threads : pc[t] = "idle" /\ cur[t] = NoSession /\ ret[t] = "idle"
      /\ Accepter \in Threads /\ Workers \subseteq Threads
  BY DEF Init, Threads
<1>3. \A s \in Sessions : Untouched(s)
  BY <1>2, NoSessionIsNone DEF Init, Untouched
<1>4. Identity
  BY <1>2, <1>3 DEF Identity, IdsInOrder, PublishesFresh, OwnWorker
<1>5. SendInv
  BY <1>2, <1>3 DEF SendInv, SendMutex, Sends, UndoesSend, Untouched
<1>6. \A s \in Sessions : threadId[s] \in Workers
  BY <1>1 DEF TypeOK, RegistryTypeOK
<1>7. ReceiveInv
  BY <1>2, <1>3, <1>6
     DEF ReceiveInv, OneReceive, AccepterPosts, WorkerPosts, Untouched, Bit
<1>8. RefCountExact
  BY <1>2, <1>3, <1>6
     DEF RefCountExact, RefCount, Uncounted, AccepterHolds, WorkerHolds, Handles,
     SendHolds, HoldsSend, UndoesSend, Untouched, Bit, Releasing
<1>9. ReleaseInv
  BY <1>2, <1>3
     DEF ReleaseInv, RegularRelease, Releases, WorkerReceive, Untouched,
         Releasing
<1>10. BroadcastInv
  BY <1>2 DEF Init, BroadcastInv, LiveSessionsRegistered
<1>11. NoLostWakeup
  BY DEF Init, NoLostWakeup, Wakeup
<1>12. QED
  BY <1>1, <1>4, <1>5, <1>7, <1>8, <1>9, <1>10, <1>11 DEF Inv

(* every step keeps it,                                                    *)
LEMMA InvStep == Inv /\ [Next]_vars => Inv'
<1> SUFFICES ASSUME Inv, [Next]_vars PROVE Inv'
  OBVIOUS
<1> USE DEF Inv
<1>1. TypeOK' /\ Control'
  BY TypeStep
<1>2. Identity'
  BY IdsStep, PublishStep, OwnWorkerStep DEF Identity
<1>3. SendInv' /\ ReceiveInv'
  BY SendStep, ReceiveStep DEF Identity
<1>4. RefCountExact'
  BY RefCountStep
<1>5. ReleaseInv'
  BY ReleaseStep, WorkerReceiveStep DEF ReleaseInv
<1>6. BroadcastInv'
  BY BroadcastStep
<1>7. NoLostWakeup'
  BY WakeupStep
<1>8. QED
  BY <1>1, <1>2, <1>3, <1>4, <1>5, <1>6, <1>7

(* and so it always holds.                                                 *)
LEMMA Invariance == Spec => []Inv
<1>1. Init => Inv
  BY InvInit
<1>2. Inv /\ [Next]_vars => Inv'
  BY InvStep
<1>3. QED
  BY <1>1, <1>2, PTL DEF Spec

(* ioCount is exactly the number of references held.                       *)
THEOREM RefCountCorrect == Spec => []RefCountExact
<1>1. Inv => RefCountExact
  BY DEF Inv
<1>2. QED
  BY <1>1, Invariance, PTL

(* A worker that counts a receive or a send holds a reference already.     *)
THEOREM WorkersReviveNobodyCorrect == Spec => []WorkersReviveNobody
<1>1. ASSUME Inv PROVE WorkersReviveNobody
  <2> SUFFICES ASSUME NEW w \in Workers, pc[w] \in {"recvCount", "sendCount"}
               PROVE  ioCount[cur[w]] # 0
    BY DEF WorkersReviveNobody
  <2> DEFINE s == cur[w]
  <2>1. s \in Sessions /\ threadId[s] = w
    BY <1>1, Busy DEF Inv, Identity, OwnWorker, Threads
  <2>2. /\ ioCount[s] \in Int /\ recvOps[s] \in Nat /\ sendOps[s] \in Nat
        /\ abandoned[s] \in Nat
    BY <1>1, <2>1 DEF Inv, TypeOK, IoTypeOK, HistoryTypeOK
  <2>3. Uncounted(Accepter, s) => AccepterHolds(s)
    BY <1>1, <2>1, UncountedHolds DEF Inv
  <2>4. WorkerHolds(s) /\ (Uncounted(w, s) => recvOps[s] >= 1)
    BY <1>1, <2>1 DEF Inv, ReleaseInv, WorkerReceive, WorkerHolds, Handles, Uncounted
  <2>5. RefCount(s)
    BY <1>1, <2>1 DEF Inv, RefCountExact
  <2>6. QED
    BY <2>1, <2>2, <2>3, <2>4, <2>5 DEF RefCount, Bit
<1>2. QED
  BY <1>1, Invariance, PTL

(* Neither RIO nor its worker uses a regular session's buffers after they  *)
(* were given back.                                                        *)
THEOREM NoUseAfterReleaseCorrect == Spec => []NoUseAfterRelease
<1>1. ASSUME Inv PROVE NoUseAfterRelease
  <2> SUFFICES ASSUME NEW s \in Sessions \ irregular, released[s] > 0
               PROVE  recvOps[s] = 0 /\ sendOps[s] = 0 /\ ~WorkerHolds(s) /\ s \notin sessionMap
    BY DEF NoUseAfterRelease
  <2>1. /\ ioCount[s] = 0 /\ s \notin sessionMap
    BY <1>1 DEF Inv, ReleaseInv, RegularRelease, TypeOK, HistoryTypeOK
  <2>2. /\ recvOps[s] \in Nat /\ sendOps[s] \in Nat /\ abandoned[s] \in Nat
        /\ threadId[s] \in Workers
    BY <1>1 DEF Inv, TypeOK, IoTypeOK, HistoryTypeOK, RegistryTypeOK
  <2>3. /\ Uncounted(Accepter, s) => AccepterHolds(s)
        /\ Uncounted(threadId[s], s) => WorkerHolds(s)
    BY <1>1, UncountedHolds DEF Inv
  <2>4. Uncounted(threadId[s], s) => recvOps[s] >= 1
    BY <1>1, <2>2 DEF Inv, ReleaseInv, WorkerReceive, Uncounted
  <2>5. RefCount(s)
    BY <1>1 DEF Inv, RefCountExact
  <2>6. QED
    BY <2>1, <2>2, <2>3, <2>4, <2>5 DEF RefCount, Bit
<1>2. QED
  BY <1>1, Invariance, PTL

(* A session has at most one receive in RIO, and none while its packets    *)
(* are handled.                                                            *)
THEOREM ReceivesSerializedCorrect == Spec => []ReceivesSerialized
<1>1. ASSUME Inv PROVE ReceivesSerialized
  <2> SUFFICES ASSUME NEW s \in Sessions
               PROVE  recvOps[s] + Bit(\E w \in Workers : cur[w] = s /\ pc[w] = "recv") <= 1
    BY DEF ReceivesSerialized
  <2>1. (\E w \in Workers : cur[w] = s /\ pc[w] = "recv") => WorkerPosts(threadId[s], s)
    BY <1>1 DEF Inv, Identity, OwnWorker, WorkerPosts
  <2>2. OneReceive(s) /\ recvOps[s] \in Nat
    BY <1>1 DEF Inv, ReceiveInv, TypeOK, IoTypeOK
  <2>3. QED
    BY <2>1, <2>2 DEF OneReceive, Bit
<1>2. QED
  BY <1>1, Invariance, PTL

(* A session has at most one send in RIO, and one thread preparing the     *)
(* next.                                                                   *)
THEOREM SendsSerializedCorrect == Spec => []SendsSerialized
<1>1. Inv => SendsSerialized
  BY DEF Inv, SendsSerialized, SendInv, SendMutex
<1>2. QED
  BY <1>1, Invariance, PTL

(* MakeNewSession's emplace never fails.                                   *)
THEOREM EmplaceIsFreshCorrect == Spec => []EmplaceIsFresh
<1>1. Inv => EmplaceIsFresh
  BY DEF Inv, Identity, PublishesFresh, EmplaceIsFresh
<1>2. QED
  BY <1>1, Invariance, PTL

(* Every session in the map that is neither being made nor being released  *)
(* gets the broadcasts.                                                    *)
THEOREM LiveSessionsRegisteredCorrect == Spec => []LiveSessionsRegistered
<1>1. Inv => LiveSessionsRegistered
  BY DEF Inv, BroadcastInv
<1>2. QED
  BY <1>1, Invariance, PTL

(* SendPost loses no wake-up.                                              *)
THEOREM NoLostWakeupCorrect == Spec => []NoLostWakeup
<1>1. Inv => NoLostWakeup
  BY DEF Inv
<1>2. QED
  BY <1>1, Invariance, PTL

-----------------------------------------------------------------------------
(* Arithmetic and induction.                                               *)

(* Division with remainder,                                                *)
LEMMA DivMod ==
  ASSUME NEW m \in Nat \ {0}, NEW n \in Int
  PROVE  n = (n \div m) * m + (n % m) /\ n % m \in 0..(m - 1) /\ n \div m \in Int
OBVIOUS

(* whose remainder is unique.                                              *)
LEMMA ModUnique ==
  ASSUME NEW m \in Nat \ {0}, NEW n \in Int, NEW r \in 0..(m - 1), NEW k \in Int,
         n = k * m + r
  PROVE  n % m = r
<1>1. PICK d \in Int, e \in 0..(m - 1) : n = d * m + e /\ e = n % m
  BY DivMod
<1>2. (d - k) * m = r - e
  <2>1. \A x, y, z, a, b \in Int : x * z + a = y * z + b => (x - y) * z = b - a
    OBVIOUS
  <2>2. e \in Int /\ r \in Int /\ m \in Int /\ d * m + e = k * m + r
    BY <1>1
  <2>3. QED
    BY <2>1, <2>2
<1>3. \A x, y \in Int : x >= 1 /\ y >= 1 => x * y >= y
  OBVIOUS
<1>4. ~(d - k >= 1)
  BY <1>2, <1>3
<1>5. ~(k - d >= 1)
  <2>1. (k - d) * m = e - r
    BY <1>2
  <2>2. QED
    BY <1>3, <2>1
<1>6. d = k
  BY <1>4, <1>5
<1>7. QED
  BY <1>1, <1>6

(* A count kept modulo CountModulus can be added to before or after        *)
(* the reduction.                                                          *)
LEMMA PlusMod ==
  ASSUME NEW n \in Int, NEW d \in {1, -1}
  PROVE  Plus(n % CountModulus, d) = (n + d) % CountModulus
<1> DEFINE m == CountModulus
<1>0. m \in Nat \ {0}
  BY ConstantsAssumption
<1>1. PICK k \in Int, a \in 0..(m - 1) : n = k * m + a /\ a = n % m
  BY <1>0, DivMod
<1>2. PICK e \in Int : e = a + d
  OBVIOUS
<1>3. PICK j \in Int, b \in 0..(m - 1) : e = j * m + b /\ b = e % m
  BY <1>0, DivMod
<1>4. n + d = (k + j) * m + b
  BY <1>0, <1>1, <1>2, <1>3
<1>5. (n + d) % m = b
  <2>1. n + d \in Int /\ k + j \in Int
    OBVIOUS
  <2> HIDE DEF m
  <2>2. QED
    BY <1>0, <1>4, <2>1, ModUnique
<1>6. QED
  BY <1>1, <1>2, <1>3, <1>5 DEF Plus

(* A set of naturals has a smallest member: induction without an operator. *)
LEMMA LeastNatural ==
  ASSUME NEW S \in SUBSET Nat, S # {} PROVE \E n \in S : \A m \in S : n <= m
<1> DEFINE R == OpToRel(<, Nat)
<1>1. IsWellFoundedOn(R, Nat)
  BY NatLessThanWellFounded
<1>2. \A x, y \in Nat : x < y => <<x, y>> \in R
  BY DEF OpToRel
<1> HIDE DEF R
<1>3. PICK n \in S : \A m \in S : ~ (<<m, n>> \in R)
  BY <1>1, WFMin
<1>4. \A m \in S : ~ (m < n)
  BY <1>2, <1>3
<1>5. QED
  BY <1>4

-----------------------------------------------------------------------------
(* MakeSendStream's total.                                                 *)

Reserved(s) == IF reservedBuffer[s] = NoPacket THEN 0 ELSE SizeOf[reservedBuffer[s]]

(* The function that TotalSendSize defines, on 0..n.                       *)
IsTotal(f, s, n) ==
  f = [i \in 0..n |-> IF i = 0 THEN Reserved(s) ELSE f[i - 1] + SizeOf[sendQueue[s][i]]]

(* The recursive definition of the total is one.                           *)
LEMMA TotalExists ==
  ASSUME NEW s, NEW n \in Nat PROVE \E f : IsTotal(f, s, n)
<1> DEFINE Bad == {m \in Nat : ~ \E f : IsTotal(f, s, m)}
<1> SUFFICES ASSUME Bad # {} PROVE FALSE
  OBVIOUS
<1>1. PICK m \in Bad : \A j \in Bad : m <= j
  BY LeastNatural
<1>2. CASE m = 0
  <2>1. IsTotal([i \in 0..0 |-> Reserved(s)], s, 0)
    BY DEF IsTotal
  <2>2. QED
    BY <1>1, <1>2, <2>1
<1>3. CASE m > 0
  <2>1. m - 1 \in Nat /\ m - 1 \notin Bad
    BY <1>1, <1>3
  <2>2. PICK f : IsTotal(f, s, m - 1)
    BY <2>1
  <2> DEFINE g == [i \in 0..m |-> IF i = m THEN f[m - 1] + SizeOf[sendQueue[s][m]] ELSE f[i]]
  <2>3. \A i \in 0..(m - 1) :
          f[i] = IF i = 0 THEN Reserved(s) ELSE f[i - 1] + SizeOf[sendQueue[s][i]]
    BY <2>2 DEF IsTotal
  <2>4. \A i \in 0..m :
          g[i] = IF i = 0 THEN Reserved(s) ELSE g[i - 1] + SizeOf[sendQueue[s][i]]
    BY <1>1, <1>3, <2>3
  <2>5. IsTotal(g, s, m)
    BY <2>4 DEF IsTotal
  <2>6. QED
    BY <1>1, <2>5
<1>4. QED
  BY <1>1, <1>2, <1>3

(* A stream of one packet, when none was reserved, has that packet's size. *)
LEMMA FirstTotal ==
  ASSUME NEW s, sendQueue[s] \in Seq(Nat), sendQueue[s] # <<>>,
         reservedBuffer[s] = NoPacket, SizeOf[sendQueue[s][1]] \in Nat
  PROVE  TotalSendSize(s, 1) = SizeOf[sendQueue[s][1]]
<1> DEFINE q == sendQueue[s]
           total == CHOOSE f : f = [i \in 0..Len(q) |->
                      IF i = 0 THEN IF reservedBuffer[s] = NoPacket
                                    THEN 0 ELSE SizeOf[reservedBuffer[s]]
                      ELSE f[i - 1] + SizeOf[q[i]]]
<1>1. Len(q) \in Nat /\ Len(q) >= 1
  OBVIOUS
<1>2. PICK f : IsTotal(f, s, Len(q))
  BY <1>1, TotalExists
<1>3. total = [i \in 0..Len(q) |->
                 IF i = 0 THEN IF reservedBuffer[s] = NoPacket
                               THEN 0 ELSE SizeOf[reservedBuffer[s]]
                 ELSE total[i - 1] + SizeOf[q[i]]]
  BY <1>2 DEF IsTotal, Reserved
<1>4. TotalSendSize(s, 1) = total[1]
  BY DEF TotalSendSize
<1> HIDE DEF total
<1>5. total[0] = 0
  BY <1>1, <1>3
<1>6. total[1] = total[0] + SizeOf[q[1]]
  BY <1>1, <1>3
<1>7. QED
  BY <1>4, <1>5, <1>6

-----------------------------------------------------------------------------
(* Threads and packets.                                                    *)

(* Only MakeSendStream gives a thread a stream.                            *)
LEMMA PreparedKept ==
  ASSUME TypeOK, Control, [Next]_vars, NEW s \in Sessions, NEW u \in Threads, Prepared(u, s)'
  PROVE  Prepared(u, s) \/ MakeSendStream(u)
<1> USE ConstantsAssumption, NoSessionIsNone
    DEF TypeOK, ThreadTypeOK, Prepared, Threads, Goto, Call, Return, Caller, Control,
        ThreadControl, AccepterControl, WorkerControl, AppControl, SendLabels, Releasing
<1> DEFINE Goal == Prepared(u, s) \/ MakeSendStream(u)
<1>1. CASE AcceptSession
  BY <1>1 DEF AcceptSession
<1>2. CASE Publish
  BY <1>2 DEF Publish
<1>3. CASE OnSessionEntered
  BY <1>3 DEF OnSessionEntered
<1>4. CASE CountSession
  BY <1>4 DEF CountSession
<1>5. ASSUME NEW t \in Threads, RIOReceive(t) PROVE Goal
  BY <1>5 DEF RIOReceive
<1>6. ASSUME NEW t \in Threads, CountRecv(t) PROVE Goal
  BY <1>6 DEF CountRecv, TakesReference
<1>7. ASSUME NEW t \in Threads, IOCountDecrement(t) PROVE Goal
  BY <1>7 DEF IOCountDecrement
<1>8. ASSUME NEW t \in Threads, OnSessionLeaved(t) PROVE Goal
  BY <1>8 DEF OnSessionLeaved
<1>9. ASSUME NEW t \in Threads, CloseSocket(t) PROVE Goal
  BY <1>9 DEF CloseSocket
<1>10. ASSUME NEW t \in Threads, EraseSession(t) PROVE Goal
  BY <1>10 DEF EraseSession
<1>11. ASSUME NEW t \in Threads, OnSessionReleased(t) PROVE Goal
  BY <1>11 DEF OnSessionReleased
<1>12. ASSUME NEW t \in Threads, Enqueue(t) PROVE Goal
  BY <1>12 DEF Enqueue
<1>13. ASSUME NEW t \in Threads, TrySending(t) PROVE Goal
  BY <1>13 DEF TrySending
<1>14. ASSUME NEW t \in Threads, MakeSendStream(t) PROVE Goal
  <2>1. CASE u # t
    BY <1>14, <2>1, MakeSendStreamControl
  <2>2. QED
    BY <1>14, <2>1
<1>15. ASSUME NEW t \in Threads, CountSend(t) PROVE Goal
  BY <1>15 DEF CountSend, TakesReference
<1>16. ASSUME NEW t \in Threads, RIOSend(t) PROVE Goal
  BY <1>16, RIOSendControl
<1>17. ASSUME NEW w \in Workers, HandlerReplies(w) PROVE Goal
  BY <1>17 DEF HandlerReplies
<1>18. ASSUME NEW w \in Workers, RecvCompleted(w) PROVE Goal
  BY <1>18 DEF RecvCompleted
<1>19. ASSUME NEW w \in Workers, SendIOCompleted(w) PROVE Goal
  BY <1>19 DEF SendIOCompleted
<1>20. ASSUME NEW w \in Workers, SendCompleted(w) PROVE Goal
  BY <1>20 DEF SendCompleted, Disconnect
<1>21. ASSUME NEW w \in Workers, NEW c \in Sessions, DequeueRecv(w, c) PROVE Goal
  BY <1>21 DEF DequeueRecv
<1>22. ASSUME NEW w \in Workers, NEW c \in Sessions, DequeueSend(w, c) PROVE Goal
  BY <1>22 DEF DequeueSend
<1>23. ASSUME NEW a \in Apps, SetSendDisconnect(a) PROVE Goal
  BY <1>23 DEF SetSendDisconnect
<1>24. ASSUME NEW a \in Apps, NEW c \in Sessions, AppSendPacket(a, c) PROVE Goal
  BY <1>24 DEF AppSendPacket
<1>25. ASSUME NEW a \in Apps, NEW c \in Sessions, AppSendPacketAndDisconnect(a, c)
       PROVE  Goal
  BY <1>25 DEF AppSendPacketAndDisconnect
<1>26. ASSUME NEW a \in Apps, NEW c \in Sessions, AppDisconnect(a, c) PROVE Goal
  BY <1>26 DEF AppDisconnect, Disconnect
<1>27. ASSUME NEW c \in Sessions, ConnectionLost(c) PROVE Goal
  BY <1>27 DEF ConnectionLost
<1>28. CASE UNCHANGED vars
  BY <1>28 DEF vars
<1>29. QED
  BY <1>1, <1>2, <1>3, <1>4, <1>5, <1>6, <1>7, <1>8, <1>9, <1>10, <1>11, <1>12, <1>13,
     <1>14, <1>15, <1>16, <1>17, <1>18, <1>19, <1>20, <1>21, <1>22, <1>23, <1>24,
     <1>25, <1>26, <1>27, <1>28
     DEF Next, AccepterStep, CallStep, WorkerStep, DequeueCompletion, AppCall

HandsNoMore(s) == Handing(s)' \subseteq Handing(s) /\ handed'[s] = handed[s]
HandsOneMore(s) ==
  CanHand(s) /\ handed' = handed /\ \E u : Handing(s)' \subseteq Handing(s) \cup {u}
HandsOver(s) ==
  \E u \in Handing(s) : /\ Handing(s)' \subseteq Handing(s) \ {u}
                        /\ handed'[s] = handed[s] + 1

(* Who hands a packet to a session has asked CanHand before.               *)
LEMMA HandingChange ==
  ASSUME TypeOK, Control, [Next]_vars, NEW s \in Sessions
  PROVE  HandsNoMore(s) \/ HandsOneMore(s) \/ HandsOver(s)
<1> USE ConstantsAssumption, NoSessionIsNone
    DEF TypeOK, ThreadTypeOK, SendTypeOK, HandsNoMore, Handing, Threads, Goto, Call, Return,
        Caller, Control, ThreadControl, AccepterControl, WorkerControl, AppControl,
        SendLabels, Releasing
<1> DEFINE Goal == HandsNoMore(s) \/ HandsOneMore(s) \/ HandsOver(s)
<1>1. CASE AcceptSession
  BY <1>1 DEF AcceptSession
<1>2. CASE Publish
  BY <1>2 DEF Publish
<1>3. CASE OnSessionEntered
  BY <1>3 DEF OnSessionEntered
<1>4. CASE CountSession
  BY <1>4 DEF CountSession
<1>5. ASSUME NEW t \in Threads, RIOReceive(t) PROVE Goal
  BY <1>5 DEF RIOReceive
<1>6. ASSUME NEW t \in Threads, CountRecv(t) PROVE Goal
  BY <1>6 DEF CountRecv, TakesReference
<1>7. ASSUME NEW t \in Threads, IOCountDecrement(t) PROVE Goal
  BY <1>7 DEF IOCountDecrement
<1>8. ASSUME NEW t \in Threads, OnSessionLeaved(t) PROVE Goal
  BY <1>8 DEF OnSessionLeaved
<1>9. ASSUME NEW t \in Threads, CloseSocket(t) PROVE Goal
  BY <1>9 DEF CloseSocket
<1>10. ASSUME NEW t \in Threads, EraseSession(t) PROVE Goal
  BY <1>10 DEF EraseSession
<1>11. ASSUME NEW t \in Threads, OnSessionReleased(t) PROVE Goal
  BY <1>11 DEF OnSessionReleased
<1>12. ASSUME NEW t \in Threads, Enqueue(t) PROVE Goal
  BY <1>12, Busy DEF Enqueue, HandsOver
<1>13. ASSUME NEW t \in Threads, TrySending(t) PROVE Goal
  BY <1>13 DEF TrySending
<1>14. ASSUME NEW t \in Threads, MakeSendStream(t) PROVE Goal
  <2>1. UNCHANGED handed
    BY ONLY <1>14 DEF MakeSendStream
  <2>2. pc[t] = "make" /\ (Return(t) \/ Goto(t, "sendCount"))
    BY ONLY <1>14, MakeSendStreamControl
  <2>3. ret[t] \notin {"sendDisconnect", "enqueue"}
    BY <2>2
  <2>4. \A u \in Threads \ {t} : pc'[u] = pc[u] /\ cur'[u] = cur[u]
    BY <2>2
  <2>5. pc'[t] \notin {"sendDisconnect", "enqueue"}
    BY <2>2, <2>3
  <2>6. QED
    BY ONLY <2>1, <2>4, <2>5 DEF HandsNoMore, Handing
<1>15. ASSUME NEW t \in Threads, CountSend(t) PROVE Goal
  BY <1>15 DEF CountSend, TakesReference
<1>16. ASSUME NEW t \in Threads, RIOSend(t) PROVE Goal
  <2>1. UNCHANGED handed
    BY ONLY <1>16 DEF RIOSend
  <2>2. Goto(t, "cas") \/ Goto(t, "dec")
    BY ONLY <1>16, RIOSendControl
  <2>3. \A u \in Threads \ {t} : pc'[u] = pc[u] /\ cur'[u] = cur[u]
    BY <2>2
  <2>4. pc'[t] \notin {"sendDisconnect", "enqueue"}
    BY <2>2
  <2>5. QED
    BY ONLY <2>1, <2>3, <2>4 DEF HandsNoMore, Handing
<1>17. ASSUME NEW w \in Workers, HandlerReplies(w) PROVE Goal
  <2>1. CanHand(cur[w]) /\ UNCHANGED handed
    BY ONLY <1>17 DEF HandlerReplies
  <2>2. CASE cur[w] = s
    <3>1. Handing(s)' \subseteq Handing(s) \cup {w}
      BY <1>17, <2>2 DEF HandlerReplies
    <3>2. QED
      BY <2>1, <2>2, <3>1 DEF HandsOneMore
  <2>3. CASE cur[w] # s
    BY <1>17, <2>3 DEF HandlerReplies
  <2>4. QED
    BY <2>2, <2>3
<1>18. ASSUME NEW w \in Workers, RecvCompleted(w) PROVE Goal
  BY <1>18 DEF RecvCompleted
<1>19. ASSUME NEW w \in Workers, SendIOCompleted(w) PROVE Goal
  BY <1>19 DEF SendIOCompleted
<1>20. ASSUME NEW w \in Workers, SendCompleted(w) PROVE Goal
  BY <1>20 DEF SendCompleted, Disconnect
<1>21. ASSUME NEW w \in Workers, NEW c \in Sessions, DequeueRecv(w, c) PROVE Goal
  BY <1>21 DEF DequeueRecv
<1>22. ASSUME NEW w \in Workers, NEW c \in Sessions, DequeueSend(w, c) PROVE Goal
  BY <1>22 DEF DequeueSend
<1>23. ASSUME NEW a \in Apps, SetSendDisconnect(a) PROVE Goal
  BY <1>23 DEF SetSendDisconnect
<1>24. ASSUME NEW a \in Apps, NEW c \in Sessions, AppSendPacket(a, c) PROVE Goal
  <2>1. CanHand(c) /\ UNCHANGED handed
    BY ONLY <1>24 DEF AppSendPacket
  <2>2. CASE c = s
    <3>1. Handing(s)' \subseteq Handing(s) \cup {a}
      BY <1>24, <2>2 DEF AppSendPacket
    <3>2. QED
      BY <2>1, <2>2, <3>1 DEF HandsOneMore
  <2>3. CASE c # s
    BY <1>24, <2>3 DEF AppSendPacket
  <2>4. QED
    BY <2>2, <2>3
<1>25. ASSUME NEW a \in Apps, NEW c \in Sessions, AppSendPacketAndDisconnect(a, c)
       PROVE  Goal
  <2>1. CanHand(c) /\ UNCHANGED handed
    BY ONLY <1>25 DEF AppSendPacketAndDisconnect
  <2>2. CASE c = s
    <3>1. Handing(s)' \subseteq Handing(s) \cup {a}
      BY <1>25, <2>2 DEF AppSendPacketAndDisconnect
    <3>2. QED
      BY <2>1, <2>2, <3>1 DEF HandsOneMore
  <2>3. CASE c # s
    BY <1>25, <2>3 DEF AppSendPacketAndDisconnect
  <2>4. QED
    BY <2>2, <2>3
<1>26. ASSUME NEW a \in Apps, NEW c \in Sessions, AppDisconnect(a, c) PROVE Goal
  BY <1>26 DEF AppDisconnect, Disconnect
<1>27. ASSUME NEW c \in Sessions, ConnectionLost(c) PROVE Goal
  BY <1>27 DEF ConnectionLost
<1>28. CASE UNCHANGED vars
  BY <1>28 DEF vars
<1>29. QED
  BY <1>1, <1>2, <1>3, <1>4, <1>5, <1>6, <1>7, <1>8, <1>9, <1>10, <1>11, <1>12, <1>13,
     <1>14, <1>15, <1>16, <1>17, <1>18, <1>19, <1>20, <1>21, <1>22, <1>23, <1>24,
     <1>25, <1>26, <1>27, <1>28
     DEF Next, AccepterStep, CallStep, WorkerStep, DequeueCompletion, AppCall

(* There are finitely many threads.                                       *)
LEMMA ThreadsFinite == IsFiniteSet(Threads)
<1>1. IsFiniteSet(Workers)
  BY ConstantsAssumption, FS_Interval DEF Workers
<1>2. IsFiniteSet(Workers \cup Apps)
  BY <1>1, ConstantsAssumption, FS_Union
<1>3. QED
  BY <1>2, FS_AddElement DEF Threads

(* Every step keeps within the bound on a session's packets.               *)
LEMMA HandedStep ==
  ASSUME TypeOK, Control, HandedBounded, [Next]_vars PROVE HandedBounded'
<1> SUFFICES ASSUME NEW s \in Sessions
             PROVE  handed'[s] + Cardinality(Handing(s)') <= MaxPackets
  BY DEF HandedBounded
<1> DEFINE H == Handing(s)
           G == Handing(s)'
<1>1. IsFiniteSet(H) /\ IsFiniteSet(G)
  BY ThreadsFinite, FS_Subset DEF Handing
<1>2. Cardinality(H) \in Nat /\ Cardinality(G) \in Nat
  BY <1>1, FS_CardinalityType
<1>3. handed[s] \in Nat /\ MaxPackets \in Nat
  BY ConstantsAssumption DEF TypeOK, SendTypeOK
<1>4. handed[s] + Cardinality(H) <= MaxPackets
  BY DEF HandedBounded
<1>5. CASE HandsNoMore(s)
  <2>1. Cardinality(G) <= Cardinality(H)
    BY <1>1, <1>5, FS_Subset DEF HandsNoMore
  <2>2. QED
    BY <1>2, <1>3, <1>4, <1>5, <2>1 DEF HandsNoMore
<1>6. CASE HandsOneMore(s)
  <2>1. PICK u : G \subseteq H \cup {u}
    BY <1>6 DEF HandsOneMore
  <2>2. Cardinality(G) <= Cardinality(H) + 1
    <3>1. /\ IsFiniteSet(H \cup {u})
          /\ Cardinality(H \cup {u}) \in {Cardinality(H), Cardinality(H) + 1}
      BY <1>1, FS_AddElement
    <3>2. Cardinality(G) <= Cardinality(H \cup {u})
      BY <2>1, <3>1, FS_Subset
    <3>3. QED
      BY <1>2, <3>1, <3>2
  <2>3. handed[s] + Cardinality(H) < MaxPackets /\ handed' = handed
    BY <1>6 DEF HandsOneMore, CanHand, Handing
  <2>4. QED
    BY <1>2, <1>3, <2>2, <2>3
<1>7. CASE HandsOver(s)
  <2>1. PICK u \in H : G \subseteq H \ {u} /\ handed'[s] = handed[s] + 1
    BY <1>7 DEF HandsOver
  <2>2. Cardinality(G) <= Cardinality(H) - 1
    <3>1. IsFiniteSet(H \ {u}) /\ Cardinality(H \ {u}) = Cardinality(H) - 1
      BY <1>1, FS_RemoveElement
    <3>2. Cardinality(G) <= Cardinality(H \ {u})
      BY <2>1, <3>1, FS_Subset
    <3>3. QED
      BY <3>1, <3>2
  <2>3. QED
    BY <1>2, <1>3, <1>4, <2>1, <2>2
<1>8. QED
  BY <1>5, <1>6, <1>7, HandingChange

-----------------------------------------------------------------------------
(* The order of a session's packets.                                       *)

(* Steps that do nothing to a session's packets keep their order.          *)
LEMMA PacketsSame ==
  ASSUME NEW s \in Sessions, PacketsInOrder(s),
         sendQueue'[s] = sendQueue[s], reservedBuffer'[s] = reservedBuffer[s],
         handed'[s] = handed[s], wire'[s] = wire[s],
         \A u \in Threads : Prepared(u, s)' => Prepared(u, s) /\ stream'[u] = stream[u]
  PROVE  PacketsInOrder(s)'
<1>1. Channel!Arrived(s)' = Channel!Arrived(s)
  BY DEF Channel!Arrived
<1>2. ASSUME NEW p \in Channel!Arrived(s) PROVE InOrderAfter(p, s)'
  BY DEF PacketsInOrder, InOrderAfter, QueueSorted, Precedes, GoesFirst
<1>3. QED
  BY <1>1, <1>2 DEF PacketsInOrder

(* The packets that arrived are numbers.                                   *)
LEMMA ArrivedTypes == TypeOK => \A s \in Sessions : Channel!Arrived(s) \subseteq Nat
<1> SUFFICES ASSUME TypeOK, NEW s \in Sessions, NEW i \in 1..Len(wire[s])
             PROVE  wire[s][i].packet \in Nat
  BY DEF Channel!Arrived, Channel!Noise
<1>1. wire[s] \in Seq([packet : Nat, stale : BOOLEAN])
  BY DEF TypeOK, SendTypeOK
<1>2. wire[s][i] \in [packet : Nat, stale : BOOLEAN]
  BY <1>1, ElementOfSeq
<1>3. QED
  BY <1>2

(* Enqueue appends the latest packet.                                      *)
LEMMA EnqueueOrder ==
  ASSUME TypeOK, Control, NEW s \in Sessions, NEW L \in Nat, InOrderAfter(L, s),
         NEW t \in Threads, Enqueue(t), cur[t] = s
  PROVE  InOrderAfter(L, s)'
<1> DEFINE q == sendQueue[s]
           h == handed[s]
<1>1. q \in Seq(Nat) /\ h \in Nat /\ reservedBuffer[s] \in Nat
  BY DEF TypeOK, SendTypeOK
<1>2. /\ handed'[s] = h + 1 /\ sendQueue'[s] = Append(q, h + 1)
      /\ UNCHANGED <<reservedBuffer, stream, wire>>
  BY DEF Enqueue, TypeOK, SendTypeOK
<1>3. \A u \in Threads : Prepared(u, s)' => Prepared(u, s)
  BY DEF Enqueue, Goto, Prepared, TypeOK, ThreadTypeOK
<1>4. /\ Len(sendQueue'[s]) = Len(q) + 1
      /\ sendQueue'[s][Len(q) + 1] = h + 1
      /\ \A i \in 1..Len(q) : sendQueue'[s][i] = q[i]
  BY <1>1, <1>2, AppendProperties
<1>5. QueueSorted(s)
  BY DEF InOrderAfter
<1>6. QueueSorted(s)'
  <2> DEFINE p == sendQueue'[s]
             n == Len(q)
  <2>1. n \in Nat
    BY <1>1
  <2>2. /\ \A i \in 1..n : q[i] \in 1..h
        /\ \A i, j \in 1..n : i < j => q[i] < q[j]
    BY <1>5 DEF QueueSorted
  <2>3. p[n + 1] = h + 1 /\ Len(p) = n + 1 /\ \A i \in 1..n : p[i] = q[i]
    BY <1>4
  <2> HIDE DEF p, q, h, n
  <2>0. h \in Nat /\ \A i \in 1..(n + 1) : i \in 1..n \/ i = n + 1
    BY <1>1, <2>1 DEF h
  <2>4. \A i \in 1..(n + 1) : p[i] \in 1..(h + 1)
    BY <2>0, <2>2, <2>3
  <2>5. \A i, j \in 1..(n + 1) : i < j => p[i] < p[j]
    <3> SUFFICES ASSUME NEW i \in 1..(n + 1), NEW j \in 1..(n + 1), i < j PROVE p[i] < p[j]
      OBVIOUS
    <3>1. i \in 1..n
      BY <2>1
    <3>2. CASE j \in 1..n
      BY <2>2, <2>3, <3>1, <3>2
    <3>3. CASE j = n + 1
      BY <2>0, <2>2, <2>3, <3>1, <3>3
    <3>4. QED
      BY <2>0, <3>2, <3>3
  <2>6. QED
    BY <1>2, <2>3, <2>4, <2>5 DEF QueueSorted, p, h
<1>7. ASSUME NEW p, Precedes(p, s), p \in Nat
      PROVE  p <= handed'[s] /\ \A i \in 1..Len(sendQueue'[s]) : p < sendQueue'[s][i]
  BY <1>1, <1>2, <1>4, <1>7 DEF Precedes
<1>9. Precedes(reservedBuffer[s], s)'
  BY <1>1, <1>2, <1>7 DEF InOrderAfter, Precedes
<1>10. GoesFirst(L, s)'
  BY <1>2, <1>7 DEF InOrderAfter, GoesFirst, Precedes
<1>11. ASSUME NEW u \in Threads, Prepared(u, s)'
       PROVE  (GoesFirst(stream[u].first, s) /\ L < stream[u].first)'
  <2>1. GoesFirst(stream[u].first, s) /\ L < stream[u].first
    BY <1>3, <1>11 DEF InOrderAfter
  <2>2. stream[u].first \in Nat
    BY DEF TypeOK, SendTypeOK
  <2>3. QED
    BY <1>2, <1>7, <2>1, <2>2 DEF GoesFirst, Precedes
<1>12. QED
  BY <1>6, <1>9, <1>10, <1>11 DEF InOrderAfter

(* What arrives with a RIOSend is the first packet of the stream, or noise.*)
LEMMA RIOSendArrival ==
  ASSUME TypeOK, NEW t \in Threads, RIOSend(t), NEW s \in Sessions, cur[t] = s
  PROVE  /\ Channel!Arrived(s)' \subseteq Channel!Arrived(s) \cup {stream[t].first}
         /\ \/ UNCHANGED wire
            \/ \E d \in [packet : {Channel!Noise, stream[t].first}, stale : BOOLEAN] :
                 wire' = [wire EXCEPT ![s] = Append(@, d)]
<1> DEFINE f == stream[t].first
           D == [packet : {Channel!Noise, f}, stale : BOOLEAN]
<1>1. wire[s] \in Seq([packet : Nat, stale : BOOLEAN]) /\ f \in Nat
      /\ stream[t].stale \in BOOLEAN
  BY DEF TypeOK, SendTypeOK
<1>2. OnWire(t) \subseteq D
  BY <1>1 DEF OnWire, Channel!Noise, NoPacket
<1>3. UNCHANGED wire \/ \E d \in D : wire' = [wire EXCEPT ![s] = Append(@, d)]
  BY <1>2 DEF RIOSend
<1>4. CASE UNCHANGED wire
  BY <1>3, <1>4 DEF Channel!Arrived
<1>5. ASSUME NEW d \in D, wire' = [wire EXCEPT ![s] = Append(@, d)]
      PROVE  Channel!Arrived(s)' \subseteq Channel!Arrived(s) \cup {f}
  <2>1. wire'[s] = Append(wire[s], d) /\ d.packet \in {Channel!Noise, f}
        /\ d \in [packet : Nat, stale : BOOLEAN]
    BY <1>1, <1>5 DEF TypeOK, SendTypeOK, Channel!Noise
  <2>2. /\ Len(wire'[s]) = Len(wire[s]) + 1 /\ Len(wire[s]) \in Nat
        /\ wire'[s][Len(wire[s]) + 1] = d
        /\ \A i \in 1..Len(wire[s]) : wire'[s][i] = wire[s][i]
    BY <1>1, <2>1, AppendProperties
  <2>3. \A i \in 1..Len(wire'[s]) : i \in 1..Len(wire[s]) \/ wire'[s][i] = d
    BY <2>2
  <2>4. QED
    BY <2>1, <2>2, <2>3 DEF Channel!Arrived
<1>6. QED
  BY <1>3, <1>4, <1>5

(* RIOSend moves a thread's stream to the wire.                            *)
LEMMA RIOSendOrder ==
  ASSUME TypeOK, Control, SendInv, NEW s \in Sessions, PacketsInOrder(s),
         NEW t \in Threads, RIOSend(t), cur[t] = s
  PROVE  PacketsInOrder(s)'
<1> DEFINE f == stream[t].first
<1>1. f \in Nat /\ Channel!Noise \in Channel!Arrived(s)
  BY DEF TypeOK, SendTypeOK, Channel!Arrived
<1>2. UNCHANGED <<sendQueue, reservedBuffer, handed>>
  BY DEF RIOSend
<1>3. ASSUME NEW u \in Threads PROVE ~Prepared(u, s)'
  <2>1. Sends(t, s)
    BY DEF RIOSend, Sends
  <2>2. Prepared(u, s) => u = t
    BY <2>1 DEF SendInv, SendMutex, Sends, Prepared
  <2>3. pc[t] = "RIOSend" /\ (Goto(t, "cas") \/ Goto(t, "dec"))
    BY DEF RIOSend, SendFailed
  <2>4. QED
    BY <2>2, <2>3 DEF Prepared, Goto, TypeOK, ThreadTypeOK
<1>4. GoesFirst(f, s) /\ \A p \in Channel!Arrived(s) : GoesFirst(p, s)
  BY <1>1 DEF PacketsInOrder, InOrderAfter, RIOSend, Prepared
<1>5. Channel!Arrived(s)' \subseteq Channel!Arrived(s) \cup {f}
  BY RIOSendArrival
<1>7. ASSUME NEW p \in Channel!Arrived(s)' PROVE GoesFirst(p, s)'
  BY <1>2, <1>4, <1>5 DEF GoesFirst, Precedes
<1>8. QueueSorted(s)' /\ Precedes(reservedBuffer[s], s)'
  BY <1>1, <1>2 DEF PacketsInOrder, InOrderAfter, QueueSorted, Precedes
<1>9. QED
  BY <1>3, <1>7, <1>8 DEF PacketsInOrder, InOrderAfter

(* MakeSendStream keeps a packet back only after it took another one.      *)
LEMMA ReservesLater ==
  ASSUME TypeOK, HandedBounded, NEW s \in Sessions, QueueSorted(s),
         NEW k \in Nat, k <= Len(sendQueue[s]), Overflows(s, k), reservedBuffer[s] = NoPacket
  PROVE  k >= 2
<1> DEFINE q == sendQueue[s]
<1> SUFFICES ASSUME k = 1 PROVE FALSE
  BY DEF Overflows
<1>1. q \in Seq(Nat) /\ q # <<>> /\ handed[s] \in Nat
  BY DEF TypeOK, SendTypeOK
<1>2. handed[s] <= MaxPackets
  <2>1. Cardinality(Handing(s)) \in Nat
    BY ThreadsFinite, FS_Subset, FS_CardinalityType DEF Handing
  <2>2. QED
    BY <1>1, <2>1, ConstantsAssumption DEF HandedBounded
<1>3. q[1] \in Packets
  BY <1>1, <1>2, ConstantsAssumption DEF QueueSorted, Packets
<1>4. SizeOf[q[1]] \in 1..(MaxSendBufferSize - 1)
  BY <1>3, ConstantsAssumption
<1>5. TotalSendSize(s, 1) = SizeOf[q[1]]
  BY <1>1, <1>4, FirstTotal
<1>6. QED
  BY <1>4, <1>5, ConstantsAssumption DEF Overflows

(* MakeSendStream takes the oldest packets.                                *)
LEMMA MakeSendStreamOrder ==
  ASSUME TypeOK, Control, SendInv, HandedBounded, NEW s \in Sessions,
         NEW L \in Nat, InOrderAfter(L, s),
         NEW t \in Threads, MakeSendStream(t), cur[t] = s
  PROVE  InOrderAfter(L, s)'
<1> DEFINE q == sendQueue[s]
           r == reservedBuffer[s]
<1>1. q \in Seq(Nat) /\ r \in Nat /\ handed[s] \in Nat /\ QueueSorted(s)
  BY DEF TypeOK, SendTypeOK, InOrderAfter
<1>2. PICK k \in 0..Len(q) :
        /\ sendQueue' = [sendQueue EXCEPT ![s] = SubSeq(q, k + 1, Len(q))]
        /\ reservedBuffer' = [reservedBuffer EXCEPT ![s] = NextReserved(s, k)]
        /\ \/ (k = 0 /\ r = NoPacket) /\ Return(t)
           \/ /\ ~(k = 0 /\ r = NoPacket)
              /\ stream' = [stream EXCEPT ![t] =
                   [first   |-> IF r = NoPacket THEN q[1] ELSE r,
                    copied  |-> r # NoPacket \/ Fits(SizeOf[q[1]]),
                    stale   |-> k > 1 \/ (k = 1 /\ r # NoPacket),
                    tooLong |-> TotalSendSize(s, k) > MaxSendBufferSize]]
        /\ UNCHANGED <<handed, wire>>
  BY DEF MakeSendStream
<1>3. /\ Len(sendQueue'[s]) = Len(q) - k
      /\ \A i \in 1..(Len(q) - k) : i + k \in 1..Len(q) /\ sendQueue'[s][i] = q[i + k]
  <2> DEFINE m == Len(q)
             p == SubSeq(q, k + 1, m)
  <2>1. m \in Nat /\ k \in 0..m /\ k + 1 \in 1..(m + 1) /\ m \in ((k + 1) - 1)..m
    BY <1>1
  <2>2. sendQueue'[s] = p
    BY <1>2 DEF TypeOK, SendTypeOK
  <2> HIDE DEF m, q
  <2>3. /\ Len(p) = m - (k + 1) + 1
        /\ \A i \in 1..(m - (k + 1) + 1) : p[i] = q[(k + 1) + i - 1]
    BY SMTT(40), <1>1, <2>1, SubSeqProperties DEF m
  <2> HIDE DEF p
  <2>4. m - (k + 1) + 1 = m - k /\ \A i \in 1..(m - k) : (k + 1) + i - 1 = i + k
    BY <2>1
  <2>5. Len(p) = m - k /\ \A i \in 1..(m - k) : p[i] = q[i + k] /\ i + k \in 1..m
    BY <2>1, <2>3, <2>4
  <2>6. QED
    BY <2>2, <2>5 DEF m
<1>4. /\ reservedBuffer'[s] = NextReserved(s, k)
      /\ handed'[s] = handed[s]
  BY <1>2 DEF TypeOK, SendTypeOK
<1>5. /\ \A i \in 1..Len(q) : q[i] \in 1..handed[s]
      /\ \A i, j \in 1..Len(q) : i < j => q[i] < q[j]
      /\ r <= handed[s] /\ \A i \in 1..Len(q) : r < q[i]
      /\ L <= handed[s] /\ \A i \in 1..Len(q) : L < q[i]
      /\ r # NoPacket => L < r
  BY DEF InOrderAfter, QueueSorted, Precedes, GoesFirst
<1>6. \/ NextReserved(s, k) = NoPacket
      \/ k >= 1 /\ NextReserved(s, k) = q[k] /\ Overflows(s, k)
  BY DEF NextReserved, Overflows
<1> DEFINE p == sendQueue'[s]
           n == Len(q) - k
<1>a. /\ \A i \in 1..n : p[i] \in 1..handed[s] /\ r < p[i] /\ L < p[i]
      /\ \A i, j \in 1..n : i < j => p[i] < p[j]
      /\ k >= 1 => \A i \in 1..n : q[k] < p[i]
      /\ n \in Nat /\ Len(p) = n
  <2>1. Len(q) \in Nat
    BY <1>1
  <2>2. k >= 1 => k \in 1..Len(q)
    BY <2>1
  <2>3. \A i \in 1..n : i + k \in 1..Len(q) /\ p[i] = q[i + k]
    BY <1>3
  <2>4. /\ \A i \in 1..n : k < i + k
        /\ \A i, j \in 1..n : i < j => i + k < j + k
    BY <2>1
  <2> HIDE DEF p, q, r
  <2>5. \A i \in 1..n : p[i] \in 1..handed[s] /\ r < p[i] /\ L < p[i]
    BY <1>5, <2>3
  <2>6. \A i, j \in 1..n : i < j => p[i] < p[j]
    BY <1>5, <2>3, <2>4
  <2>7. k >= 1 => \A i \in 1..n : q[k] < p[i]
    BY <1>5, <2>2, <2>3, <2>4
  <2>8. n \in Nat /\ Len(p) = n
    BY <1>3, <2>1 DEF p
  <2>9. QED
    BY <2>5, <2>6, <2>7, <2>8
<1>b. k >= 1 => k \in 1..Len(q) /\ q[k] \in 1..handed[s] /\ r < q[k] /\ L < q[k]
  BY <1>1, <1>5
<1>7. QueueSorted(s)'
  BY <1>4, <1>a DEF QueueSorted
<1>8. Precedes(reservedBuffer[s], s)'
  <2> DEFINE m == NextReserved(s, k)
  <2>1. m <= handed[s] /\ \A i \in 1..n : m < p[i]
    <3>1. CASE m = NoPacket
      <4> HIDE DEF m, n, p, q, r
      <4>1. \A i \in 1..n : 0 < p[i]
        BY <1>a
      <4>2. QED
        BY <1>1, <3>1, <4>1 DEF NoPacket
    <3>2. CASE k >= 1 /\ m = q[k]
      BY <1>1, <1>a, <1>b, <3>2
    <3>3. QED
      BY <1>6, <3>1, <3>2
  <2> HIDE DEF m
  <2>2. QED
    BY <1>4, <1>a, <2>1 DEF Precedes, m
<1>9. GoesFirst(L, s)'
  BY <1>1, <1>4, <1>5, <1>6, <1>a, <1>b DEF GoesFirst, Precedes, NoPacket
<1>10. ASSUME NEW u \in Threads, Prepared(u, s)' PROVE u = t
  <2>1. Sends(t, s)
    BY DEF MakeSendStream, Sends
  <2>2. Prepared(u, s) => u = t
    BY <2>1 DEF SendInv, SendMutex, Sends, Prepared
  <2>3. Return(t) \/ Goto(t, "sendCount")
    BY MakeSendStreamControl
  <2>4. QED
    BY <1>10, <2>2, <2>3 DEF Prepared, Return, Goto, TypeOK, ThreadTypeOK
<1>11. ASSUME Prepared(t, s)'
       PROVE  (GoesFirst(stream[t].first, s) /\ L < stream[t].first)'
  <2>1. ~Return(t)
    BY <1>11, MakeSendStreamControl
       DEF Prepared, Return, TypeOK, ThreadTypeOK, Control, ThreadControl, AccepterControl,
           WorkerControl, AppControl, SendLabels, Releasing, Threads
  <2>2. /\ ~(k = 0 /\ r = NoPacket)
        /\ stream'[t].first = IF r = NoPacket THEN q[1] ELSE r
    BY <1>2, <2>1 DEF TypeOK, SendTypeOK
  <2>3. CASE r # NoPacket
    <3>1. stream'[t].first = r /\ L < r /\ r <= handed[s]
      BY <1>5, <2>2, <2>3
    <3>2. NextReserved(s, k) # NoPacket => r < NextReserved(s, k)
      BY <1>6, <1>b
    <3>3. Len(sendQueue'[s]) = n /\ \A i \in 1..n : r < sendQueue'[s][i]
      BY <1>a
    <3> HIDE DEF r, n, p, q
    <3>4. QED
      BY <1>4, <3>1, <3>2, <3>3 DEF GoesFirst, Precedes
  <2>4. CASE r = NoPacket
    <3>1. k >= 1 /\ stream'[t].first = q[1] /\ 1 \in 1..Len(q)
      BY <1>1, <2>2, <2>4
    <3>2. NextReserved(s, k) # NoPacket => k >= 2 /\ NextReserved(s, k) = q[k]
      BY <1>1, <1>6, <2>4, ReservesLater
    <3>3. q[1] <= handed[s] /\ L < q[1] /\ (k >= 2 => q[1] < q[k])
      <4>1. k >= 2 => k \in 1..Len(q) /\ 1 < k
        BY <1>b
      <4> HIDE DEF q, r
      <4>2. q[1] \in 1..handed[s] /\ L < q[1]
        BY <1>5, <3>1
      <4>3. k >= 2 => q[1] < q[k]
        BY <1>5, <3>1, <4>1
      <4>4. q[1] <= handed[s]
        BY <1>1, <4>2
      <4>5. QED
        BY <4>2, <4>3, <4>4
    <3>4. \A i \in 1..n : q[1] < p[i]
      BY <1>3, <1>5, <3>1
    <3>5. Len(p) = n
      BY <1>a
    <3> HIDE DEF r, n, q
    <3>6. QED
      BY <1>4, <3>1, <3>2, <3>3, <3>4, <3>5 DEF GoesFirst, Precedes
  <2>5. QED
    BY <2>3, <2>4
<1>12. QED
  BY <1>7, <1>8, <1>9, <1>10, <1>11 DEF InOrderAfter

(* Every step keeps the packets of every session in order.                 *)
LEMMA PacketStep ==
  ASSUME TypeOK, Control, SendInv, HandedBounded, PacketInv, [Next]_vars PROVE PacketInv'
<1> SUFFICES ASSUME NEW s \in Sessions PROVE PacketsInOrder(s)'
  BY DEF PacketInv
<1>1. PacketsInOrder(s)
  BY DEF PacketInv
<1>2. ASSUME NEW t \in Threads, Enqueue(t) PROVE PacketsInOrder(s)'
  <2>1. CASE cur[t] = s
    <3>1. Channel!Arrived(s)' = Channel!Arrived(s)
      BY <1>2 DEF Enqueue, Channel!Arrived
    <3>2. ASSUME NEW p \in Channel!Arrived(s) PROVE InOrderAfter(p, s)'
      BY <1>1, <1>2, <2>1, <3>2, ArrivedTypes, EnqueueOrder DEF PacketsInOrder
    <3>3. QED
      BY <3>1, <3>2 DEF PacketsInOrder
  <2>2. CASE cur[t] # s
    BY <1>1, <1>2, <2>2, PacketsSame
       DEF Enqueue, Goto, Prepared, TypeOK, ThreadTypeOK, SendTypeOK
  <2>3. QED
    BY <2>1, <2>2
<1>3. ASSUME NEW t \in Threads, RIOSend(t) PROVE PacketsInOrder(s)'
  <2>1. CASE cur[t] = s
    BY <1>1, <1>3, <2>1, RIOSendOrder
  <2>2. CASE cur[t] # s
    BY <1>1, <1>3, <2>2, PacketsSame
       DEF RIOSend, SendFailed, Goto, Prepared, TypeOK, ThreadTypeOK, SendTypeOK
  <2>3. QED
    BY <2>1, <2>2
<1>4. ASSUME NEW t \in Threads, MakeSendStream(t) PROVE PacketsInOrder(s)'
  <2>1. CASE cur[t] = s
    <3>1. Channel!Arrived(s)' = Channel!Arrived(s)
      BY <1>4 DEF MakeSendStream, Channel!Arrived
    <3>2. ASSUME NEW p \in Channel!Arrived(s) PROVE InOrderAfter(p, s)'
      BY <1>1, <1>4, <2>1, <3>2, ArrivedTypes, MakeSendStreamOrder DEF PacketsInOrder
    <3>3. QED
      BY <3>1, <3>2 DEF PacketsInOrder
  <2>2. CASE cur[t] # s
    <3>1. PICK q, r : /\ sendQueue' = [sendQueue EXCEPT ![cur[t]] = q]
                      /\ reservedBuffer' = [reservedBuffer EXCEPT ![cur[t]] = r]
      BY <1>4 DEF MakeSendStream
    <3>2. \A u \in Threads \ {t} : stream'[u] = stream[u]
      BY <1>4 DEF MakeSendStream, TypeOK, SendTypeOK
    <3>3. UNCHANGED <<handed, wire>>
      BY <1>4 DEF MakeSendStream
    <3>4. Return(t) \/ Goto(t, "sendCount")
      BY <1>4, MakeSendStreamControl
    <3>5. ~Prepared(t, s)' /\ \A u \in Threads \ {t} : Prepared(u, s)' => Prepared(u, s)
      <4>1. pc[t] = "make" /\ ret[t] # "idle"
            => cur'[t] = cur[t]
        BY <3>4 DEF Return, Goto
      <4>2. QED
        BY <1>4, <2>2, <3>4, NoSessionIsNone DEF Prepared, Return, Goto, TypeOK, ThreadTypeOK
    <3>6. QED
      BY <1>1, <2>2, <3>1, <3>2, <3>3, <3>5, PacketsSame DEF TypeOK, SendTypeOK
  <2>3. QED
    BY <2>1, <2>2
<1>5. CASE /\ UNCHANGED <<sendQueue, reservedBuffer, stream, handed, wire>>
           /\ \A t \in Threads : ~MakeSendStream(t)
  BY <1>1, <1>5, PreparedKept, PacketsSame
<1>6. QED
  BY <1>2, <1>3, <1>4, <1>5, SendChange DEF SetSendDisconnect

(* At the start no packet is anywhere.                                     *)
LEMMA PacketInit == Init => HandedBounded /\ PacketInv
<1> SUFFICES ASSUME Init, NEW s \in Sessions
             PROVE  handed[s] + Cardinality(Handing(s)) <= MaxPackets /\ PacketsInOrder(s)
  BY DEF HandedBounded, PacketInv
<1>1. Handing(s) = {} /\ \A t \in Threads : ~Prepared(t, s)
  BY DEF Init, Handing, Prepared
<1>2. /\ handed[s] = 0 /\ sendQueue[s] = <<>> /\ wire[s] = <<>>
      /\ reservedBuffer[s] = NoPacket
  BY DEF Init
<1>3. Cardinality(Handing(s)) = 0
  BY <1>1, FS_EmptySet
<1>4. PacketsInOrder(s)
  BY <1>1, <1>2
     DEF PacketsInOrder, InOrderAfter, QueueSorted, Precedes, GoesFirst, NoPacket,
         Channel!Arrived, Channel!Noise
<1>5. QED
  BY <1>2, <1>3, <1>4, ConstantsAssumption

(* The packets of every session are always in order.                       *)
LEMMA PacketInvariance == Spec => [](HandedBounded /\ PacketInv)
<1>1. Init => HandedBounded /\ PacketInv
  BY PacketInit
<1>2. ASSUME Inv, HandedBounded /\ PacketInv, [Next]_vars PROVE (HandedBounded /\ PacketInv)'
  BY <1>2, HandedStep, PacketStep DEF Inv
<1>3. QED
  BY <1>1, <1>2, Invariance, PTL DEF Spec

(* Enqueue is LossyChannel's Hand, a successful RIOSend its Arrive; no     *)
(* other step is seen by the two ends of a channel.                        *)
LEMMA ChannelStep ==
  ASSUME Inv, PacketInv, [Next]_vars PROVE [Channel!Next]_<<handed, wire>>
<1> USE DEF Inv, TypeOK, SendTypeOK
<1>1. ASSUME NEW t \in Threads, Enqueue(t) PROVE Channel!Next
  <2>1. cur[t] \in Sessions
    BY <1>1, Busy DEF Enqueue
  <2>2. Channel!Hand(cur[t])
    BY <1>1 DEF Enqueue, Channel!Hand
  <2>3. QED
    BY <2>1, <2>2 DEF Channel!Next
<1>2. ASSUME NEW t \in Threads, RIOSend(t) PROVE Channel!Next \/ UNCHANGED <<handed, wire>>
  <2> DEFINE f == stream[t].first
  <2>1. PICK s \in Sessions : cur[t] = s
    BY <1>2, Busy DEF RIOSend
  <2>2. f <= handed[s] /\ \A p \in Channel!Arrived(s) : p < f
    <3>1. Prepared(t, s) /\ Channel!Noise \in Channel!Arrived(s)
      BY <1>2, <2>1 DEF Prepared, RIOSend, Channel!Arrived
    <3>2. QED
      BY <2>1, <3>1 DEF PacketInv, PacketsInOrder, InOrderAfter, GoesFirst, Precedes
  <2>3. f \in Nat /\ handed[s] \in Nat
    BY <2>1
  <2>4. [packet : {Channel!Noise, f}, stale : BOOLEAN]
          \subseteq [packet : 0..handed[s], stale : BOOLEAN]
    BY <2>2, <2>3 DEF Channel!Noise
  <2>5. UNCHANGED handed
        /\ \/ UNCHANGED wire
           \/ \E d \in [packet : {Channel!Noise, f}, stale : BOOLEAN] :
                wire' = [wire EXCEPT ![s] = Append(@, d)]
    <3>1. UNCHANGED handed
      BY <1>2 DEF RIOSend
    <3>2. TypeOK
      OBVIOUS
    <3>3. QED
      BY ONLY <1>2, <2>1, <3>1, <3>2, RIOSendArrival
  <2>6. CASE UNCHANGED wire
    BY <2>5, <2>6
  <2>7. ASSUME NEW d \in [packet : {Channel!Noise, f}, stale : BOOLEAN],
               wire' = [wire EXCEPT ![s] = Append(@, d)]
        PROVE  Channel!Arrive(s)
    BY <2>2, <2>4, <2>5, <2>7 DEF Channel!Arrive
  <2>8. QED
    BY <2>1, <2>5, <2>6, <2>7 DEF Channel!Next
<1>3. ASSUME NEW t \in Threads, MakeSendStream(t) PROVE UNCHANGED <<handed, wire>>
  BY <1>3 DEF MakeSendStream
<1>4. QED
  BY <1>1, <1>2, <1>3, SendChange DEF SetSendDisconnect

(* The packets that RIO gets whole come in the order they were handed to   *)
(* SendPacket, none twice, with noise between them: for every session the  *)
(* send path is a LossyChannel.                                            *)
THEOREM SendPathIsLossyChannel == Spec => ImplementsLossyChannel
<1>1. Init => Channel!Init
  BY DEF Init, Channel!Init
<1>2. Inv /\ (HandedBounded /\ PacketInv) /\ [Next]_vars => [Channel!Next]_<<handed, wire>>
  BY ChannelStep
<1>3. QED
  BY <1>1, <1>2, Invariance, PacketInvariance, PTL DEF Spec, ImplementsLossyChannel, Channel!Spec

-----------------------------------------------------------------------------
(* The life of a session in the map.                                       *)

(* The accepter's session was not in the map and not erased before.        *)
LEMMA FreshPublished ==
  ASSUME TypeOK, Control, PublishesFresh, Publish
  PROVE  /\ cur[Accepter] \in Sessions /\ cur[Accepter] \notin sessionMap
         /\ ~Erased(cur[Accepter])
         /\ \A t \in Threads : cur[t] = cur[Accepter] => t = Accepter
BY Busy DEF Publish, PublishesFresh, Erased, Threads

(* Every step keeps a session's one way into the map and out of it.        *)
LEMMA LifeStep ==
  ASSUME TypeOK, Control, PublishesFresh, LifeInv, [Next]_vars PROVE LifeInv'
<1> USE ConstantsAssumption, NoSessionIsNone
    DEF TypeOK, ThreadTypeOK, RegistryTypeOK, HistoryTypeOK, LifeInv, Erased, Threads,
        Goto, Call, Return, Caller, Control, ThreadControl, AccepterControl, WorkerControl,
        AppControl, SendLabels, Releasing
<1>1. CASE AcceptSession
  BY <1>1 DEF AcceptSession
<1>2. CASE Publish
  BY <1>2, FreshPublished DEF Publish
<1>3. CASE OnSessionEntered
  BY <1>3 DEF OnSessionEntered
<1>4. CASE CountSession
  BY <1>4 DEF CountSession
<1>5. ASSUME NEW t \in Threads, RIOReceive(t) PROVE LifeInv'
  BY <1>5 DEF RIOReceive
<1>6. ASSUME NEW t \in Threads, CountRecv(t) PROVE LifeInv'
  BY <1>6 DEF CountRecv, TakesReference
<1>7. ASSUME NEW t \in Threads, IOCountDecrement(t) PROVE LifeInv'
  BY <1>7 DEF IOCountDecrement
<1>8. ASSUME NEW t \in Threads, OnSessionLeaved(t) PROVE LifeInv'
  BY <1>8 DEF OnSessionLeaved
<1>9. ASSUME NEW t \in Threads, CloseSocket(t) PROVE LifeInv'
  BY <1>9 DEF CloseSocket
<1>10. ASSUME NEW t \in Threads, EraseSession(t) PROVE LifeInv'
  BY <1>10 DEF EraseSession
<1>11. ASSUME NEW t \in Threads, OnSessionReleased(t) PROVE LifeInv'
  BY <1>11 DEF OnSessionReleased
<1>12. ASSUME NEW t \in Threads, Enqueue(t) PROVE LifeInv'
  BY <1>12 DEF Enqueue
<1>13. ASSUME NEW t \in Threads, TrySending(t) PROVE LifeInv'
  BY <1>13 DEF TrySending
<1>14. ASSUME NEW t \in Threads, MakeSendStream(t) PROVE LifeInv'
  BY SMTT(40), <1>14, MakeSendStreamControl
<1>15. ASSUME NEW t \in Threads, CountSend(t) PROVE LifeInv'
  BY <1>15 DEF CountSend, TakesReference
<1>16. ASSUME NEW t \in Threads, RIOSend(t) PROVE LifeInv'
  BY SMTT(40), <1>16, RIOSendControl
<1>17. ASSUME NEW w \in Workers, HandlerReplies(w) PROVE LifeInv'
  BY <1>17 DEF HandlerReplies
<1>18. ASSUME NEW w \in Workers, RecvCompleted(w) PROVE LifeInv'
  BY <1>18 DEF RecvCompleted
<1>19. ASSUME NEW w \in Workers, SendIOCompleted(w) PROVE LifeInv'
  BY <1>19 DEF SendIOCompleted
<1>20. ASSUME NEW w \in Workers, SendCompleted(w) PROVE LifeInv'
  BY <1>20 DEF SendCompleted, Disconnect
<1>21. ASSUME NEW w \in Workers, NEW c \in Sessions, DequeueRecv(w, c) PROVE LifeInv'
  BY <1>21 DEF DequeueRecv
<1>22. ASSUME NEW w \in Workers, NEW c \in Sessions, DequeueSend(w, c) PROVE LifeInv'
  BY <1>22 DEF DequeueSend
<1>23. ASSUME NEW a \in Apps, SetSendDisconnect(a) PROVE LifeInv'
  BY <1>23 DEF SetSendDisconnect
<1>24. ASSUME NEW a \in Apps, NEW c \in Sessions, AppSendPacket(a, c) PROVE LifeInv'
  BY <1>24 DEF AppSendPacket
<1>25. ASSUME NEW a \in Apps, NEW c \in Sessions, AppSendPacketAndDisconnect(a, c)
       PROVE  LifeInv'
  BY <1>25 DEF AppSendPacketAndDisconnect
<1>26. ASSUME NEW a \in Apps, NEW c \in Sessions, AppDisconnect(a, c) PROVE LifeInv'
  BY <1>26 DEF AppDisconnect, Disconnect
<1>27. ASSUME NEW c \in Sessions, ConnectionLost(c) PROVE LifeInv'
  BY <1>27 DEF ConnectionLost
<1>28. CASE UNCHANGED vars
  BY <1>28 DEF vars
<1>29. QED
  BY <1>1, <1>2, <1>3, <1>4, <1>5, <1>6, <1>7, <1>8, <1>9, <1>10, <1>11, <1>12, <1>13,
     <1>14, <1>15, <1>16, <1>17, <1>18, <1>19, <1>20, <1>21, <1>22, <1>23, <1>24,
     <1>25, <1>26, <1>27, <1>28
     DEF Next, AccepterStep, CallStep, WorkerStep, DequeueCompletion, AppCall

-----------------------------------------------------------------------------
(* The counters.                                                           *)

(* Steps that nothing is closed, erased or counted in.                     *)
KeepsCounters ==
  /\ UNCHANGED <<sessionMap, sessionCount, numOfSession, released>>
  /\ \A s \in sessionMap : threadId'[s] = threadId[s]
  /\ \A u \in Threads : {pc[u], pc'[u]} \cap {"erase", "free"} # {} =>
       pc'[u] = pc[u] /\ cur'[u] = cur[u]
  /\ AccepterCounts' <=> AccepterCounts

(* Most steps do not move the counters.                                    *)
LEMMA CountersKept ==
  ASSUME TypeOK, Control, Identity, [Next]_vars
  PROVE  \/ KeepsCounters \/ Publish \/ CountSession
         \/ \E t \in Threads : CloseSocket(t) \/ EraseSession(t) \/ OnSessionReleased(t)
<1> USE ConstantsAssumption, NoSessionIsNone
    DEF TypeOK, ThreadTypeOK, RegistryTypeOK, KeepsCounters, AccepterCounts, Threads,
        Goto, Call, Return, Caller, Control, ThreadControl, AccepterControl, WorkerControl,
        AppControl, SendLabels, Releasing
<1> DEFINE Goal == \/ KeepsCounters \/ Publish \/ CountSession
                   \/ \E t \in Threads :
                        CloseSocket(t) \/ EraseSession(t) \/ OnSessionReleased(t)
<1>1. CASE AcceptSession
  <2>1. PICK n \in Sessions, w \in Workers :
          /\ Untouched(n)
          /\ threadId' = [threadId EXCEPT ![n] = w]
          /\ pc[Accepter] = "idle"
          /\ UNCHANGED threadVars \/ Call(Accepter, n, "publish", "dec")
    BY <1>1, AcceptsUntouched DEF Identity
  <2>2. \A s \in sessionMap : threadId'[s] = threadId[s]
    BY <2>1 DEF Untouched
  <2>3. UNCHANGED <<sessionMap, sessionCount, numOfSession, released>>
    BY <1>1 DEF AcceptSession
  <2>4. QED
    BY <2>1, <2>2, <2>3
<1>2. CASE Publish
  BY <1>2
<1>3. CASE OnSessionEntered
  BY <1>3 DEF OnSessionEntered
<1>4. CASE CountSession
  BY <1>4
<1>5. ASSUME NEW t \in Threads, RIOReceive(t) PROVE Goal
  BY <1>5 DEF RIOReceive
<1>6. ASSUME NEW t \in Threads, CountRecv(t) PROVE Goal
  BY <1>6 DEF CountRecv, TakesReference
<1>7. ASSUME NEW t \in Threads, IOCountDecrement(t) PROVE Goal
  BY <1>7 DEF IOCountDecrement
<1>8. ASSUME NEW t \in Threads, OnSessionLeaved(t) PROVE Goal
  BY <1>8 DEF OnSessionLeaved
<1>9. ASSUME NEW t \in Threads, CloseSocket(t) PROVE Goal
  BY <1>9
<1>10. ASSUME NEW t \in Threads, EraseSession(t) PROVE Goal
  BY <1>10
<1>11. ASSUME NEW t \in Threads, OnSessionReleased(t) PROVE Goal
  BY <1>11
<1>12. ASSUME NEW t \in Threads, Enqueue(t) PROVE Goal
  BY <1>12 DEF Enqueue
<1>13. ASSUME NEW t \in Threads, TrySending(t) PROVE Goal
  BY <1>13 DEF TrySending
<1>14. ASSUME NEW t \in Threads, MakeSendStream(t) PROVE Goal
  BY <1>14, MakeSendStreamControl
<1>15. ASSUME NEW t \in Threads, CountSend(t) PROVE Goal
  BY <1>15 DEF CountSend, TakesReference
<1>16. ASSUME NEW t \in Threads, RIOSend(t) PROVE Goal
  BY <1>16, RIOSendControl
<1>17. ASSUME NEW w \in Workers, HandlerReplies(w) PROVE Goal
  BY <1>17 DEF HandlerReplies
<1>18. ASSUME NEW w \in Workers, RecvCompleted(w) PROVE Goal
  BY <1>18 DEF RecvCompleted
<1>19. ASSUME NEW w \in Workers, SendIOCompleted(w) PROVE Goal
  BY <1>19 DEF SendIOCompleted
<1>20. ASSUME NEW w \in Workers, SendCompleted(w) PROVE Goal
  BY <1>20 DEF SendCompleted, Disconnect
<1>21. ASSUME NEW w \in Workers, NEW c \in Sessions, DequeueRecv(w, c) PROVE Goal
  BY <1>21 DEF DequeueRecv
<1>22. ASSUME NEW w \in Workers, NEW c \in Sessions, DequeueSend(w, c) PROVE Goal
  BY <1>22 DEF DequeueSend
<1>23. ASSUME NEW a \in Apps, SetSendDisconnect(a) PROVE Goal
  BY <1>23 DEF SetSendDisconnect
<1>24. ASSUME NEW a \in Apps, NEW c \in Sessions, AppSendPacket(a, c) PROVE Goal
  BY <1>24 DEF AppSendPacket
<1>25. ASSUME NEW a \in Apps, NEW c \in Sessions, AppSendPacketAndDisconnect(a, c)
       PROVE  Goal
  BY <1>25 DEF AppSendPacketAndDisconnect
<1>26. ASSUME NEW a \in Apps, NEW c \in Sessions, AppDisconnect(a, c) PROVE Goal
  BY <1>26 DEF AppDisconnect, Disconnect
<1>27. ASSUME NEW c \in Sessions, ConnectionLost(c) PROVE Goal
  BY <1>27 DEF ConnectionLost
<1>28. CASE UNCHANGED vars
  BY <1>28 DEF vars
<1>29. QED
  BY <1>1, <1>2, <1>3, <1>4, <1>5, <1>6, <1>7, <1>8, <1>9, <1>10, <1>11, <1>12, <1>13,
     <1>14, <1>15, <1>16, <1>17, <1>18, <1>19, <1>20, <1>21, <1>22, <1>23, <1>24,
     <1>25, <1>26, <1>27, <1>28
     DEF Next, AccepterStep, CallStep, WorkerStep, DequeueCompletion, AppCall

(* The sets that are counted are finite.                                   *)
LEMMA OpenFinite ==
  ASSUME TypeOK
  PROVE  /\ IsFiniteSet(Open) /\ Cardinality(Open) \in Nat
         /\ \A w \in Workers : IsFiniteSet(OpenOf(w)) /\ Cardinality(OpenOf(w)) \in Nat
<1>1. IsFiniteSet(Sessions)
  BY ConstantsAssumption, FS_Interval DEF Sessions, FirstSessionId, NoSession
<1>2. Open \subseteq Sessions /\ \A w \in Workers : OpenOf(w) \subseteq Sessions
  BY DEF Open, OpenOf, TypeOK, RegistryTypeOK
<1>3. \A S \in SUBSET Sessions : IsFiniteSet(S) /\ Cardinality(S) \in Nat
  BY <1>1, FS_Subset, FS_CardinalityType
<1>4. QED
  BY <1>2, <1>3

(* A session that was closed twice stays so.                               *)
LEMMA ClosedOnceBefore ==
  ASSUME TypeOK, Control, Identity, [Next]_vars, NEW s \in Sessions, ClosedOnce(s)'
  PROVE  ClosedOnce(s)
<1> USE DEF TypeOK, ThreadTypeOK, HistoryTypeOK, ClosedOnce, Closed
<1>1. CASE KeepsCounters
  BY <1>1 DEF KeepsCounters
<1>2. CASE Publish \/ CountSession
  BY <1>2, ConstantsAssumption DEF Publish, CountSession, Goto, Call, Threads
<1>3. ASSUME NEW t \in Threads, CloseSocket(t) \/ EraseSession(t) PROVE ClosedOnce(s)
  BY <1>3 DEF CloseSocket, EraseSession, Goto
<1>4. ASSUME NEW t \in Threads, OnSessionReleased(t) PROVE ClosedOnce(s)
  <2>1. /\ pc[t] = "free"
        /\ \A u \in Threads \ {t} : pc'[u] = pc[u] /\ cur'[u] = cur[u]
        /\ released'[s] = IF s = cur[t] THEN released[s] + 1 ELSE released[s]
    BY <1>4 DEF OnSessionReleased, Return
  <2>2. released[s] \in Nat
    OBVIOUS
  <2>3. CASE s = cur[t]
    BY <2>1, <2>2, <2>3
  <2>4. CASE s # cur[t]
    BY <2>1, <2>4
  <2>5. QED
    BY <2>3, <2>4
<1>5. QED
  BY <1>1, <1>2, <1>3, <1>4, CountersKept

(* A step that leaves the counters and what they count alone keeps them    *)
(* exact.                                                                  *)
LEMMA CountersSame ==
  ASSUME CountersExact, UNCHANGED <<sessionCount, numOfSession>>, Open' = Open,
         \A s \in Open : threadId'[s] = threadId[s], AccepterCounts' <=> AccepterCounts
  PROVE  CountersExact'
<1>1. \A w \in Workers : OpenOf(w)' = OpenOf(w)
  BY DEF OpenOf
<1>2. QED
  BY <1>1 DEF CountersExact, Bit

(* Publish counts the session for its worker; the accepter is late with    *)
(* sessionCount from here on.                                              *)
LEMMA PublishCounts ==
  ASSUME TypeOK, TypeOK', Control, PublishesFresh, LifeInv, CountersExact, Publish
  PROVE  CountersExact'
<1> DEFINE s == cur[Accepter]
<1>1. /\ s \in Sessions /\ s \notin sessionMap
      /\ \A t \in Threads : cur[t] = s => t = Accepter
  BY FreshPublished
<1>2. /\ sessionMap' = sessionMap \cup {s}
      /\ UNCHANGED <<sessionCount, threadId, cur>>
      /\ numOfSession' = [numOfSession EXCEPT ![threadId[s]] = Plus(@, 1)]
      /\ pc[Accepter] = "publish" /\ pc' = [pc EXCEPT ![Accepter] = "RIOReceive"]
      /\ Accepter \in Threads
  BY DEF Publish, Goto, Threads
<1>3. Open' = Open \cup {s} /\ s \notin Open
  BY <1>1, <1>2 DEF Open, TypeOK, ThreadTypeOK
<1>4. /\ IsFiniteSet(Open) /\ Cardinality(Open) \in Nat
      /\ \A w \in Workers : IsFiniteSet(OpenOf(w)) /\ Cardinality(OpenOf(w)) \in Nat
  BY OpenFinite
<1>5. Cardinality(Open') = Cardinality(Open) + 1
  BY <1>3, <1>4, FS_AddElement
<1>6. AccepterCounts /\ ~AccepterCounts'
  BY <1>2 DEF AccepterCounts, TypeOK, ThreadTypeOK
<1>7. sessionCount' = (Cardinality(Open') - Bit(~AccepterCounts')) % CountModulus
  BY <1>2, <1>4, <1>5, <1>6 DEF CountersExact, Bit
<1>8. ASSUME NEW w \in Workers
      PROVE  numOfSession'[w] = Cardinality(OpenOf(w)') % CountModulus
  <2>1. numOfSession[w] = Cardinality(OpenOf(w)) % CountModulus
    BY DEF CountersExact
  <2>2. CASE w = threadId[s]
    <3>1. OpenOf(w)' = OpenOf(w) \cup {s} /\ s \notin OpenOf(w)
      BY <1>2, <1>3, <2>2 DEF OpenOf
    <3>2. Cardinality(OpenOf(w)') = Cardinality(OpenOf(w)) + 1
      BY <1>4, <3>1, FS_AddElement
    <3>3. numOfSession'[w] = Plus(numOfSession[w], 1)
      BY <1>2, <2>2 DEF TypeOK, RegistryTypeOK
    <3>4. QED
      BY <1>4, <2>1, <3>2, <3>3, PlusMod
  <2>3. CASE w # threadId[s]
    <3>1. OpenOf(w)' = OpenOf(w)
      BY <1>2, <1>3, <2>3 DEF OpenOf
    <3>2. numOfSession'[w] = numOfSession[w]
      BY <1>2, <2>3 DEF TypeOK, RegistryTypeOK
    <3>3. QED
      BY <2>1, <3>1, <3>2
  <2>4. QED
    BY <2>2, <2>3
<1>9. QED
  BY <1>7, <1>8 DEF CountersExact

(* CountSession makes up for it.                                           *)
LEMMA CountSessionCounts ==
  ASSUME TypeOK, CountersExact, CountSession
  PROVE  CountersExact'
<1>1. /\ UNCHANGED <<sessionMap, numOfSession, threadId>>
      /\ sessionCount' = Plus(sessionCount, 1)
      /\ pc[Accepter] = "count" /\ pc' = [pc EXCEPT ![Accepter] = "idle"]
      /\ \A u \in Threads \ {Accepter} : cur'[u] = cur[u]
      /\ Accepter \in Threads
  BY DEF CountSession, Call, Threads, TypeOK, ThreadTypeOK
<1>2. Open' = Open
  BY <1>1 DEF Open, TypeOK, ThreadTypeOK
<1>3. \A w \in Workers : OpenOf(w)' = OpenOf(w)
  BY <1>1, <1>2 DEF OpenOf
<1>4. Cardinality(Open) \in Nat
  BY OpenFinite
<1>5. ~AccepterCounts /\ AccepterCounts'
  BY <1>1 DEF AccepterCounts, TypeOK, ThreadTypeOK
<1>6. sessionCount = (Cardinality(Open) - 1) % CountModulus
  BY <1>5 DEF CountersExact, Bit
<1>7. sessionCount' = ((Cardinality(Open) - 1) + 1) % CountModulus
  BY <1>1, <1>4, <1>6, PlusMod
<1>8. (Cardinality(Open) - 1) + 1 = Cardinality(Open) - 0
  BY <1>4
<1>9. QED
  BY <1>1, <1>2, <1>3, <1>5, <1>7, <1>8 DEF CountersExact, Bit

(* CloseSocket takes a session off both counters: it was still counted, as *)
(* it had not been closed before.                                          *)
LEMMA CloseCounts ==
  ASSUME TypeOK, Control, LifeInv, CountersExact, NEW t \in Threads, CloseSocket(t),
         NEW s \in Sessions, s = cur[t], ClosedOnce(s)'
  PROVE  CountersExact'
<1>1. /\ UNCHANGED <<sessionMap, threadId, cur, released>>
      /\ sessionCount' = Plus(sessionCount, -1)
      /\ numOfSession' = [numOfSession EXCEPT ![threadId[s]] = Plus(@, -1)]
      /\ pc[t] = "close" /\ pc' = [pc EXCEPT ![t] = "erase"]
  BY DEF CloseSocket, Goto
<1>2. Closed(t, s)'
  BY <1>1 DEF Closed, TypeOK, ThreadTypeOK
<1>3. released[s] = 0 /\ \A u \in Threads : Closed(u, s)' => u = t
  BY <1>1, <1>2 DEF ClosedOnce
<1>4. \A u \in Threads : ~(cur[u] = s /\ pc[u] \in {"erase", "free"})
  BY <1>1, <1>3 DEF Closed, TypeOK, ThreadTypeOK
<1>5. s \in Open
  BY <1>1, <1>3, <1>4 DEF LifeInv, Erased, Open
<1>6. Open' = Open \ {s}
  BY <1>1 DEF Open, TypeOK, ThreadTypeOK
<1>7. /\ IsFiniteSet(Open) /\ Cardinality(Open) \in Nat
      /\ \A w \in Workers : IsFiniteSet(OpenOf(w)) /\ Cardinality(OpenOf(w)) \in Nat
  BY OpenFinite
<1>8. Cardinality(Open') = Cardinality(Open) - 1
  BY <1>5, <1>6, <1>7, FS_RemoveElement
<1>9. AccepterCounts' <=> AccepterCounts
  BY <1>1, ConstantsAssumption DEF AccepterCounts, Threads, TypeOK, ThreadTypeOK
<1>10. sessionCount' = (Cardinality(Open') - Bit(~AccepterCounts')) % CountModulus
  <2>1. Bit(~AccepterCounts) \in {0, 1} /\ Bit(~AccepterCounts') = Bit(~AccepterCounts)
    BY <1>9 DEF Bit
  <2>2. PICK n \in Int : n = Cardinality(Open) - Bit(~AccepterCounts)
    BY <1>7, <2>1
  <2>3. sessionCount' = (n + (-1)) % CountModulus
    BY <1>1, <2>2, PlusMod DEF CountersExact
  <2>4. n + (-1) = Cardinality(Open') - Bit(~AccepterCounts')
    BY <1>7, <1>8, <2>1, <2>2
  <2>5. QED
    BY <2>3, <2>4
<1>11. ASSUME NEW w \in Workers
       PROVE  numOfSession'[w] = Cardinality(OpenOf(w)') % CountModulus
  <2>1. numOfSession[w] = Cardinality(OpenOf(w)) % CountModulus
    BY DEF CountersExact
  <2>2. CASE w = threadId[s]
    <3>1. OpenOf(w)' = OpenOf(w) \ {s} /\ s \in OpenOf(w)
      BY <1>1, <1>5, <1>6, <2>2 DEF OpenOf
    <3>2. Cardinality(OpenOf(w)') = Cardinality(OpenOf(w)) + (-1)
      BY <1>7, <3>1, FS_RemoveElement
    <3>3. numOfSession'[w] = Plus(numOfSession[w], -1)
      BY <1>1, <2>2 DEF TypeOK, RegistryTypeOK
    <3>4. QED
      BY <1>7, <2>1, <3>2, <3>3, PlusMod
  <2>3. CASE w # threadId[s]
    <3>1. OpenOf(w)' = OpenOf(w)
      BY <1>1, <1>6, <2>3 DEF OpenOf
    <3>2. numOfSession'[w] = numOfSession[w]
      BY <1>1, <2>3 DEF TypeOK, RegistryTypeOK
    <3>3. QED
      BY <2>1, <3>1, <3>2
  <2>4. QED
    BY <2>2, <2>3
<1>12. QED
  BY <1>10, <1>11 DEF CountersExact

(* Every step keeps the counters exact while no session is closed twice.   *)
LEMMA CountStep ==
  ASSUME TypeOK, TypeOK', Control, Identity, LifeInv, CountInv, [Next]_vars
  PROVE  CountInv'
<1> SUFFICES ASSUME \A s \in Sessions : ClosedOnce(s)' PROVE CountersExact'
  BY DEF CountInv
<1>1. CountersExact
  BY ClosedOnceBefore DEF CountInv
<1>2. CASE KeepsCounters
  <2>1. Open' = Open /\ \A s \in Open : threadId'[s] = threadId[s]
    BY <1>2 DEF KeepsCounters, Open
  <2>2. QED
    BY <1>1, <1>2, <2>1, CountersSame DEF KeepsCounters
<1>3. CASE Publish
  BY <1>1, <1>3, PublishCounts DEF Identity
<1>4. CASE CountSession
  BY <1>1, <1>4, CountSessionCounts
<1>5. ASSUME NEW t \in Threads, CloseSocket(t) PROVE CountersExact'
  <2>1. cur[t] \in Sessions
    BY <1>5, Busy DEF CloseSocket
  <2>2. PICK s \in Sessions : s = cur[t]
    BY <2>1
  <2>3. QED
    BY <1>1, <1>5, <2>2, CloseCounts
<1>6. ASSUME NEW t \in Threads, EraseSession(t) PROVE CountersExact'
  <2>1. /\ UNCHANGED <<sessionCount, numOfSession, threadId, cur>>
        /\ pc[t] = "erase" /\ pc' = [pc EXCEPT ![t] = "free"]
        /\ sessionMap' = sessionMap \ {cur[t]}
    BY <1>6 DEF EraseSession, Goto
  <2>2. Open' = Open
    BY <2>1 DEF Open, TypeOK, ThreadTypeOK
  <2>3. AccepterCounts' <=> AccepterCounts
    BY <2>1 DEF AccepterCounts, TypeOK, ThreadTypeOK
  <2>4. QED
    BY <1>1, <2>1, <2>2, <2>3, CountersSame
<1>7. ASSUME NEW t \in Threads, OnSessionReleased(t) PROVE CountersExact'
  <2>1. /\ UNCHANGED <<sessionCount, numOfSession, threadId, sessionMap>>
        /\ pc[t] = "free" /\ pc' = [pc EXCEPT ![t] = ret[t]]
        /\ \A u \in Threads \ {t} : cur'[u] = cur[u]
    BY <1>7 DEF OnSessionReleased, Return, TypeOK, ThreadTypeOK
  <2>2. pc'[t] # "erase" /\ (t = Accepter => pc'[t] = "enter")
    BY <2>1 DEF TypeOK, ThreadTypeOK, Control, ThreadControl, AccepterControl, WorkerControl,
                AppControl, SendLabels, Releasing, Threads
  <2>3. Open' = Open
    BY <2>1, <2>2 DEF Open, TypeOK, ThreadTypeOK
  <2>4. AccepterCounts' <=> AccepterCounts
    BY <2>1, <2>2 DEF AccepterCounts, TypeOK, ThreadTypeOK
  <2>5. QED
    BY <1>1, <2>1, <2>3, <2>4, CountersSame
<1>8. QED
  BY <1>2, <1>3, <1>4, <1>5, <1>6, <1>7, CountersKept

(* At the start nothing is in the map and nothing counted.                 *)
LEMMA CountInit == Init => LifeInv /\ CountInv
<1> SUFFICES ASSUME Init PROVE LifeInv /\ CountInv
  OBVIOUS
<1>1. LifeInv
  BY DEF Init, LifeInv
<1>2. Open = {} /\ \A w \in Workers : OpenOf(w) = {}
  BY DEF Init, Open, OpenOf
<1>3. Cardinality({}) = 0
  BY FS_EmptySet
<1>4. Bit(~AccepterCounts) = 0
  BY DEF Init, AccepterCounts, Bit, Threads
<1>5. 0 % CountModulus = 0 /\ 0 - 0 = 0
  BY ConstantsAssumption, ModUnique
<1>6. CountersExact
  BY <1>2, <1>3, <1>4, <1>5 DEF Init, CountersExact
<1>7. QED
  BY <1>1, <1>6 DEF CountInv

(* The counters are always exact.                                          *)
LEMMA CountInvariance == Spec => [](LifeInv /\ CountInv)
<1>1. Init => LifeInv /\ CountInv
  BY CountInit
<1>2. ASSUME Inv, Inv', LifeInv /\ CountInv, [Next]_vars PROVE (LifeInv /\ CountInv)'
  BY <1>2, LifeStep, CountStep DEF Inv, Identity
<1>3. QED
  BY <1>1, <1>2, Invariance, PTL DEF Spec

(* When no call is running, sessionCount and the workers' counters are the *)
(* numbers of sessions in the map, unless a session was released twice;    *)
(* only 2^32 sessions at once would make the 32-bit counters come round.   *)
THEOREM CountersCorrect == Spec => [](Cardinality(sessionMap) < CountModulus => CountersAgree)
<1>1. ASSUME Inv, LifeInv /\ CountInv, Cardinality(sessionMap) < CountModulus,
             \A t \in Threads : pc[t] = "idle", \A s \in Sessions : released[s] <= 1
      PROVE  /\ sessionCount = Cardinality(sessionMap)
             /\ \A w \in Workers :
                  numOfSession[w] = Cardinality({s \in sessionMap : threadId[s] = w})
  <2>1. CountersExact
    BY <1>1 DEF CountInv, ClosedOnce, Closed
  <2>2. Open = sessionMap
    BY <1>1 DEF Open
  <2>3. Bit(~AccepterCounts) = 0
    BY <1>1 DEF AccepterCounts, Bit, Threads
  <2>4. IsFiniteSet(sessionMap) /\ Cardinality(sessionMap) \in Nat
    BY <1>1, <2>2, OpenFinite DEF Inv
  <2>5. \A n \in Nat : n < CountModulus => n % CountModulus = n
    BY ConstantsAssumption, ModUnique
  <2>6. sessionCount = Cardinality(sessionMap)
    <3>1. Cardinality(Open) - Bit(~AccepterCounts) = Cardinality(sessionMap)
      BY <2>2, <2>3, <2>4
    <3>2. QED
      BY <1>1, <2>1, <2>4, <2>5, <3>1 DEF CountersExact
  <2>7. ASSUME NEW w \in Workers
        PROVE  numOfSession[w] = Cardinality({s \in sessionMap : threadId[s] = w})
    <3> DEFINE S == {s \in sessionMap : threadId[s] = w}
    <3>1. OpenOf(w) = S
      BY <2>2 DEF OpenOf
    <3>2. Cardinality(S) \in Nat /\ Cardinality(S) <= Cardinality(sessionMap)
      BY <2>4, FS_Subset, FS_CardinalityType
    <3>3. Cardinality(S) < CountModulus
      BY <1>1, <2>4, <3>2, ConstantsAssumption
    <3>4. QED
      BY <2>1, <2>5, <3>1, <3>2, <3>3 DEF CountersExact
  <2>8. QED
    BY <2>6, <2>7
<1>2. Inv /\ (LifeInv /\ CountInv) => (Cardinality(sessionMap) < CountModulus => CountersAgree)
  BY <1>1 DEF CountersAgree
<1>3. QED
  BY <1>2, Invariance, CountInvariance, PTL
=============================================================================
