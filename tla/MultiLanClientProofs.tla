------------------------- MODULE MultiLanClientProofs -------------------------
(***************************************************************************)
(* Proofs of MultiLanClient's safety properties, for every number of       *)
(* workers, of other threads, of channels and of packets.                  *)
(***************************************************************************)
EXTENDS MultiLanClientInvariants, SequenceTheorems, FiniteSetTheorems, TLAPS

(* The frames are abbreviations and always expanded.                       *)
USE DEF threadVars, kernelVars, sendVars, listVars

-----------------------------------------------------------------------------
(* Threads.                                                                *)

(* What a thread returns to depends on its kind.                           *)
LEMMA ReturnByKind ==
  ASSUME NEW t \in Threads, Return(t)
  PROVE  \/ t \in Workers /\ Goto(t, "dec")
         \/ t \in Apps /\ Finish(t)
         \/ t = Reconnecter /\ Goto(t, "pop")
BY ConstantsAssumption DEF Return, Threads

(* A thread gives its reference up and releases the channel, or returns.   *)
LEMMA UndoRecvControl ==
  ASSUME NEW t \in Threads, UndoRecv(t)
  PROVE  pc[t] = "undoRecv" /\ (Goto(t, "release") \/ Return(t))
BY DEF UndoRecv, DecrementAnd

(* UndoSend goes to ReleaseSession or returns.                             *)
LEMMA UndoSendControl ==
  ASSUME NEW t \in Threads, UndoSend(t)
  PROVE  pc[t] = "undoSend" /\ (Goto(t, "release") \/ Return(t))
BY DEF UndoSend, DecrementAnd

(* The decrement of a worker goes to ReleaseSession or ends its work.      *)
LEMMA DecrementControl ==
  ASSUME NEW t \in Threads, IOCountDecrement(t)
  PROVE  pc[t] = "dec" /\ (Goto(t, "release") \/ Finish(t))
BY DEF IOCountDecrement, DecrementAnd

ThreadTypeOK ==
  /\ pc \in [Threads -> Labels]
  /\ cur \in [Threads -> Channels \cup {NoChannel}]
  /\ want \in [Threads -> Nat] /\ got \in [Threads -> Nat]
ThreadOK == ThreadTypeOK /\ Control /\ Loops

(* The labels of each kind of thread.                                      *)
LEMMA ThreadKinds ==
  ASSUME NEW t \in Threads
  PROVE  /\ t \in Apps => LabelsOf(t) = AppLabels /\ t \notin Workers /\ t # Reconnecter
         /\ t \in Workers => LabelsOf(t) = WorkerLabels /\ t \notin Apps /\ t # Reconnecter
         /\ t = Reconnecter => LabelsOf(t) = ReconnecterLabels /\ t \notin Workers \cup Apps
         /\ t \in Apps \cup Workers \cup {Reconnecter}
         /\ LabelsOf(t) \subseteq Labels
BY ConstantsAssumption
   DEF LabelsOf, Threads, AppLabels, WorkerLabels, ReconnecterLabels, Labels, SendLabels,
       ReleaseLabels

(* The ways a step moves a thread.                                         *)
LEMMA MoveGoto ==
  ASSUME ThreadOK, NEW t \in Threads, pc[t] # "idle",
         NEW l \in LabelsOf(t), l \notin {"idle", "dequeue", "drain"}, Goto(t, l)
  PROVE  ThreadOK'
BY ThreadKinds DEF ThreadOK, ThreadTypeOK, Control, Loops, Goto

(* A call of c that begins at l, outside of the loops, keeps ThreadOK.     *)
LEMMA MoveCall ==
  ASSUME ThreadOK, NEW t \in Threads, NEW c \in Channels,
         NEW l \in LabelsOf(t), l \notin {"idle", "dequeue", "drain"}, Call(t, c, l)
  PROVE  ThreadOK'
BY ThreadKinds, ConstantsAssumption
   DEF ThreadOK, ThreadTypeOK, Control, Loops, Call

(* So does the end of a call,                                              *)
LEMMA MoveFinish ==
  ASSUME ThreadOK, NEW t \in Threads, Finish(t)
  PROVE  ThreadOK'
<1>1. "idle" \in LabelsOf(t)
  BY DEF LabelsOf, AppLabels, WorkerLabels, ReconnecterLabels
<1>2. QED
  BY <1>1, ThreadKinds
     DEF ThreadOK, ThreadTypeOK, Control, Loops, Call, Finish

(* the entry of a loop over n packets,                                     *)
LEMMA MoveLoop ==
  ASSUME ThreadOK, NEW t \in Threads, pc[t] # "idle",
         NEW l \in LabelsOf(t) \ {"idle"}, NEW n \in Nat, l = "dequeue" => n \in Slots,
         Loop(t, n, l)
  PROVE  ThreadOK'
BY ThreadKinds DEF ThreadOK, ThreadTypeOK, Control, Loops, Loop

(* the exit from one,                                                      *)
LEMMA MoveEndLoop ==
  ASSUME ThreadOK, NEW t \in Threads, pc[t] # "idle",
         NEW l \in LabelsOf(t), l \notin {"idle", "dequeue", "drain"}, EndLoop(t, l)
  PROVE  ThreadOK'
BY ThreadKinds DEF ThreadOK, ThreadTypeOK, Control, Loops, EndLoop

(* one more packet inside of it,                                           *)
LEMMA MoveCount ==
  ASSUME ThreadOK, NEW t \in Threads, pc[t] \in {"dequeue", "drain"}, got[t] # want[t],
         got' = [got EXCEPT ![t] = @ + 1], UNCHANGED <<pc, cur, want>>
  PROVE  ThreadOK'
<1>1. got[t] \in Nat /\ want[t] \in Nat /\ got[t] <= want[t]
  BY DEF ThreadOK, ThreadTypeOK, Loops
<1>2. got'[t] \in Nat /\ got'[t] <= want[t] /\ \A u \in Threads \ {t} : got'[u] = got[u]
  BY <1>1 DEF ThreadOK, ThreadTypeOK
<1>3. QED
  BY <1>1, <1>2, ThreadKinds DEF ThreadOK, ThreadTypeOK, Control, Loops

(* the return to what a thread of its kind does next,                      *)
LEMMA MoveReturn ==
  ASSUME ThreadOK, NEW t \in Threads, pc[t] # "idle", Return(t)
  PROVE  ThreadOK'
<1>1. "dec" \in WorkerLabels /\ "pop" \in ReconnecterLabels
  BY DEF WorkerLabels, ReconnecterLabels
<1>2. QED
  BY <1>1, ReturnByKind, ThreadKinds, MoveGoto, MoveFinish

(* the next step of ReleaseSession,                                        *)
LEMMA MoveRelease ==
  ASSUME ThreadOK, NEW t \in Threads, pc[t] # "idle",
         NEW l \in ReleaseLabels \ {"drain"}, Goto(t, l)
  PROVE  ThreadOK'
<1>1. l \in LabelsOf(t) /\ l \notin {"idle", "dequeue", "drain"}
  BY DEF LabelsOf, AppLabels, WorkerLabels, ReconnecterLabels, ReleaseLabels
<1>2. QED
  BY <1>1, MoveGoto

(* and a step of nobody.                                                   *)
LEMMA MoveStay == ASSUME ThreadOK, UNCHANGED threadVars PROVE ThreadOK'
BY ThreadKinds DEF ThreadOK, ThreadTypeOK, Control, Loops

(* A thread that sends is a worker or calls SendPacket; one that receives  *)
(* is a worker or the reconnecter.                                         *)
LEMMA SendersAndReceivers ==
  ASSUME Control, NEW t \in Threads
  PROVE  /\ pc[t] \in SendLabels => t \in Apps \cup Workers /\ SendLabels \subseteq LabelsOf(t)
         /\ pc[t] \in {"recvCount", "WSARecv", "undoRecv"} =>
              {"recvCount", "WSARecv", "undoRecv"} \subseteq LabelsOf(t) /\ t \notin Apps
         /\ pc[t] \in {"sent", "resetMode", "dec"} => t \in Workers
         /\ pc[t] \in {"socket", "connect", "bind", "pop", "unlink", "ended"} =>
              t = Reconnecter
BY ThreadKinds
   DEF Control, AppLabels, WorkerLabels, ReconnecterLabels, SendLabels, ReleaseLabels

(* A step keeps the threads' variables in their types and every thread in  *)
(* its control flow.                                                       *)
LEMMA ThreadStep ==
  ASSUME TypeOK, Control, Loops, ListFront, [Next]_vars
  PROVE  ThreadOK'
<1>0. ThreadOK
  BY DEF TypeOK, ThreadTypeOK, ThreadOK
<1>1. NoChannel \notin Channels
  BY ConstantsAssumption
<1> USE <1>0
<1>2. ASSUME NEW t \in Threads, CallStep(t) PROVE ThreadOK'
  <2> USE SendersAndReceivers DEF ThreadOK
  <2>1. CASE ReleaseStore(t)
    <3>1. pc[t] = "release" /\ Loop(t, Len(sendQ[cur[t]]), "drain")
      BY <2>1 DEF ReleaseStore
    <3>2. cur[t] \in Channels
      BY <3>1 DEF Control, ThreadTypeOK
    <3>3. Len(sendQ[cur[t]]) \in Nat
      BY <3>2 DEF TypeOK
    <3>4. "drain" \in LabelsOf(t) \ {"idle"}
      BY DEF LabelsOf, AppLabels, WorkerLabels, ReconnecterLabels, ReleaseLabels
    <3>5. QED
      BY <3>1, <3>3, <3>4, MoveLoop
  <2>2. CASE ReleaseQueue(t)
    <3>1. "close" \in LabelsOf(t)
      BY DEF LabelsOf, AppLabels, WorkerLabels, ReconnecterLabels, ReleaseLabels
    <3>2. pc[t] = "drain"
      BY <2>2 DEF ReleaseQueue
    <3>3. \/ EndLoop(t, "close")
          \/ /\ got[t] # want[t] /\ got' = [got EXCEPT ![t] = @ + 1]
             /\ UNCHANGED <<pc, cur, want>>
      BY <2>2 DEF ReleaseQueue
    <3>4. QED
      BY <3>1, <3>2, <3>3, MoveEndLoop, MoveCount
  <2>3. CASE CloseSocket(t)
    BY <2>3, MoveRelease DEF CloseSocket, ReleaseLabels
  <2>4. CASE PushReconnect(t)
    <3>1. pc[t] = "push" /\ ReturnDeleted(t)
      BY <2>4 DEF PushReconnect
    <3>2. "pop" \in ReconnecterLabels
      BY DEF ReconnecterLabels
    <3>3. QED
      BY <3>1, <3>2, ThreadKinds, MoveGoto, MoveFinish DEF ReturnDeleted
  <2>5. CASE FreeSent(t)
    BY <2>5, ThreadKinds, MoveGoto DEF FreeSent, WorkerLabels
  <2>6. CASE ResetIOMode(t)
    BY <2>6, ThreadKinds, MoveGoto DEF ResetIOMode, WorkerLabels, AppLabels, SendLabels
  <2>7. CASE IOCountDecrement(t)
    BY <2>7, DecrementControl, MoveRelease, MoveFinish DEF ReleaseLabels
  <2>8. CASE CountRecv(t)
    BY <2>8, MoveGoto DEF CountRecv
  <2>9. CASE WSARecv(t)
    <3>1. pc[t] = "WSARecv" /\ (Return(t) \/ Goto(t, "undoRecv"))
      BY <2>9 DEF WSARecv
    <3>2. QED
      BY <3>1, MoveReturn, MoveGoto
  <2>10. CASE UndoRecv(t)
    BY <2>10, UndoRecvControl, MoveRelease, MoveReturn DEF ReleaseLabels
  <2>11. CASE TrySending(t)
    <3>1. pc[t] = "cas" /\ (Return(t) \/ Goto(t, "size"))
      BY <2>11 DEF TrySending
    <3>2. QED
      BY <3>1, MoveReturn, MoveGoto DEF SendLabels
  <2>12. CASE UseSize(t)
    <3> DEFINE n == Len(sendQ[cur[t]])
    <3>1. /\ pc[t] = "size"
          /\ \/ Goto(t, "reset")
             \/ n # 0 /\ Loop(t, IF MaxWsaBuf < n THEN MaxWsaBuf ELSE n, "dequeue")
      BY <2>12 DEF UseSize
    <3>2. cur[t] \in Channels
      BY <3>1 DEF Control, ThreadTypeOK
    <3>3. n \in Nat
      BY <3>2 DEF TypeOK
    <3>4. n # 0 => (IF MaxWsaBuf < n THEN MaxWsaBuf ELSE n) \in Slots \cap Nat
      BY <3>3, ConstantsAssumption DEF Slots
    <3> HIDE DEF n
    <3>5. CASE Goto(t, "reset")
      BY <3>1, <3>5, MoveGoto DEF SendLabels
    <3>6. CASE n # 0 /\ Loop(t, IF MaxWsaBuf < n THEN MaxWsaBuf ELSE n, "dequeue")
      <4>1. "dequeue" \in LabelsOf(t) \ {"idle"}
        BY <3>1 DEF SendLabels
      <4>2. QED
        BY <3>1, <3>4, <3>6, <4>1, MoveLoop
    <3>7. QED
      BY <3>1, <3>5, <3>6
  <2>13. CASE ResetEmpty(t)
    BY <2>13, MoveGoto DEF ResetEmpty, SendLabels
  <2>14. CASE Recheck(t)
    <3>1. pc[t] = "recheck" /\ (Return(t) \/ Goto(t, "cas"))
      BY <2>14 DEF Recheck
    <3>2. QED
      BY <3>1, MoveReturn, MoveGoto DEF SendLabels
  <2>15. CASE Dequeue(t)
    <3>1. pc[t] = "dequeue"
      BY <2>15 DEF Dequeue, DequeueInto
    <3>2. \/ EndLoop(t, "sendCount")
          \/ /\ got[t] # want[t] /\ got' = [got EXCEPT ![t] = @ + 1]
             /\ UNCHANGED <<pc, cur, want>>
      BY <2>15 DEF Dequeue, DequeueInto
    <3>3. QED
      BY <3>1, <3>2, MoveEndLoop, MoveCount DEF SendLabels
  <2>16. CASE CountSend(t)
    BY <2>16, MoveGoto DEF CountSend, SendLabels
  <2>17. CASE WSASend(t)
    <3>1. pc[t] = "WSASend" /\ (Goto(t, "cas") \/ Goto(t, "undoSend"))
      BY <2>17 DEF WSASend
    <3>2. QED
      BY <3>1, MoveGoto DEF SendLabels
  <2>18. CASE UndoSend(t)
    BY <2>18, UndoSendControl, MoveRelease, MoveReturn DEF ReleaseLabels
  <2>19. QED
    BY <1>2, <2>1, <2>2, <2>3, <2>4, <2>5, <2>6, <2>7, <2>8, <2>9, <2>10, <2>11, <2>12,
       <2>13, <2>14, <2>15, <2>16, <2>17, <2>18 DEF CallStep
<1>3. CASE ReconnecterStep
  <2>0. Reconnecter \in Threads /\ LabelsOf(Reconnecter) = ReconnecterLabels
    BY ThreadKinds DEF Threads
  <2>1. CASE TakeReleased
    <3>1. Head(reconnectList) \in Channels
      BY <2>1 DEF TypeOK, TakeReleased
    <3>2. Call(Reconnecter, Head(reconnectList), "socket")
      BY <2>1 DEF TakeReleased
    <3>3. QED
      BY <2>0, <3>1, <3>2, MoveCall DEF ReconnecterLabels
  <2>2. CASE NewSocket
    BY <2>0, <2>2, MoveGoto DEF NewSocket, SetConn, ReconnecterLabels
  <2>3. CASE Connect
    BY <2>0, <2>3, MoveGoto DEF Connect, SetConn, ReconnecterLabels
  <2>4. CASE Bind
    BY <2>0, <2>4, MoveGoto DEF Bind, ReconnecterLabels
  <2>5. CASE PopFront
    BY <2>0, <2>5, MoveGoto DEF PopFront, ReconnecterLabels
  <2>6. CASE Unlink
    BY <2>0, <2>6, MoveFinish DEF Unlink
  <2>7. QED
    BY <1>3, <2>1, <2>2, <2>3, <2>4, <2>5, <2>6 DEF ReconnecterStep
<1>4. ASSUME NEW w \in Workers, NEW c \in Channels, DequeueCompletion(w, c)
      PROVE  ThreadOK'
  <2>1. w \in Threads /\ {"recvCount", "dec", "sent"} \subseteq LabelsOf(w)
    BY ThreadKinds DEF Threads, WorkerLabels
  <2>2. Call(w, c, "recvCount") \/ Call(w, c, "dec") \/ Call(w, c, "sent")
    BY <1>4 DEF DequeueCompletion, DequeueRecv, DequeueSend
  <2>3. QED
    BY <2>1, <2>2, MoveCall
<1>5. ASSUME NEW a \in Apps, NEW c \in Channels, Enqueue(a, c) PROVE ThreadOK'
  <2>1. a \in Threads /\ "cas" \in LabelsOf(a)
    BY ThreadKinds DEF Threads, AppLabels, SendLabels
  <2>2. QED
    BY <1>5, <2>1, MoveCall DEF Enqueue
<1>6. ASSUME NEW c \in Channels, ConnectionLost(c) PROVE ThreadOK'
  BY <1>6, MoveStay DEF ConnectionLost
<1>7. CASE UNCHANGED vars
  BY <1>7, MoveStay DEF vars
<1>8. QED
  BY <1>2, <1>3, <1>4, <1>5, <1>6, <1>7 DEF Next
-----------------------------------------------------------------------------
(* Which steps change what.                                                *)

(* The steps, one by one.                                                  *)
LEMMA ListChange ==
  ASSUME [Next]_vars
  PROVE  \/ \E t \in Threads : PushReconnect(t)
         \/ PopFront
         \/ Unlink
         \/ UNCHANGED listVars
<1>1. ASSUME NEW t \in Threads, CallStep(t) PROVE PushReconnect(t) \/ UNCHANGED listVars
  BY <1>1 DEF CallStep, ReleaseStore, ReleaseQueue, CloseSocket, FreeSent, ResetIOMode,
       IOCountDecrement, CountRecv, WSARecv, UndoRecv, TrySending, UseSize, ResetEmpty, Recheck,
       Dequeue, DequeueInto, CountSend, WSASend, UndoSend, DecrementAnd
<1>2. ASSUME ReconnecterStep PROVE PopFront \/ Unlink \/ UNCHANGED listVars
  BY <1>2 DEF ReconnecterStep, TakeReleased, NewSocket, Connect, Bind
<1>3. QED
  BY <1>1, <1>2
     DEF Next, vars, DequeueCompletion, DequeueRecv, DequeueSend, Enqueue, ConnectionLost

(* What is queued, prepared, sent and freed.                               *)
LEMMA SendChange ==
  ASSUME [Next]_vars
  PROVE  \/ \E t \in Threads : \/ ReleaseStore(t) \/ ReleaseQueue(t) \/ FreeSent(t)
                               \/ Dequeue(t) \/ WSASend(t)
         \/ \E a \in Apps, c \in Channels : Enqueue(a, c)
         \/ UNCHANGED sendVars
<1>1. ASSUME NEW t \in Threads, CallStep(t)
      PROVE  \/ ReleaseStore(t) \/ ReleaseQueue(t) \/ FreeSent(t)
             \/ Dequeue(t) \/ WSASend(t) \/ UNCHANGED sendVars
  BY <1>1 DEF CallStep, CloseSocket, PushReconnect, ResetIOMode, IOCountDecrement,
       CountRecv, WSARecv, UndoRecv, TrySending, UseSize, ResetEmpty, Recheck,
       CountSend, UndoSend, DecrementAnd
<1>2. ASSUME ReconnecterStep PROVE UNCHANGED sendVars
  BY <1>2 DEF ReconnecterStep, TakeReleased, NewSocket, Connect, Bind, PopFront, Unlink
<1>3. QED
  BY <1>1, <1>2 DEF Next, vars, DequeueCompletion, DequeueRecv, DequeueSend,
     ConnectionLost

(* Connections and operations.                                             *)
LEMMA KernelChange ==
  ASSUME [Next]_vars
  PROVE  \/ \E t \in Threads : CloseSocket(t) \/ WSARecv(t) \/ WSASend(t)
         \/ NewSocket
         \/ Connect
         \/ \E w \in Workers, c \in Channels : DequeueRecv(w, c) \/ DequeueSend(w, c)
         \/ \E c \in Channels : ConnectionLost(c)
         \/ UNCHANGED kernelVars
<1>1. ASSUME NEW t \in Threads, CallStep(t)
      PROVE  CloseSocket(t) \/ WSARecv(t) \/ WSASend(t) \/ UNCHANGED kernelVars
  BY <1>1 DEF CallStep, ReleaseStore, ReleaseQueue, PushReconnect, FreeSent,
       ResetIOMode, IOCountDecrement, CountRecv, UndoRecv, TrySending, UseSize,
       ResetEmpty, Recheck, Dequeue, CountSend, UndoSend, DequeueInto, DecrementAnd
<1>2. ASSUME ReconnecterStep PROVE NewSocket \/ Connect \/ UNCHANGED kernelVars
  BY <1>2 DEF ReconnecterStep, TakeReleased, Bind, PopFront, Unlink
<1>3. QED
  BY <1>1, <1>2 DEF Next, vars, DequeueCompletion, Enqueue

(* Reference counts, ioMode, and which channels are unguarded.             *)
LEMMA CountChange ==
  ASSUME [Next]_vars
  PROVE  \/ \E t \in Threads : \/ IOCountDecrement(t) \/ UndoRecv(t) \/ UndoSend(t)
                               \/ CountRecv(t) \/ CountSend(t)
         \/ UNCHANGED ioCount
<1>1. ASSUME NEW t \in Threads, CallStep(t)
      PROVE  \/ IOCountDecrement(t) \/ UndoRecv(t) \/ UndoSend(t)
             \/ CountRecv(t) \/ CountSend(t) \/ UNCHANGED ioCount
  BY <1>1 DEF CallStep, ReleaseStore, ReleaseQueue, CloseSocket, PushReconnect,
       FreeSent, ResetIOMode, WSARecv, TrySending, UseSize, ResetEmpty, Recheck,
       Dequeue, WSASend, DequeueInto
<1>2. ASSUME ReconnecterStep PROVE UNCHANGED ioCount
  BY <1>2 DEF ReconnecterStep, TakeReleased, NewSocket, Connect, Bind, PopFront, Unlink
<1>3. QED
  BY <1>1, <1>2 DEF Next, vars, DequeueCompletion, DequeueRecv, DequeueSend, Enqueue,
     ConnectionLost

(* The steps that change ioMode.                                           *)
LEMMA ModeChange ==
  ASSUME [Next]_vars
  PROVE  \/ \E t \in Threads : ResetIOMode(t) \/ TrySending(t) \/ ResetEmpty(t)
         \/ UNCHANGED ioMode
<1>1. ASSUME NEW t \in Threads, CallStep(t)
      PROVE  ResetIOMode(t) \/ TrySending(t) \/ ResetEmpty(t) \/ UNCHANGED ioMode
  BY <1>1 DEF CallStep, ReleaseStore, ReleaseQueue, CloseSocket, PushReconnect,
       FreeSent, IOCountDecrement, CountRecv, WSARecv, UndoRecv, UseSize, Recheck,
       Dequeue, CountSend, WSASend, UndoSend, DequeueInto, DecrementAnd
<1>2. ASSUME ReconnecterStep PROVE UNCHANGED ioMode
  BY <1>2 DEF ReconnecterStep, TakeReleased, NewSocket, Connect, Bind, PopFront, Unlink
<1>3. QED
  BY <1>1, <1>2 DEF Next, vars, DequeueCompletion, DequeueRecv, DequeueSend, Enqueue,
     ConnectionLost

(* The steps that make a channel unguarded.                                *)
LEMMA UnguardedChange ==
  ASSUME [Next]_vars
  PROVE  \/ \E t \in Threads : \/ TrySending(t) \/ IOCountDecrement(t) \/ UndoRecv(t)
                               \/ UndoSend(t)
         \/ UNCHANGED unguarded
<1>1. ASSUME NEW t \in Threads, CallStep(t)
      PROVE  \/ TrySending(t) \/ IOCountDecrement(t) \/ UndoRecv(t)
             \/ UndoSend(t) \/ UNCHANGED unguarded
  BY <1>1 DEF CallStep, ReleaseStore, ReleaseQueue, CloseSocket, PushReconnect,
       FreeSent, ResetIOMode, CountRecv, WSARecv, UseSize, ResetEmpty, Recheck, Dequeue,
       CountSend, WSASend, DequeueInto
<1>2. ASSUME ReconnecterStep PROVE UNCHANGED unguarded
  BY <1>2 DEF ReconnecterStep, TakeReleased, NewSocket, Connect, Bind, PopFront, Unlink
<1>3. QED
  BY <1>1, <1>2 DEF Next, vars, DequeueCompletion, DequeueRecv, DequeueSend, Enqueue,
     ConnectionLost

(* A channel that is unguarded stays so, and only becomes so if it has no  *)
(* references.                                                             *)
LEMMA UnguardedGrows ==
  ASSUME TypeOK, Control, [Next]_vars
  PROVE  unguarded \subseteq unguarded' /\ unguarded' \subseteq Channels
<1>1. unguarded \subseteq Channels
  BY DEF TypeOK
<1>2. ASSUME NEW t \in Threads, pc[t] # "idle" PROVE cur[t] \in Channels
  BY <1>2 DEF TypeOK, Control
<1>3. CASE UNCHANGED unguarded
  BY <1>1, <1>3
<1>4. ASSUME NEW t \in Threads, TrySending(t)
      PROVE  unguarded \subseteq unguarded' /\ unguarded' \subseteq Channels
  BY <1>1, <1>2, <1>4 DEF TrySending
<1>5. ASSUME NEW t \in Threads, IOCountDecrement(t) \/ UndoRecv(t) \/ UndoSend(t)
      PROVE  unguarded \subseteq unguarded' /\ unguarded' \subseteq Channels
  BY <1>1, <1>2, <1>5 DEF IOCountDecrement, UndoRecv, UndoSend, DecrementAnd
<1>6. QED
  BY <1>3, <1>4, <1>5, UnguardedChange

(* A step inside a call moves its thread only; the thread stays at its     *)
(* channel until it is idle.                                               *)
Moved(t, l) ==
  /\ pc' = [pc EXCEPT ![t] = l]
  /\ cur' = IF l = "idle" THEN [cur EXCEPT ![t] = NoChannel] ELSE cur

(* Where a return goes, for each kind of thread.                           *)
LEMMA ReturnMoves ==
  ASSUME ThreadOK, NEW t \in Threads, Return(t)
  PROVE  \E l \in {"dec", "idle", "pop"} :
           Moved(t, l) /\ (t \in Workers <=> l = "dec") /\ (t = Reconnecter <=> l = "pop")
BY ReturnByKind, ThreadKinds DEF Moved, Goto, Finish, Call

(* A step of a call moves its thread on the same channel, or ends the call.*)
LEMMA CallMoves ==
  ASSUME ThreadOK, NEW t \in Threads, CallStep(t)
  PROVE  \E l \in Labels : Moved(t, l)
<1>0. /\ pc \in [Threads -> Labels]
      /\ \A l : Goto(t, l) \/ EndLoop(t, l) => pc' = [pc EXCEPT ![t] = l] /\ cur' = cur
      /\ \A l, n : Loop(t, n, l) => pc' = [pc EXCEPT ![t] = l] /\ cur' = cur
      /\ Finish(t) => Moved(t, "idle")
      /\ UNCHANGED <<pc, cur>> => pc' = [pc EXCEPT ![t] = pc[t]] /\ cur' = cur
  BY DEF ThreadOK, ThreadTypeOK, Goto, EndLoop, Loop, Finish, Call, Moved
<1>1. ASSUME NEW l \in Labels, Goto(t, l) \/ EndLoop(t, l) \/ (\E n : Loop(t, n, l)), l # "idle"
      PROVE  \E k \in Labels : Moved(t, k)
  BY <1>0, <1>1 DEF Moved
<1>2. ASSUME Finish(t) PROVE \E k \in Labels : Moved(t, k)
  BY <1>0, <1>2 DEF Labels
<1>3. ASSUME Return(t) PROVE \E k \in Labels : Moved(t, k)
  BY <1>3, ReturnMoves DEF Labels
<1>4. ASSUME UNCHANGED <<pc, cur>>, pc[t] # "idle" PROVE \E k \in Labels : Moved(t, k)
  BY <1>0, <1>4 DEF Moved
<1>5. CASE ReleaseStore(t) \/ ReleaseQueue(t) \/ UseSize(t) \/ Dequeue(t)
  <2>1. \/ \E l \in Labels \ {"idle"} : Goto(t, l) \/ EndLoop(t, l) \/ (\E n : Loop(t, n, l))
        \/ UNCHANGED <<pc, cur>> /\ pc[t] # "idle"
    BY <1>5 DEF ReleaseStore, ReleaseQueue, UseSize, Dequeue, DequeueInto, Labels
  <2>2. QED
    BY <1>1, <1>4, <2>1
<1>6. CASE \/ CloseSocket(t) \/ FreeSent(t) \/ ResetIOMode(t) \/ CountRecv(t) \/ ResetEmpty(t)
           \/ CountSend(t) \/ WSASend(t)
  <2>1. \E l \in Labels \ {"idle"} : Goto(t, l)
    BY <1>6 DEF CloseSocket, FreeSent, ResetIOMode, CountRecv, ResetEmpty, CountSend, WSASend,
                Labels
  <2>2. QED
    BY <1>1, <2>1
<1>7. CASE \/ PushReconnect(t) \/ IOCountDecrement(t) \/ WSARecv(t) \/ UndoRecv(t)
           \/ TrySending(t) \/ Recheck(t) \/ UndoSend(t)
  <2>1. (\E l \in Labels \ {"idle"} : Goto(t, l)) \/ Finish(t) \/ Return(t)
    BY <1>7, UndoRecvControl, UndoSendControl, DecrementControl
       DEF PushReconnect, ReturnDeleted, WSARecv, TrySending, Recheck, Labels
  <2>2. QED
    BY <1>1, <1>2, <1>3, <2>1
<1>8. QED
  BY <1>5, <1>6, <1>7 DEF CallStep

(* Every step moves one thread at most.                                    *)
OnlyMoves(t) == \A u \in Threads \ {t} : pc'[u] = pc[u] /\ cur'[u] = cur[u]

(* A step moves one thread at most.                                        *)
LEMMA OneThread ==
  ASSUME ThreadOK, [Next]_vars PROVE \E t \in Threads : OnlyMoves(t)
<1>0. /\ pc \in [Threads -> Labels]
      /\ cur \in [Threads -> Channels \cup {NoChannel}]
      /\ Reconnecter \in Threads /\ Workers \subseteq Threads /\ Apps \subseteq Threads
  BY DEF ThreadOK, ThreadTypeOK, Threads
<1>1. ASSUME NEW t \in Threads, NEW l, Moved(t, l) PROVE OnlyMoves(t)
  BY <1>0, <1>1 DEF Moved, OnlyMoves
<1>2. ASSUME NEW t \in Threads, NEW c, NEW l, Call(t, c, l) \/ Goto(t, l) PROVE OnlyMoves(t)
  BY <1>0, <1>2 DEF Call, Goto, OnlyMoves
<1>3. ASSUME NEW t \in Threads, CallStep(t) PROVE OnlyMoves(t)
  BY <1>1, <1>3, CallMoves
<1>4. ASSUME ReconnecterStep PROVE OnlyMoves(Reconnecter)
  BY <1>0, <1>2, <1>4 DEF ReconnecterStep, TakeReleased, NewSocket, Connect, SetConn, Bind,
                          PopFront, Unlink, Finish
<1>5. ASSUME NEW w \in Workers, NEW c \in Channels, DequeueCompletion(w, c) PROVE OnlyMoves(w)
  BY <1>0, <1>2, <1>5 DEF DequeueCompletion, DequeueRecv, DequeueSend
<1>6. ASSUME NEW a \in Apps, NEW c \in Channels, Enqueue(a, c) PROVE OnlyMoves(a)
  BY <1>0, <1>2, <1>6 DEF Enqueue
<1>7. ASSUME UNCHANGED <<pc, cur>> PROVE OnlyMoves(Reconnecter)
  BY <1>7 DEF OnlyMoves
<1>8. (\E c \in Channels : ConnectionLost(c)) \/ UNCHANGED vars => UNCHANGED <<pc, cur>>
  BY DEF ConnectionLost, vars
<1>9. QED
  BY <1>0, <1>3, <1>4, <1>5, <1>6, <1>7, <1>8 DEF Next

(* What the reconnecter does inside RecvPost and ReleaseSession.           *)
InReconnectedCall == {"WSARecv", "undoRecv"} \cup ReleaseLabels

(* Calls of the reconnecter stay between its first receive and unlink.     *)
LEMMA ReconnecterCalls ==
  ASSUME ThreadOK, CallStep(Reconnecter)
  PROVE  /\ \/ CountRecv(Reconnecter) /\ pc[Reconnecter] = "recvCount"
            \/ pc[Reconnecter] \in InReconnectedCall
         /\ pc'[Reconnecter] \in Reconnected \ {"unlink"}
         /\ cur'[Reconnecter] = cur[Reconnecter]
<1> DEFINE r == Reconnecter
<1>0. /\ r \in Threads /\ LabelsOf(r) = ReconnecterLabels /\ r \notin Workers /\ r \notin Apps
      /\ pc \in [Threads -> Labels] /\ pc[r] \in ReconnecterLabels
  BY ThreadKinds DEF ThreadOK, ThreadTypeOK, Threads, Control
<1>1. PICK l \in Labels : Moved(r, l)
  BY <1>0, CallMoves
<1>2. pc'[r] = l /\ (l # "idle" => cur'[r] = cur[r])
  BY <1>0, <1>1 DEF Moved
<1>3. ASSUME NEW k, Goto(r, k) \/ EndLoop(r, k) \/ (\E n : Loop(r, n, k)) PROVE l = k
  BY <1>0, <1>1, <1>3 DEF Moved, Goto, EndLoop, Loop
<1>4. Return(r) => l = "pop"
  BY <1>0, <1>3, ReturnByKind
<1> USE DEF InReconnectedCall, Reconnected, ReleaseLabels
<1>5. CASE ReleaseStore(r)
  BY <1>2, <1>3, <1>5 DEF ReleaseStore
<1>6. CASE ReleaseQueue(r)
  <2>1. pc[r] = "drain" /\ (EndLoop(r, "close") \/ UNCHANGED <<pc, cur>>)
    BY <1>6 DEF ReleaseQueue
  <2>2. QED
    BY <1>2, <1>3, <2>1
<1>7. CASE CloseSocket(r)
  BY <1>2, <1>3, <1>7 DEF CloseSocket
<1>8. CASE PushReconnect(r)
  BY <1>2, <1>3, <1>8 DEF PushReconnect, ReturnDeleted
<1>9. CASE CountRecv(r)
  BY <1>2, <1>3, <1>9 DEF CountRecv
<1>10. CASE WSARecv(r)
  <2>1. pc[r] = "WSARecv" /\ (Return(r) \/ Goto(r, "undoRecv"))
    BY <1>10 DEF WSARecv
  <2>2. QED
    BY <1>2, <1>3, <1>4, <2>1
<1>11. CASE UndoRecv(r)
  BY <1>0, <1>2, <1>3, <1>4, <1>11, UndoRecvControl
<1>12. pc[r] \in {"sent", "resetMode", "dec"} \cup SendLabels => FALSE
  BY <1>0 DEF ReconnecterLabels, SendLabels
<1>13. QED
  BY <1>0, <1>5, <1>6, <1>7, <1>8, <1>9, <1>10, <1>11, <1>12, DecrementControl,
     UndoSendControl
     DEF CallStep, FreeSent, ResetIOMode, TrySending, UseSize, ResetEmpty, Recheck, Dequeue,
         DequeueInto, CountSend, WSASend, SendLabels

(* What moves the reconnecter.                                             *)
LEMMA ReconnecterMoves ==
  ASSUME ThreadOK, [Next]_vars
  PROVE  \/ pc'[Reconnecter] = pc[Reconnecter] /\ cur'[Reconnecter] = cur[Reconnecter]
         \/ CallStep(Reconnecter)
         \/ ReconnecterStep
<1>0. /\ pc \in [Threads -> Labels]
      /\ cur \in [Threads -> Channels \cup {NoChannel}]
      /\ Reconnecter \in Threads /\ Workers \subseteq Threads /\ Apps \subseteq Threads
      /\ Reconnecter \notin Workers \cup Apps
  BY ConstantsAssumption DEF ThreadOK, ThreadTypeOK, Threads
<1>1. ASSUME NEW t \in Threads \ {Reconnecter}, NEW l, Moved(t, l)
      PROVE  pc'[Reconnecter] = pc[Reconnecter] /\ cur'[Reconnecter] = cur[Reconnecter]
  BY <1>0, <1>1 DEF Moved
<1>2. ASSUME NEW t \in Threads \ {Reconnecter}, NEW c, NEW l, Call(t, c, l)
      PROVE  pc'[Reconnecter] = pc[Reconnecter] /\ cur'[Reconnecter] = cur[Reconnecter]
  BY <1>0, <1>2 DEF Call
<1>3. ASSUME NEW t \in Threads, CallStep(t), t # Reconnecter
      PROVE  pc'[Reconnecter] = pc[Reconnecter] /\ cur'[Reconnecter] = cur[Reconnecter]
  BY <1>1, <1>3, CallMoves
<1>4. ASSUME NEW w \in Workers, NEW c \in Channels, DequeueCompletion(w, c)
      PROVE  pc'[Reconnecter] = pc[Reconnecter] /\ cur'[Reconnecter] = cur[Reconnecter]
  BY <1>0, <1>2, <1>4 DEF DequeueCompletion, DequeueRecv, DequeueSend
<1>5. ASSUME NEW a \in Apps, NEW c \in Channels, Enqueue(a, c)
      PROVE  pc'[Reconnecter] = pc[Reconnecter] /\ cur'[Reconnecter] = cur[Reconnecter]
  BY <1>0, <1>2, <1>5 DEF Enqueue
<1>6. (\E c \in Channels : ConnectionLost(c)) \/ UNCHANGED vars => UNCHANGED <<pc, cur>>
  BY DEF ConnectionLost, vars
<1>7. QED
  BY <1>3, <1>4, <1>5, <1>6 DEF Next

-----------------------------------------------------------------------------
(* Types.                                                                  *)

(* Freeing buffers counts.                                                 *)
LEMMA FreesType ==
  ASSUME NEW c \in Channels, NEW s \in Seq(Packets \cup {NoPacket}),
         freed \in [Channels -> [Packets -> Nat]]
  PROVE  Frees(c, s) \in [Channels -> [Packets -> Nat]]
<1>1. ASSUME NEW p \in Packets PROVE Cardinality({i \in DOMAIN s : s[i] = p}) \in Nat
  <2>1. DOMAIN s = 1..Len(s) /\ Len(s) \in Nat
    BY LenProperties
  <2>2. IsFiniteSet(DOMAIN s)
    BY <2>1, FS_Interval
  <2>3. QED
    BY <2>2, FS_Subset, FS_CardinalityType
<1> DEFINE f == [p \in Packets |-> freed[c][p] + Cardinality({i \in DOMAIN s : s[i] = p})]
<1>2. f \in [Packets -> Nat]
  BY <1>1
<1>3. Frees(c, s) = [freed EXCEPT ![c] = f]
  BY DEF Frees
<1> HIDE DEF f
<1>4. QED
  BY <1>2, <1>3

(* What is in a channel's store, as the sequence that is sent or freed.    *)
Stored(c) == SubSeq(bufStore[c], 1, bufferCount[c])

(* The part of bufStore that the next WSASend gets.                        *)
LEMMA StoredType ==
  ASSUME TypeOK, NEW c \in Channels
  PROVE  /\ Stored(c) \in Seq(Packets \cup {NoPacket})
         /\ Len(Stored(c)) = bufferCount[c]
         /\ \A i \in 1..bufferCount[c] : Stored(c)[i] = bufStore[c][i]
         /\ bufferCount[c] \in Nat /\ 1..bufferCount[c] \subseteq Slots
<1>1. bufferCount[c] \in 0..MaxWsaBuf /\ bufStore[c] \in [Slots -> Packets \cup {NoPacket}]
  BY DEF TypeOK
<1>2. bufferCount[c] \in Nat /\ 1..bufferCount[c] \subseteq Slots
  BY <1>1, ConstantsAssumption DEF Slots
<1>3. \A i \in 1..bufferCount[c] : bufStore[c][i] \in Packets \cup {NoPacket}
  BY <1>1, <1>2
<1> DEFINE st == bufStore[c]
           n == bufferCount[c]
<1>4. /\ SubSeq(st, 1, n) \in Seq(Packets \cup {NoPacket})
      /\ Len(SubSeq(st, 1, n)) = IF 1 <= n THEN n-1+1 ELSE 0
      /\ \A i \in 1..n-1+1 : SubSeq(st, 1, n)[i] = st[1+i-1]
  <2> HIDE DEF st, n
  <2>1. n \in Nat /\ \A i \in 1..n : st[i] \in Packets \cup {NoPacket}
    BY <1>2, <1>3 DEF st, n
  <2>2. QED
    BY <2>1, SubSeqProperties
<1>5. QED
  BY <1>2, <1>4 DEF Stored

(* What is queued, stored, sent and freed keeps its type.                  *)
SendTypeOK ==
  /\ sendQ \in [Channels -> Seq(Packets)]
  /\ bufStore \in [Channels -> [Slots -> Packets \cup {NoPacket}]]
  /\ bufferCount \in [Channels -> 0..MaxWsaBuf]
  /\ handed \in [Channels -> 0..MaxPackets]
  /\ wire \in [Channels -> Seq(Packets \cup {NoPacket})]
  /\ freed \in [Channels -> [Packets -> Nat]]

(* Every step keeps the types of the send side,                            *)
LEMMA SendTypeStep ==
  ASSUME TypeOK, Control, Loops, [Next]_vars PROVE SendTypeOK'
<1>0. /\ SendTypeOK
      /\ MaxWsaBuf \in Nat \ {0} /\ MaxPackets \in Nat
  BY ConstantsAssumption DEF TypeOK, SendTypeOK
<1>1. \A t \in Threads : pc[t] # "idle" => cur[t] \in Channels
  BY DEF TypeOK, Control
<1>2. ASSUME NEW t \in Threads, ReleaseStore(t) PROVE SendTypeOK'
  <2>1. cur[t] \in Channels /\ freed' = Frees(cur[t], Stored(cur[t]))
    BY <1>1, <1>2 DEF ReleaseStore, Stored
  <2>2. freed' \in [Channels -> [Packets -> Nat]]
    BY <1>0, <2>1, FreesType, StoredType DEF SendTypeOK
  <2>3. QED
    BY <1>0, <1>2, <2>2 DEF SendTypeOK, ReleaseStore
<1>3. ASSUME NEW t \in Threads, ReleaseQueue(t) PROVE SendTypeOK'
  <2> DEFINE c == cur[t]
  <2>1. c \in Channels
    BY <1>1, <1>3 DEF ReleaseQueue
  <2>2. sendQ[c] \in Seq(Packets)
    BY <2>1 DEF TypeOK
  <2>3. ASSUME NEW p \in Packets PROVE Frees(c, <<p>>) \in [Channels -> [Packets -> Nat]]
    <3>1. <<p>> \in Seq(Packets \cup {NoPacket})
      OBVIOUS
    <3>2. QED
      BY <1>0, <2>1, <3>1, FreesType DEF SendTypeOK
  <2>4. sendQ[c] # <<>> => Head(sendQ[c]) \in Packets /\ Tail(sendQ[c]) \in Seq(Packets)
    BY <2>2
  <2>5. \/ UNCHANGED <<sendQ, freed>>
        \/ \E p \in Packets : freed' = Frees(c, <<p>>) /\ UNCHANGED sendQ
        \/ /\ sendQ[c] # <<>>
           /\ freed' = Frees(c, <<Head(sendQ[c])>>)
           /\ sendQ' = [sendQ EXCEPT ![c] = Tail(@)]
    BY <1>3 DEF ReleaseQueue
  <2>6. UNCHANGED <<bufStore, bufferCount, handed, wire>>
    BY <1>3 DEF ReleaseQueue
  <2> HIDE DEF c
  <2>7. freed' \in [Channels -> [Packets -> Nat]]
    BY <1>0, <2>3, <2>4, <2>5 DEF SendTypeOK
  <2>8. sendQ' \in [Channels -> Seq(Packets)]
    BY <1>0, <2>1, <2>4, <2>5 DEF SendTypeOK
  <2>9. QED
    BY <1>0, <2>6, <2>7, <2>8 DEF SendTypeOK
<1>4. ASSUME NEW t \in Threads, FreeSent(t) PROVE SendTypeOK'
  <2>1. cur[t] \in Channels /\ freed' = Frees(cur[t], Stored(cur[t]))
    BY <1>1, <1>4 DEF FreeSent, Stored
  <2>2. freed' \in [Channels -> [Packets -> Nat]]
    BY <1>0, <2>1, FreesType, StoredType DEF SendTypeOK
  <2>3. QED
    BY <1>0, <1>4, <2>1, <2>2 DEF SendTypeOK, FreeSent
<1>5. ASSUME NEW t \in Threads, Dequeue(t) PROVE SendTypeOK'
  <2> DEFINE c == cur[t]
  <2>1. pc[t] = "dequeue" /\ c \in Channels
    BY <1>1, <1>5 DEF Dequeue, DequeueInto
  <2>2. want[t] \in 1..MaxWsaBuf /\ got[t] \in Nat /\ got[t] <= want[t]
    BY <2>1 DEF Loops, Slots, TypeOK
  <2>3. got[t] # want[t] => got[t] + 1 \in Slots
    BY <1>0, <2>2 DEF Slots
  <2>4. sendQ[c] # <<>> => Head(sendQ[c]) \in Packets /\ Tail(sendQ[c]) \in Seq(Packets)
    BY <2>1 DEF TypeOK
  <2>5. \/ bufferCount' = [bufferCount EXCEPT ![c] = want[t]] /\ UNCHANGED <<sendQ, bufStore>>
        \/ UNCHANGED <<sendQ, bufStore, bufferCount>>
        \/ /\ got[t] # want[t] /\ sendQ[c] # <<>>
           /\ bufStore' = [bufStore EXCEPT ![c][got[t] + 1] = Head(sendQ[c])]
           /\ sendQ' = [sendQ EXCEPT ![c] = Tail(@)]
           /\ UNCHANGED bufferCount
    BY <1>5 DEF Dequeue, DequeueInto
  <2>6. UNCHANGED <<handed, wire, freed>>
    BY <1>5 DEF Dequeue, DequeueInto
  <2> HIDE DEF c
  <2>7. want[t] \in 0..MaxWsaBuf
    BY <1>0, <2>2
  <2>8. bufferCount' \in [Channels -> 0..MaxWsaBuf]
    BY <1>0, <2>1, <2>5, <2>7 DEF SendTypeOK
  <2>9. sendQ' \in [Channels -> Seq(Packets)]
    BY <1>0, <2>1, <2>4, <2>5 DEF SendTypeOK
  <2>10. bufStore' \in [Channels -> [Slots -> Packets \cup {NoPacket}]]
    <3> DEFINE B == Packets \cup {NoPacket}
    <3>1. CASE UNCHANGED bufStore
      BY <1>0, <3>1 DEF SendTypeOK
    <3>2. CASE /\ got[t] # want[t] /\ sendQ[c] # <<>>
               /\ bufStore' = [bufStore EXCEPT ![c][got[t] + 1] = Head(sendQ[c])]
      <4>1. PICK i \in Slots, h \in B : bufStore' = [bufStore EXCEPT ![c][i] = h]
        BY <2>3, <2>4, <3>2
      <4> HIDE DEF B
      <4>2. bufStore \in [Channels -> [Slots -> B]]
        BY <1>0 DEF SendTypeOK, B
      <4>3. bufStore[c] \in [Slots -> B]
        BY <2>1, <4>2
      <4>4. [bufStore[c] EXCEPT ![i] = h] \in [Slots -> B]
        BY <4>3
      <4>5. bufStore' = [bufStore EXCEPT ![c] = [bufStore[c] EXCEPT ![i] = h]]
        BY <4>1
      <4>6. bufStore' \in [Channels -> [Slots -> B]]
        BY <4>2, <4>4, <4>5
      <4>7. QED
        BY <4>6 DEF B
    <3>3. QED
      BY <2>5, <3>1, <3>2
  <2>11. QED
    BY <1>0, <2>6, <2>8, <2>9, <2>10 DEF SendTypeOK
<1>6. ASSUME NEW t \in Threads, WSASend(t) PROVE SendTypeOK'
  <2> DEFINE c == cur[t]
  <2>1. c \in Channels
    BY <1>1, <1>6 DEF WSASend
  <2>2. wire' = wire \/ wire' = [wire EXCEPT ![c] = @ \o Stored(c)]
    BY <1>6 DEF WSASend, Stored
  <2>3. Stored(c) \in Seq(Packets \cup {NoPacket}) /\ wire[c] \in Seq(Packets \cup {NoPacket})
    BY <2>1, StoredType DEF TypeOK
  <2>4. wire[c] \o Stored(c) \in Seq(Packets \cup {NoPacket})
    BY <2>3, ConcatProperties
  <2>5. UNCHANGED <<sendQ, bufStore, bufferCount, handed, freed>>
    BY <1>6 DEF WSASend
  <2> HIDE DEF c
  <2>6. QED
    BY <1>0, <2>1, <2>2, <2>4, <2>5 DEF SendTypeOK
<1>7. ASSUME NEW a \in Apps, NEW c \in Channels, Enqueue(a, c) PROVE SendTypeOK'
  <2>1. handed[c] \in 0..MaxPackets /\ handed[c] < MaxPackets /\ sendQ[c] \in Seq(Packets)
    BY <1>7 DEF Enqueue, TypeOK
  <2>2. handed[c] + 1 \in Packets /\ handed[c] + 1 \in 0..MaxPackets
    BY <1>0, <2>1 DEF Packets
  <2>3. Append(sendQ[c], handed[c] + 1) \in Seq(Packets)
    BY <2>1, <2>2
  <2>4. /\ handed' = [handed EXCEPT ![c] = handed[c] + 1]
        /\ sendQ' = [sendQ EXCEPT ![c] = Append(sendQ[c], handed[c] + 1)]
        /\ UNCHANGED <<bufStore, bufferCount, wire, freed>>
    BY <1>0, <1>7 DEF Enqueue, SendTypeOK
  <2>5. QED
    BY <1>0, <2>2, <2>3, <2>4 DEF SendTypeOK
<1>8. CASE UNCHANGED sendVars
  BY <1>0, <1>8 DEF SendTypeOK
<1>9. QED
  BY <1>2, <1>3, <1>4, <1>5, <1>6, <1>7, <1>8, SendChange

(* Connections and operations keep their types.                            *)
KernelTypeOK ==
  /\ conn \in [Channels -> {"open", "gone", "closed", "fresh"}]
  /\ losses \in [Channels -> 0..MaxLosses]
  /\ recvOps \in [Channels -> Nat] /\ sendOps \in [Channels -> Nat]
  /\ abandoned \in [Channels -> Nat]

(* of sockets, counts and what is in flight,                               *)
LEMMA KernelTypeStep ==
  ASSUME TypeOK, Control, [Next]_vars PROVE KernelTypeOK'
<1>0. KernelTypeOK /\ MaxLosses \in Nat
  BY ConstantsAssumption DEF TypeOK, KernelTypeOK
<1>1. \A t \in Threads : pc[t] # "idle" => cur[t] \in Channels
  BY DEF TypeOK, Control
<1>2. Reconnecter \in Threads
  BY DEF Threads
<1>3. ASSUME NEW c \in Channels, Lose(c) PROVE losses' \in [Channels -> 0..MaxLosses]
  <2>1. losses[c] + 1 \in 0..MaxLosses
    BY <1>0, <1>3 DEF Lose, KernelTypeOK
  <2>2. QED
    BY <1>0, <1>3, <2>1 DEF Lose, KernelTypeOK
<1>4. ASSUME NEW t \in Threads, CloseSocket(t) PROVE KernelTypeOK'
  BY <1>0, <1>1, <1>4 DEF CloseSocket, KernelTypeOK
<1>5. ASSUME NEW t \in Threads, WSARecv(t) PROVE KernelTypeOK'
  <2>1. cur[t] \in Channels
    BY <1>1, <1>5 DEF WSARecv
  <2>2. Lose(cur[t]) \/ UNCHANGED losses
    BY <1>5 DEF WSARecv
  <2>3. losses' \in [Channels -> 0..MaxLosses]
    BY <1>0, <1>3, <2>1, <2>2 DEF KernelTypeOK
  <2>4. QED
    BY <1>0, <1>5, <2>1, <2>3 DEF WSARecv, KernelTypeOK
<1>6. ASSUME NEW t \in Threads, WSASend(t) PROVE KernelTypeOK'
  <2>1. /\ UNCHANGED <<conn, losses, recvOps>>
        /\ sendOps' = sendOps \/ sendOps' = [sendOps EXCEPT ![cur[t]] = @ + 1]
        /\ abandoned' = abandoned \/ abandoned' = [abandoned EXCEPT ![cur[t]] = @ + 1]
    BY <1>6 DEF WSASend
  <2>2. cur[t] \in Channels
    BY <1>1, <1>6 DEF WSASend
  <2>3. QED
    BY <1>0, <2>1, <2>2 DEF KernelTypeOK
<1>7. ASSUME NewSocket \/ Connect PROVE KernelTypeOK'
  BY <1>0, <1>1, <1>2, <1>7 DEF NewSocket, Connect, SetConn, KernelTypeOK
<1>8. ASSUME NEW w \in Workers, NEW c \in Channels, DequeueRecv(w, c) PROVE KernelTypeOK'
  <2>1. losses' \in [Channels -> 0..MaxLosses]
    BY <1>0, <1>3, <1>8 DEF DequeueRecv, KernelTypeOK
  <2>2. /\ UNCHANGED <<conn, sendOps, abandoned>>
        /\ recvOps[c] > 0 /\ recvOps' = [recvOps EXCEPT ![c] = @ - 1]
    BY <1>8 DEF DequeueRecv
  <2>3. QED
    BY <1>0, <2>1, <2>2 DEF KernelTypeOK
<1>9. ASSUME NEW w \in Workers, NEW c \in Channels, DequeueSend(w, c) PROVE KernelTypeOK'
  BY <1>0, <1>9 DEF DequeueSend, KernelTypeOK
<1>10. ASSUME NEW c \in Channels, ConnectionLost(c) PROVE KernelTypeOK'
  BY <1>0, <1>3, <1>10 DEF ConnectionLost, KernelTypeOK
<1>11. CASE UNCHANGED kernelVars
  BY <1>0, <1>11 DEF KernelTypeOK
<1>12. QED
  BY <1>4, <1>5, <1>6, <1>7, <1>8, <1>9, <1>10, <1>11, KernelChange

(* and of ioMode.                                                          *)
LEMMA ModeTypeStep ==
  ASSUME TypeOK, Control, [Next]_vars
  PROVE  ioMode' \in [Channels -> {"NONSENDING", "SENDING"}]
<1>1. ioMode \in [Channels -> {"NONSENDING", "SENDING"}]
  BY DEF TypeOK
<1>2. QED
  BY <1>1, ModeChange DEF ResetIOMode, TrySending, ResetEmpty

-----------------------------------------------------------------------------
(* The list of the reconnecter.                                            *)

ListTypeOK ==
  /\ reconnectList \in Seq(Channels) /\ snapshot \in Seq(Channels)
  /\ numOfReconnect \in 0..MaxReconnects /\ corrupted \in BOOLEAN

(* Appending a channel keeps the front; taking the front away, of the list *)
(* or of an earlier state of it, leaves what followed it.                  *)
LEMMA AppendToList ==
  ASSUME ListTypeOK, NEW c \in Channels
  PROVE  LET l == Append(reconnectList, c) IN
         /\ l \in Seq(Channels) /\ l # <<>>
         /\ Len(l) = Len(reconnectList) + 1 /\ l[Len(l)] = c
         /\ \A i \in 1..Len(reconnectList) : l[i] = reconnectList[i]
BY AppendProperties DEF ListTypeOK

(* Unlink takes the front off, and what else it lost shows in corrupted.   *)
LEMMA UnlinkFront ==
  ASSUME ListTypeOK, ListFront, Unlink
  PROVE  /\ reconnectList' \in Seq(Channels)
         /\ Len(reconnectList') + 1 <= Len(reconnectList)
         /\ \A i \in 1..Len(reconnectList') : reconnectList'[i] = reconnectList[i + 1]
         /\ ~corrupted' => ~corrupted /\ Len(reconnectList') + 1 = Len(reconnectList)
<1>1. /\ reconnectList \in Seq(Channels) /\ snapshot \in Seq(Channels)
      /\ reconnectList # <<>> /\ snapshot # <<>> /\ Len(snapshot) <= Len(reconnectList)
      /\ \A i \in 1..Len(snapshot) : snapshot[i] = reconnectList[i]
  BY DEF ListTypeOK, ListFront, Unlink
<1>2. PICK l \in {reconnectList, snapshot} : reconnectList' = Tail(l)
  BY DEF Unlink
<1>3. l \in Seq(Channels) /\ l # <<>> /\ Len(l) <= Len(reconnectList)
  BY <1>1, <1>2
<1>4. \A i \in 1..Len(l) : l[i] = reconnectList[i]
  BY <1>1, <1>2
<1>5. /\ Tail(l) \in Seq(Channels) /\ Len(Tail(l)) = Len(l) - 1
      /\ \A i \in 1..Len(Tail(l)) : Tail(l)[i] = l[i + 1]
  BY <1>3, HeadTailProperties
<1>6. Len(l) \in Nat /\ Len(reconnectList) \in Nat
  BY <1>1, <1>3
<1>7. ~corrupted' => ~corrupted /\ l = reconnectList
  BY <1>2 DEF Unlink, ListTypeOK
<1> HIDE DEF Unlink
<1>8. QED
  BY <1>2, <1>3, <1>4, <1>5, <1>6, <1>7

(* Every step keeps the type of the list, and the front the channel that is*)
(* reconnected.                                                            *)
LEMMA ListStep ==
  ASSUME TypeOK, Control, Loops, ListFront, [Next]_vars PROVE ListTypeOK' /\ ListFront'
<1> DEFINE r == Reconnecter
<1>0. /\ ListTypeOK /\ ThreadOK /\ r \in Threads
      /\ pc \in [Threads -> Labels] /\ cur \in [Threads -> Channels \cup {NoChannel}]
      /\ MaxReconnects \in Nat
  BY ConstantsAssumption DEF TypeOK, ListTypeOK, ThreadOK, ThreadTypeOK, Threads
<1>1. ASSUME ReconnecterStep PROVE ListTypeOK' /\ ListFront'
  <2>1. CASE TakeReleased
    <3>1. /\ reconnectList # <<>> /\ numOfReconnect < MaxReconnects
          /\ pc'[r] = "socket" /\ cur'[r] = reconnectList[1] /\ UNCHANGED listVars
      BY <1>0, <2>1 DEF TakeReleased, Call, ListTypeOK
    <3>2. QED
      BY <1>0, <3>1 DEF ListTypeOK, ListFront
  <2>2. CASE NewSocket \/ Connect \/ Bind
    <3>1. /\ pc[r] \in {"socket", "connect", "bind"}
          /\ pc'[r] \in {"connect", "bind", "recvCount", "ended"} /\ cur'[r] = cur[r]
          /\ UNCHANGED listVars
      BY <1>0, <2>2 DEF NewSocket, Connect, Bind, SetConn, Goto
    <3>2. QED
      BY <1>0, <3>1 DEF ListTypeOK, ListFront
  <2>3. CASE PopFront
    <3>1. /\ pc[r] = "pop" /\ pc'[r] = "unlink"
          /\ UNCHANGED <<reconnectList, corrupted>> /\ snapshot' = reconnectList
          /\ numOfReconnect' = numOfReconnect + 1
      BY <1>0, <2>3 DEF PopFront, Goto
    <3>2. numOfReconnect' \in 0..MaxReconnects
      BY <1>0, <3>1 DEF ListTypeOK, ListFront
    <3>3. QED
      BY <1>0, <3>1, <3>2 DEF ListTypeOK, ListFront
  <2>4. CASE Unlink
    <3>1. /\ pc'[r] = "idle" /\ snapshot' = <<>> /\ UNCHANGED numOfReconnect
          /\ corrupted' \in BOOLEAN
      BY <1>0, <2>4 DEF Unlink, Finish, Call, ListTypeOK
    <3>2. reconnectList' \in Seq(Channels)
      BY <1>0, <2>4, UnlinkFront
    <3>3. QED
      BY <1>0, <3>1, <3>2 DEF ListTypeOK, ListFront
  <2>5. QED
    BY <1>1, <2>1, <2>2, <2>3, <2>4 DEF ReconnecterStep
<1>2. ASSUME ~ReconnecterStep PROVE ListTypeOK' /\ ListFront'
  <2>1. \/ UNCHANGED listVars
        \/ \E c \in Channels : /\ reconnectList' = Append(reconnectList, c)
                               /\ UNCHANGED <<snapshot, corrupted, numOfReconnect>>
    <3>1. ASSUME NEW t \in Threads, PushReconnect(t)
          PROVE  \E c \in Channels : /\ reconnectList' = Append(reconnectList, c)
                                     /\ UNCHANGED <<snapshot, corrupted, numOfReconnect>>
      BY <1>0, <3>1 DEF PushReconnect, Control
    <3>2. QED
      BY <1>2, <3>1, ListChange DEF ReconnecterStep
  <2>2. \/ pc'[r] = pc[r] /\ cur'[r] = cur[r]
        \/ /\ pc[r] \in {"recvCount"} \cup InReconnectedCall
           /\ pc'[r] \in Reconnected \ {"unlink"} /\ cur'[r] = cur[r]
    BY <1>0, <1>2, ReconnecterMoves, ReconnecterCalls
  <2>3. CASE UNCHANGED listVars
    BY <1>0, <2>2, <2>3
       DEF ListTypeOK, ListFront, InReconnectedCall, Reconnected, ReleaseLabels
  <2>4. ASSUME NEW c \in Channels, reconnectList' = Append(reconnectList, c),
               UNCHANGED <<snapshot, corrupted, numOfReconnect>>
        PROVE  ListTypeOK' /\ ListFront'
    <3>1. /\ reconnectList' \in Seq(Channels) /\ reconnectList' # <<>>
          /\ Len(reconnectList') = Len(reconnectList) + 1
          /\ \A i \in 1..Len(reconnectList) : reconnectList'[i] = reconnectList[i]
      BY <1>0, <2>4, AppendToList
    <3>2. ListTypeOK'
      BY <1>0, <2>4, <3>1 DEF ListTypeOK
    <3>3. Len(reconnectList) \in Nat /\ (reconnectList # <<>> => Len(reconnectList) >= 1)
          /\ Len(snapshot) \in Nat
      BY <1>0 DEF ListTypeOK
    <3>4. pc'[r] # "idle" => pc[r] # "idle"
      BY <2>2 DEF InReconnectedCall, Reconnected, ReleaseLabels
    <3>5. pc'[r] = "unlink" => pc[r] = "unlink"
      BY <2>2 DEF InReconnectedCall, Reconnected, ReleaseLabels
    <3>6. pc'[r] \in {"socket", "connect", "bind", "recvCount"} => pc'[r] = pc[r]
      BY <2>2 DEF InReconnectedCall, Reconnected, ReleaseLabels
    <3>7. cur'[r] = cur[r]
      BY <2>2
    <3>8. pc'[r] \notin {"idle", "unlink"} => pc[r] \notin {"idle", "unlink"}
      BY <2>2 DEF InReconnectedCall, Reconnected, ReleaseLabels
    <3>9. QED
      BY <2>4, <3>1, <3>2, <3>3, <3>4, <3>5, <3>6, <3>7, <3>8 DEF ListFront
  <2>5. QED
    BY <2>1, <2>3, <2>4
<1>3. QED
  BY <1>1, <1>2

-----------------------------------------------------------------------------
(* Counting threads.                                                       *)

Bit(b) == IF b THEN 1 ELSE 0

(* Sets of threads are finite.                                             *)
LEMMA SetOfThreads ==
  ASSUME NEW S \in SUBSET Threads
  PROVE  /\ IsFiniteSet(S) /\ Cardinality(S) \in Nat
         /\ Cardinality(S) = 0 <=> S = {}
<1>1. IsFiniteSet({Reconnecter}) /\ IsFiniteSet(Workers) /\ IsFiniteSet(Apps)
  BY ConstantsAssumption, FS_Singleton
<1>2. IsFiniteSet(Workers \cup Apps)
  BY <1>1, FS_Union
<1>3. IsFiniteSet(Threads)
  BY <1>1, <1>2, FS_Union DEF Threads
<1>4. QED
  BY <1>3, FS_Subset, FS_CardinalityType, FS_EmptySet

(* A set of threads with one member at most, and one with none.            *)
LEMMA OneMember ==
  ASSUME NEW S \in SUBSET Threads, Cardinality(S) <= 1, NEW t \in S
  PROVE  S = {t} /\ Cardinality(S) = 1
<1>1. IsFiniteSet(S) /\ Cardinality(S) \in Nat /\ Cardinality(S) # 0
  BY SetOfThreads
<1>2. Cardinality(S) = 1
  BY <1>1
<1>3. PICK x : S = {x}
  BY <1>1, <1>2, FS_Singleton
<1>4. QED
  BY <1>2, <1>3

(* Two sets of threads that differ in one thread at most.                  *)
LEMMA CardinalitiesDiffer ==
  ASSUME NEW A \in SUBSET Threads, NEW B \in SUBSET Threads, NEW t \in Threads,
         \A u \in Threads \ {t} : u \in A <=> u \in B
  PROVE  Cardinality(B) = Cardinality(A) - Bit(t \in A) + Bit(t \in B)
<1>1. IsFiniteSet(A) /\ IsFiniteSet(B) /\ Cardinality(A) \in Nat /\ Cardinality(B) \in Nat
  BY SetOfThreads
<1>2. A \ {t} = B \ {t}
  OBVIOUS
<1>3. /\ Cardinality(A \ {t}) = Cardinality(A) - Bit(t \in A)
      /\ Cardinality(B \ {t}) = Cardinality(B) - Bit(t \in B)
  BY SMTT(40), <1>1, FS_RemoveElement DEF Bit
<1>4. Bit(t \in A) \in {0, 1} /\ Bit(t \in B) \in {0, 1}
  BY DEF Bit
<1>5. Cardinality(A \ {t}) = Cardinality(B \ {t})
  BY <1>2
<1>6. Cardinality(A) - Bit(t \in A) = Cardinality(B) - Bit(t \in B)
  BY <1>3, <1>5
<1>7. \A a, b \in Nat : \A x, y \in {0, 1} : a - x = b - y => b = a - x + y
  OBVIOUS
<1>8. QED
  BY <1>1, <1>4, <1>6, <1>7

(* A step of thread t changes the number of threads at a channel by t      *)
(* itself.                                                                 *)
LEMMA ThreadSetsChange ==
  ASSUME NEW t \in Threads, OnlyMoves(t), NEW c \in Channels
  PROVE  /\ Cardinality(Handles(c))' =
              Cardinality(Handles(c)) - Bit(t \in Handles(c)) + Bit(t \in Handles(c)')
         /\ Cardinality(Posts(c))' =
              Cardinality(Posts(c)) - Bit(t \in Posts(c)) + Bit(t \in Posts(c)')
         /\ Cardinality(Sending(c))' =
              Cardinality(Sending(c)) - Bit(t \in Sending(c)) + Bit(t \in Sending(c)')
         /\ Cardinality(Receiving(c))' =
              Cardinality(Receiving(c)) - Bit(t \in Receiving(c)) + Bit(t \in Receiving(c)')
<1>1. \A u \in Threads \ {t} : u \in Handles(c) <=> u \in Handles(c)'
  BY DEF OnlyMoves, Handles
<1>2. \A u \in Threads \ {t} : u \in Posts(c) <=> u \in Posts(c)'
  BY DEF OnlyMoves, Posts
<1>3. \A u \in Threads \ {t} : u \in Sending(c) <=> u \in Sending(c)'
  BY DEF OnlyMoves, Sending
<1>4. \A u \in Threads \ {t} : u \in Receiving(c) <=> u \in Receiving(c)'
  BY DEF OnlyMoves, Receiving
<1>5. /\ Handles(c) \in SUBSET Threads /\ Handles(c)' \in SUBSET Threads
      /\ Posts(c) \in SUBSET Threads /\ Posts(c)' \in SUBSET Threads
      /\ Sending(c) \in SUBSET Threads /\ Sending(c)' \in SUBSET Threads
      /\ Receiving(c) \in SUBSET Threads /\ Receiving(c)' \in SUBSET Threads
  BY DEF Handles, Posts, Sending, Receiving, Threads
<1>6. QED
  BY <1>1, <1>2, <1>3, <1>4, <1>5, CardinalitiesDiffer

(* These numbers are naturals, and 1 at least with t in the set.           *)
LEMMA ThreadSetsFinite ==
  ASSUME NEW c \in Channels
  PROVE  /\ Cardinality(Handles(c)) \in Nat /\ Cardinality(Posts(c)) \in Nat
         /\ Cardinality(Sending(c)) \in Nat /\ Cardinality(Receiving(c)) \in Nat
         /\ \A t \in Threads : /\ Bit(t \in Handles(c)) <= Cardinality(Handles(c))
                               /\ Bit(t \in Posts(c)) <= Cardinality(Posts(c))
                               /\ Bit(t \in Sending(c)) <= Cardinality(Sending(c))
                               /\ Bit(t \in Receiving(c)) <= Cardinality(Receiving(c))
<1>1. /\ Handles(c) \in SUBSET Threads /\ Posts(c) \in SUBSET Threads
      /\ Sending(c) \in SUBSET Threads /\ Receiving(c) \in SUBSET Threads
  BY DEF Handles, Posts, Sending, Receiving, Threads
<1>2. ASSUME NEW S \in SUBSET Threads, NEW t \in Threads
      PROVE  Cardinality(S) \in Nat /\ Bit(t \in S) <= Cardinality(S)
  <2>1. Cardinality(S) \in Nat /\ (Cardinality(S) = 0 => S = {})
    BY SetOfThreads
  <2>2. QED
    BY <2>1 DEF Bit
<1>3. Threads # {}
  BY DEF Threads
<1>4. QED
  BY <1>1, <1>2, <1>3

-----------------------------------------------------------------------------
(* References.                                                             *)

PostLabels == {"WSARecv", "undoRecv", "WSASend", "undoSend"}

(* The references a thread has at a label, and on a channel.               *)
RefsOf(t, l) ==
  IF l = "idle" THEN 0 ELSE Bit(t \in Workers /\ l \notin ReleaseLabels) + Bit(l \in PostLabels)
Refs(t, c) == Bit(t \in Handles(c)) + Bit(t \in Posts(c))

(* The references of a thread follow from its label and channel,           *)
LEMMA RefsAt ==
  ASSUME ThreadOK, NEW t \in Threads, NEW c \in Channels
  PROVE  Refs(t, c) = IF cur[t] = c THEN RefsOf(t, pc[t]) ELSE 0
<1>1. pc[t] \in Labels /\ (pc[t] = "idle" => cur[t] # c)
  BY ConstantsAssumption DEF ThreadOK, ThreadTypeOK, Control
<1>2. t \in Handles(c) <=> t \in Workers /\ cur[t] = c /\ pc[t] \notin ReleaseLabels
  BY <1>1 DEF Handles, ReleaseLabels
<1>3. t \in Posts(c) <=> cur[t] = c /\ pc[t] \in PostLabels
  BY DEF Posts, PostLabels
<1>4. QED
  BY <1>1, <1>2, <1>3 DEF Refs, RefsOf, Bit

(* after the step as well.                                                 *)
LEMMA RefsAtNext ==
  ASSUME ThreadOK', NEW t \in Threads, NEW c \in Channels
  PROVE  Refs(t, c)' = IF cur'[t] = c THEN RefsOf(t, pc'[t]) ELSE 0
<1>1. pc'[t] \in Labels /\ (pc'[t] = "idle" => cur'[t] # c)
  BY ConstantsAssumption DEF ThreadOK, ThreadTypeOK, Control
<1>2. t \in Handles(c)' <=> t \in Workers /\ cur'[t] = c /\ pc'[t] \notin ReleaseLabels
  BY <1>1 DEF Handles, ReleaseLabels
<1>3. t \in Posts(c)' <=> cur'[t] = c /\ pc'[t] \in PostLabels
  BY DEF Posts, PostLabels
<1>4. QED
  BY <1>1, <1>2, <1>3 DEF Refs, RefsOf, Bit

(* A thread's references are counted; so are the operations in flight.     *)
LEMMA ReferencesCounted ==
  ASSUME TypeOK, RefCountExact, NEW t \in Threads, NEW c \in Channels
  PROVE  /\ Refs(t, c) <= ioCount[c] /\ Refs(t, c) \in Nat
         /\ recvOps[c] + sendOps[c] + Refs(t, c) <= ioCount[c]
<1>1. /\ recvOps[c] \in Nat /\ sendOps[c] \in Nat /\ abandoned[c] \in Nat
      /\ ioCount[c] = recvOps[c] + sendOps[c] + abandoned[c]
                        + Cardinality(Handles(c)) + Cardinality(Posts(c))
  BY DEF TypeOK, RefCountExact
<1>2. /\ Bit(t \in Handles(c)) \in Nat /\ Bit(t \in Posts(c)) \in Nat
  BY DEF Bit
<1>3. QED
  BY <1>1, <1>2, ThreadSetsFinite DEF Refs

(* What was counted plus the change is what is to be counted.              *)
LEMMA CountArithmetic ==
  ASSUME NEW i \in Int, NEW i1 \in Int, NEW o \in Nat, NEW o1 \in Nat, NEW h \in Nat,
         NEW h1 \in Nat, NEW p \in Nat, NEW p1 \in Nat, NEW x \in Int, NEW x1 \in Int,
         i = o + h + p, i1 - i = (o1 - o) + (x1 - x), h1 + p1 = h + p + (x1 - x)
  PROVE  i1 = o1 + h1 + p1 /\ i1 \in Nat
OBVIOUS

(* A step of thread t on channel c keeps the count exact if it changes the *)
(* count by as much as the operations and the references of t.             *)
LEMMA CountKept ==
  ASSUME TypeOK, ThreadOK', RefCountExact, NEW t \in Threads, OnlyMoves(t), NEW c \in Channels,
         cur[t] \in {c, NoChannel}, cur'[t] \in {c, NoChannel},
         \A d \in Channels \ {c} : /\ ioCount'[d] = ioCount[d] /\ recvOps'[d] = recvOps[d]
                                   /\ sendOps'[d] = sendOps[d] /\ abandoned'[d] = abandoned[d],
         KernelTypeOK', ioCount'[c] \in Int,
         ioCount'[c] - ioCount[c] =
           (recvOps'[c] - recvOps[c]) + (sendOps'[c] - sendOps[c])
             + (abandoned'[c] - abandoned[c]) + (RefsOf(t, pc'[t]) - RefsOf(t, pc[t])),
         Control
  PROVE  RefCountExact' /\ \A d \in Channels : ioCount'[d] \in Nat
<1>1. ThreadTypeOK /\ ThreadTypeOK' /\ Control'
  BY DEF TypeOK, ThreadTypeOK, ThreadOK
<1>2. ASSUME NEW d \in Channels
      PROVE  /\ ioCount'[d] = recvOps'[d] + sendOps'[d] + abandoned'[d]
                                + Cardinality(Handles(d))' + Cardinality(Posts(d))'
             /\ ioCount'[d] \in Nat
  <2>1. /\ Refs(t, d) = IF cur[t] = d THEN RefsOf(t, pc[t]) ELSE 0
        /\ Refs(t, d)' = IF cur'[t] = d THEN RefsOf(t, pc'[t]) ELSE 0
    <3>1. pc[t] \in Labels /\ (pc[t] = "idle" => cur[t] # d)
      BY <1>1, ConstantsAssumption DEF ThreadTypeOK, Control
    <3>2. t \in Handles(d) <=> t \in Workers /\ cur[t] = d /\ pc[t] \notin ReleaseLabels
      BY <3>1 DEF Handles, ReleaseLabels
    <3>3. t \in Posts(d) <=> cur[t] = d /\ pc[t] \in PostLabels
      BY DEF Posts, PostLabels
    <3>4. Refs(t, d) = IF cur[t] = d THEN RefsOf(t, pc[t]) ELSE 0
      BY <3>1, <3>2, <3>3 DEF Refs, RefsOf, Bit
    <3>5. QED
      BY <3>4, RefsAtNext
  <2>2. pc[t] = "idle" <=> cur[t] = NoChannel
    BY <1>1 DEF Control
  <2>3. pc'[t] = "idle" <=> cur'[t] = NoChannel
    BY <1>1 DEF Control
  <2>4. ioCount'[d] - ioCount[d] =
           (recvOps'[d] - recvOps[d]) + (sendOps'[d] - sendOps[d])
             + (abandoned'[d] - abandoned[d]) + (Refs(t, d)' - Refs(t, d))
    <3>1. CASE d = c
      <4>1. RefsOf(t, "idle") = 0 /\ NoChannel # c
        BY ConstantsAssumption DEF RefsOf
      <4>2. Refs(t, d) = RefsOf(t, pc[t]) /\ Refs(t, d)' = RefsOf(t, pc'[t])
        BY <2>1, <2>2, <2>3, <3>1, <4>1
      <4>3. QED
        BY <3>1, <4>2
    <3>2. CASE d # c
      <4>1. cur[t] # d /\ cur'[t] # d
        BY <3>2, ConstantsAssumption
      <4>2. /\ ioCount[d] \in Int /\ recvOps[d] \in Int /\ sendOps[d] \in Int
            /\ abandoned[d] \in Int
        BY DEF TypeOK
      <4>3. QED
        BY <2>1, <3>2, <4>1, <4>2
    <3>3. QED
      BY <3>1, <3>2
  <2>5. /\ Cardinality(Handles(d))' =
             Cardinality(Handles(d)) - Bit(t \in Handles(d)) + Bit(t \in Handles(d)')
        /\ Cardinality(Posts(d))' =
             Cardinality(Posts(d)) - Bit(t \in Posts(d)) + Bit(t \in Posts(d)')
    BY ThreadSetsChange
  <2>6. /\ Cardinality(Handles(d)) \in Nat /\ Cardinality(Posts(d)) \in Nat
        /\ Bit(t \in Handles(d)) \in {0, 1} /\ Bit(t \in Posts(d)) \in {0, 1}
        /\ Bit(t \in Handles(d)') \in {0, 1} /\ Bit(t \in Posts(d)') \in {0, 1}
    BY ThreadSetsFinite DEF Bit
  <2>7. Cardinality(Handles(d))' \in Nat /\ Cardinality(Posts(d))' \in Nat
    <3>1. Handles(d)' \in SUBSET Threads /\ Posts(d)' \in SUBSET Threads
      BY DEF Handles, Posts, Threads
    <3>2. QED
      BY <3>1, SetOfThreads
  <2>8. /\ ioCount[d] = recvOps[d] + sendOps[d] + abandoned[d]
                          + Cardinality(Handles(d)) + Cardinality(Posts(d))
        /\ ioCount[d] \in Nat /\ recvOps[d] \in Nat /\ sendOps[d] \in Nat /\ abandoned[d] \in Nat
        /\ recvOps'[d] \in Nat /\ sendOps'[d] \in Nat /\ abandoned'[d] \in Nat
    BY DEF RefCountExact, TypeOK, KernelTypeOK
  <2>9. ioCount'[d] \in Int
    BY <2>8
  <2>10. /\ Refs(t, d) = Bit(t \in Handles(d)) + Bit(t \in Posts(d))
         /\ Refs(t, d)' = Bit(t \in Handles(d)') + Bit(t \in Posts(d)')
    BY DEF Refs
  <2> DEFINE h == Cardinality(Handles(d))
             p == Cardinality(Posts(d))
             x == Refs(t, d)
  <2>11. x' \in Int /\ x \in Int /\ h' + p' = h + p + (x' - x)
    <3> DEFINE a == Bit(t \in Handles(d))
               b == Bit(t \in Posts(d))
    <3>1. /\ h \in Nat /\ p \in Nat /\ a \in {0, 1} /\ b \in {0, 1} /\ a' \in {0, 1}
          /\ b' \in {0, 1} /\ h' = h - a + a' /\ p' = p - b + b' /\ x = a + b /\ x' = a' + b'
      BY <2>5, <2>6, <2>10
    <3> HIDE DEF h, p, x, a, b
    <3>2. QED
      BY <3>1
  <2>12. /\ ioCount[d] = recvOps[d] + sendOps[d] + abandoned[d] + h + p
         /\ h \in Nat /\ p \in Nat /\ h' \in Nat /\ p' \in Nat
         /\ ioCount'[d] - ioCount[d] =
              (recvOps'[d] - recvOps[d]) + (sendOps'[d] - sendOps[d])
                + (abandoned'[d] - abandoned[d]) + (x' - x)
    BY <2>4, <2>6, <2>7, <2>8
  <2> DEFINE ops == recvOps[d] + sendOps[d] + abandoned[d]
  <2>13. /\ ops \in Nat /\ ops' \in Nat /\ ioCount[d] = ops + h + p
         /\ ioCount'[d] - ioCount[d] = (ops' - ops) + (x' - x)
    <3> HIDE DEF h, p, x
    <3>1. (recvOps'[d] - recvOps[d]) + (sendOps'[d] - sendOps[d]) + (abandoned'[d] - abandoned[d])
            = ops' - ops
      BY <2>8
    <3>2. ops \in Nat /\ ops' \in Nat /\ ioCount[d] = ops + h + p
      BY <2>8, <2>12
    <3>3. QED
      BY <2>8, <2>9, <2>11, <2>12, <3>1, <3>2
  <2>14. ioCount'[d] = ops' + h' + p' /\ ioCount'[d] \in Nat
    <3>1. /\ ioCount[d] \in Int /\ ioCount'[d] \in Int /\ x \in Int /\ x' \in Int
          /\ h' + p' = h + p + (x' - x)
          /\ h \in Nat /\ p \in Nat /\ h' \in Nat /\ p' \in Nat
      BY <2>8, <2>9, <2>11, <2>12
    <3> HIDE DEF h, p, x, ops
    <3>2. QED
      BY <2>13, <3>1, CountArithmetic
  <2>15. ioCount'[d] = recvOps'[d] + sendOps'[d] + abandoned'[d] + h' + p'
    BY <2>14
  <2>16. QED
    BY <2>14, <2>15
<1>3. QED
  BY <1>2 DEF RefCountExact

(* How many references a thread has at which label.                        *)
LEMMA RefsOfValues ==
  ASSUME NEW t \in Threads
  PROVE  /\ \A l \in ReleaseLabels \cup {"idle"} : RefsOf(t, l) = 0
         /\ t \in Workers =>
              /\ \A l \in Labels \ (ReleaseLabels \cup PostLabels \cup {"idle"}) :
                   RefsOf(t, l) = 1
              /\ \A l \in PostLabels : RefsOf(t, l) = 2
         /\ t \notin Workers =>
              /\ \A l \in Labels \ PostLabels : RefsOf(t, l) = 0
              /\ \A l \in PostLabels : RefsOf(t, l) = 1
         /\ \A l : RefsOf(t, l) \in {0, 1, 2}
<1>1. PostLabels \cap (ReleaseLabels \cup {"idle"}) = {}
  BY DEF PostLabels, ReleaseLabels
<1>2. QED
  BY <1>1 DEF RefsOf, Bit

(* Returning from a call without a reference of the call's own.            *)
LEMMA ReturnRefs ==
  ASSUME ThreadOK, NEW t \in Threads, Return(t)
  PROVE  /\ RefsOf(t, pc'[t]) = Bit(t \in Workers)
         /\ cur'[t] \in {cur[t], NoChannel} /\ OnlyMoves(t)
         /\ t \in Workers => pc'[t] = "dec"
<1>0. /\ pc \in [Threads -> Labels] /\ cur \in [Threads -> Channels \cup {NoChannel}]
      /\ Workers \cap Apps = {} /\ Reconnecter \notin Workers \cup Apps
  BY ConstantsAssumption DEF ThreadOK, ThreadTypeOK
<1>1. PICK l \in {"dec", "idle", "pop"} :
        Moved(t, l) /\ (t \in Workers <=> l = "dec") /\ (t = Reconnecter <=> l = "pop")
  BY ReturnMoves
<1>2. pc'[t] = l /\ cur'[t] \in {cur[t], NoChannel} /\ OnlyMoves(t)
  BY <1>0, <1>1 DEF Moved, OnlyMoves
<1>3. RefsOf(t, l) = Bit(t \in Workers)
  BY <1>1, RefsOfValues DEF RefsOf, Bit, ReleaseLabels, PostLabels
<1>4. QED
  BY <1>1, <1>2, <1>3

(* A step that changes neither counts nor references.                      *)
LEMMA QuietStep ==
  ASSUME TypeOK, Control, ThreadOK', RefCountExact, KernelTypeOK', NEW t \in Threads,
         OnlyMoves(t), NEW c \in Channels,
         cur[t] \in {c, NoChannel}, cur'[t] \in {c, NoChannel},
         UNCHANGED <<ioCount, recvOps, sendOps, abandoned>>,
         RefsOf(t, pc'[t]) = RefsOf(t, pc[t])
  PROVE  RefCountExact' /\ \A d \in Channels : ioCount'[d] \in Nat
<1>1. /\ ioCount[c] \in Nat /\ recvOps[c] \in Nat /\ sendOps[c] \in Nat /\ abandoned[c] \in Nat
  BY DEF TypeOK
<1>2. RefsOf(t, pc[t]) \in {0, 1, 2}
  BY RefsOfValues
<1>3. ioCount'[c] - ioCount[c] =
           (recvOps'[c] - recvOps[c]) + (sendOps'[c] - sendOps[c])
             + (abandoned'[c] - abandoned[c]) + (RefsOf(t, pc'[t]) - RefsOf(t, pc[t]))
  BY <1>1, <1>2
<1>4. QED
  BY <1>1, <1>3, CountKept

(* A step that moves no thread and no count keeps the count exact.         *)
LEMMA UnmovedStep ==
  ASSUME RefCountExact, TypeOK, UNCHANGED <<pc, cur, ioCount, recvOps, sendOps, abandoned>>
  PROVE  RefCountExact' /\ \A d \in Channels : ioCount'[d] \in Nat
BY DEF RefCountExact, Handles, Posts, TypeOK

(* The reference a thread gives up is one of those that are counted.       *)
LEMMA DecrementStep ==
  ASSUME TypeOK, ThreadOK, ThreadOK', RefCountExact, KernelTypeOK', NEW t \in Threads,
         pc[t] \in {"dec", "undoRecv", "undoSend"},
         DecrementAnd(t, IF pc[t] = "dec" THEN Finish(t) ELSE Return(t)),
         pc[t] = "dec" => t \in Workers
  PROVE  /\ RefCountExact' /\ \A d \in Channels : ioCount'[d] \in Nat
         /\ t \in Workers /\ pc[t] # "dec" => ioCount'[cur[t]] # 0
         /\ OnlyMoves(t) /\ ioCount[cur[t]] > 0
         /\ ioCount'[cur[t]] = 0 => pc'[t] = "release" /\ cur'[t] = cur[t]
<1> DEFINE c == cur[t]
<1>0. /\ Control /\ ThreadOK' /\ c \in Channels /\ ioCount[c] \in Nat
      /\ pc \in [Threads -> Labels] /\ cur \in [Threads -> Channels \cup {NoChannel}]
      /\ ioCount \in [Channels -> Nat] /\ pc[t] \in Labels
  BY DEF TypeOK, Control, ThreadOK, Loops, ThreadTypeOK
<1>1. /\ ioCount' = [ioCount EXCEPT ![c] = @ - 1]
      /\ UNCHANGED <<recvOps, sendOps, abandoned>>
      /\ \/ ioCount'[c] = 0 /\ Goto(t, "release")
         \/ ioCount'[c] # 0 /\ (IF pc[t] = "dec" THEN Finish(t) ELSE Return(t))
  BY DEF DecrementAnd
<1>2. Refs(t, c) = RefsOf(t, pc[t])
  <2>1. pc[t] # "idle"
    OBVIOUS
  <2>2. t \in Handles(c) <=> t \in Workers /\ pc[t] \notin ReleaseLabels
    BY <1>0 DEF Handles, ReleaseLabels
  <2>3. t \in Posts(c) <=> pc[t] \in PostLabels
    BY DEF Posts, PostLabels
  <2>4. QED
    BY <2>1, <2>2, <2>3 DEF Refs, RefsOf, Bit
<1>3. Refs(t, c) <= ioCount[c]
  BY <1>0, ReferencesCounted
<1>4. RefsOf(t, pc[t]) = IF pc[t] # "dec" /\ t \in Workers THEN 2 ELSE 1
  BY <1>0, RefsOfValues DEF PostLabels, ReleaseLabels, Labels
<1>5. ioCount[c] > 0 /\ ioCount'[c] = ioCount[c] - 1
  BY <1>0, <1>1, <1>2, <1>3, <1>4
<1>6. t \in Workers /\ pc[t] # "dec" => ioCount'[c] # 0
  BY <1>0, <1>2, <1>3, <1>4, <1>5
<1>7. CASE ioCount'[c] = 0
  <2>1. Goto(t, "release")
    BY <1>1, <1>7
  <2>2. pc'[t] = "release" /\ cur'[t] = c /\ OnlyMoves(t)
    BY <1>0, <2>1 DEF Goto, OnlyMoves
  <2>3. RefsOf(t, pc'[t]) = 0 /\ RefsOf(t, pc[t]) = 1
    BY <1>4, <1>6, <1>7, <2>2, RefsOfValues DEF ReleaseLabels
  <2>4. QED
    <3>1. /\ recvOps[c] \in Nat /\ sendOps[c] \in Nat /\ abandoned[c] \in Nat
      BY <1>0 DEF TypeOK
    <3>2. RefCountExact' /\ \A d \in Channels : ioCount'[d] \in Nat
      BY <1>0, <1>1, <1>5, <2>2, <2>3, <3>1, CountKept
    <3>3. QED
      BY <1>5, <1>6, <2>2, <3>2
<1>8. CASE ioCount'[c] # 0
  <2>1. IF pc[t] = "dec" THEN Finish(t) ELSE Return(t)
    BY <1>1, <1>8
  <2>2. OnlyMoves(t) /\ cur'[t] \in {c, NoChannel} /\
        RefsOf(t, pc'[t]) = RefsOf(t, pc[t]) - 1
    <3>1. CASE pc[t] = "dec"
      <4>1. pc'[t] = "idle" /\ cur'[t] = NoChannel /\ OnlyMoves(t)
        BY <1>0, <2>1, <3>1 DEF Finish, Call, OnlyMoves
      <4>2. RefsOf(t, "idle") = 0
        BY RefsOfValues
      <4>3. QED
        BY <1>4, <3>1, <4>1, <4>2
    <3>2. CASE pc[t] # "dec"
      <4>1. Return(t)
        BY <2>1, <3>2
      <4>2. RefsOf(t, pc'[t]) = Bit(t \in Workers)
        BY <4>1, ReturnRefs
      <4>3. RefsOf(t, pc'[t]) = RefsOf(t, pc[t]) - 1
        BY <1>4, <3>2, <4>2 DEF Bit
      <4>4. QED
        BY <4>1, <4>3, ReturnRefs
    <3>3. QED
      BY <3>1, <3>2
  <2>3. /\ recvOps[c] \in Nat /\ sendOps[c] \in Nat /\ abandoned[c] \in Nat
        /\ RefsOf(t, pc[t]) \in {0, 1, 2}
    BY <1>0, RefsOfValues DEF TypeOK
  <2>4. ioCount'[c] - ioCount[c] =
           (recvOps'[c] - recvOps[c]) + (sendOps'[c] - sendOps[c])
             + (abandoned'[c] - abandoned[c]) + (RefsOf(t, pc'[t]) - RefsOf(t, pc[t]))
    BY <1>0, <1>1, <1>5, <2>2, <2>3
  <2>5. RefCountExact' /\ \A d \in Channels : ioCount'[d] \in Nat
    BY <1>0, <1>1, <1>5, <2>2, <2>4, CountKept
  <2>6. QED
    BY <1>5, <1>6, <1>8, <2>2, <2>5
<1>9. QED
  BY <1>7, <1>8

(* The three places that decrement differ in what follows only.            *)
LEMMA DecrementForms ==
  ASSUME Control, NEW t \in Threads, IOCountDecrement(t) \/ UndoRecv(t) \/ UndoSend(t)
  PROVE  /\ pc[t] \in {"dec", "undoRecv", "undoSend"}
         /\ DecrementAnd(t, IF pc[t] = "dec" THEN Finish(t) ELSE Return(t))
         /\ pc[t] = "dec" => t \in Workers
<1>1. CASE IOCountDecrement(t)
  <2>1. pc[t] = "dec" /\ DecrementAnd(t, Finish(t))
    BY <1>1 DEF IOCountDecrement
  <2>2. QED
    BY <2>1, SendersAndReceivers DEF DecrementAnd
<1>2. CASE UndoRecv(t)
  BY <1>2 DEF UndoRecv, DecrementAnd
<1>3. CASE UndoSend(t)
  BY <1>3 DEF UndoSend, DecrementAnd
<1>4. QED
  BY <1>1, <1>2, <1>3

(* Every step keeps the count exact, so it is never negative.              *)
LEMMA RefCountStep ==
  ASSUME ThreadInv, RefCountExact, [Next]_vars
  PROVE  RefCountExact' /\ \A d \in Channels : ioCount'[d] \in Nat
<1> DEFINE Goal == RefCountExact' /\ \A d \in Channels : ioCount'[d] \in Nat
           ops(c) == recvOps[c] + sendOps[c] + abandoned[c]
<1>0. /\ TypeOK /\ Control /\ ThreadOK /\ ThreadOK' /\ KernelTypeOK'
      /\ pc \in [Threads -> Labels] /\ cur \in [Threads -> Channels \cup {NoChannel}]
      /\ ioCount \in [Channels -> Nat]
      /\ recvOps \in [Channels -> Nat] /\ sendOps \in [Channels -> Nat]
      /\ abandoned \in [Channels -> Nat] /\ NoChannel \notin Channels
      /\ Reconnecter \in Threads /\ Workers \subseteq Threads /\ Apps \subseteq Threads
  BY ThreadStep, KernelTypeStep, ConstantsAssumption
     DEF ThreadInv, ThreadOK, ThreadTypeOK, TypeOK, Threads
<1>1. \A t \in Threads : pc[t] # "idle" => cur[t] \in Channels
  BY <1>0 DEF Control
<1>2. ASSUME NEW t \in Threads, NEW l \in Labels, Moved(t, l), pc[t] # "idle",
             UNCHANGED <<ioCount, recvOps, sendOps, abandoned>>,
             RefsOf(t, l) = RefsOf(t, pc[t])
      PROVE  Goal
  <2>1. pc'[t] = l /\ cur'[t] \in {cur[t], NoChannel} /\ OnlyMoves(t) /\ cur[t] \in Channels
    BY <1>0, <1>1, <1>2 DEF Moved, OnlyMoves
  <2>2. QED
    BY <1>0, <1>2, <2>1, QuietStep
<1>3. ASSUME NEW t \in Threads, CallStep(t) PROVE Goal
  <2>0. PICK m \in Labels : Moved(t, m)
    BY <1>0, <1>3, CallMoves
  <2>a. /\ pc'[t] = m /\ cur'[t] \in {cur[t], NoChannel} /\ OnlyMoves(t)
        /\ m # "idle" => cur'[t] = cur[t]
    BY <1>0, <2>0 DEF Moved, OnlyMoves
  <2>b. \A l : Goto(t, l) \/ EndLoop(t, l) \/ (\E n : Loop(t, n, l)) => m = l
    BY <1>0, <2>a DEF Goto, EndLoop, Loop
  <2>c. UNCHANGED pc => m = pc[t]
    BY <2>a
  <2>d. Finish(t) => m = "idle"
    BY <1>0, <2>a DEF Finish, Call
  <2>1. CASE ReleaseStore(t) \/ ReleaseQueue(t) \/ CloseSocket(t) \/ PushReconnect(t)
    <3>1. /\ pc[t] \in ReleaseLabels /\ UNCHANGED <<ioCount, recvOps, sendOps, abandoned>>
          /\ m \in ReleaseLabels \cup {"idle"} \/ (t = Reconnecter /\ m = "pop")
      BY <2>1, <2>b, <2>c, <2>d
         DEF ReleaseStore, ReleaseQueue, CloseSocket, PushReconnect, ReturnDeleted,
             ReleaseLabels
    <3>2. pc[t] # "idle"
      BY <3>1 DEF ReleaseLabels
    <3>3. RefsOf(t, pc[t]) = 0 /\ RefsOf(t, m) = 0
      BY <3>1, RefsOfValues, ThreadKinds DEF PostLabels
    <3>4. QED
      BY <1>2, <2>0, <3>1, <3>2, <3>3
  <2>2. CASE \/ FreeSent(t) \/ ResetIOMode(t) \/ UseSize(t) \/ ResetEmpty(t) \/ Dequeue(t)
    <3>1. /\ pc[t] \in {"sent", "resetMode", "size", "reset", "dequeue"}
          /\ UNCHANGED <<ioCount, recvOps, sendOps, abandoned>>
          /\ m \in {"resetMode", "cas", "reset", "recheck", "dequeue", "sendCount"}
      BY <2>2, <2>b, <2>c
         DEF FreeSent, ResetIOMode, UseSize, ResetEmpty, Dequeue, DequeueInto
    <3>2. RefsOf(t, m) = RefsOf(t, pc[t])
      BY <3>1 DEF RefsOf, ReleaseLabels, PostLabels
    <3>3. QED
      BY <1>2, <2>0, <3>1, <3>2
  <2>3. CASE TrySending(t) \/ Recheck(t)
    <3>1. /\ pc[t] \in {"cas", "recheck"}
          /\ UNCHANGED <<ioCount, recvOps, sendOps, abandoned>>
          /\ m \in {"size", "cas"} \/ Return(t)
      BY <2>3, <2>b DEF TrySending, Recheck
    <3>2. RefsOf(t, pc[t]) = Bit(t \in Workers)
      BY <3>1 DEF RefsOf, ReleaseLabels, PostLabels, Bit
    <3>3. RefsOf(t, m) = Bit(t \in Workers)
      <4>1. CASE m \in {"size", "cas"}
        BY <4>1 DEF RefsOf, ReleaseLabels, PostLabels, Bit
      <4>2. CASE Return(t)
        BY <1>0, <2>a, <4>2, ReturnRefs
      <4>3. QED
        BY <3>1, <4>1, <4>2
    <3>4. QED
      BY <1>2, <2>0, <3>1, <3>2, <3>3
  <2>4. CASE IOCountDecrement(t) \/ UndoRecv(t) \/ UndoSend(t)
    <3>1. /\ pc[t] \in {"dec", "undoRecv", "undoSend"}
          /\ DecrementAnd(t, IF pc[t] = "dec" THEN Finish(t) ELSE Return(t))
          /\ pc[t] = "dec" => t \in Workers
      BY <1>0, <2>4, DecrementForms
    <3>2. QED
      BY <1>0, <3>1, DecrementStep
  <2>5. CASE CountRecv(t) \/ CountSend(t)
    <3>1. /\ pc[t] \in {"recvCount", "sendCount"} /\ m \in {"WSARecv", "WSASend"}
          /\ ioCount' = [ioCount EXCEPT ![cur[t]] = @ + 1]
          /\ UNCHANGED <<recvOps, sendOps, abandoned>>
      BY <2>5, <2>b DEF CountRecv, CountSend
    <3>2. cur[t] \in Channels
      BY <1>1, <3>1
    <3>3. /\ RefsOf(t, m) = RefsOf(t, pc[t]) + 1 /\ RefsOf(t, pc[t]) \in {0, 1, 2}
      BY <3>1, RefsOfValues DEF RefsOf, ReleaseLabels, PostLabels, Bit
    <3> DEFINE c == cur[t]
    <3>4. /\ ioCount[c] \in Nat /\ recvOps[c] \in Nat /\ sendOps[c] \in Nat
          /\ abandoned[c] \in Nat /\ ioCount'[c] = ioCount[c] + 1
          /\ \A d \in Channels \ {c} : ioCount'[d] = ioCount[d]
      BY <1>0, <3>1, <3>2
    <3>5. ioCount'[c] - ioCount[c] =
           (recvOps'[c] - recvOps[c]) + (sendOps'[c] - sendOps[c])
             + (abandoned'[c] - abandoned[c]) + (RefsOf(t, pc'[t]) - RefsOf(t, pc[t]))
      BY <2>a, <3>1, <3>3, <3>4
    <3>6. QED
      BY <1>0, <2>a, <3>1, <3>2, <3>4, <3>5, CountKept
  <2>6. CASE WSARecv(t) \/ WSASend(t)
    <3> DEFINE c == cur[t]
    <3>1. /\ pc[t] \in {"WSARecv", "WSASend"} /\ UNCHANGED ioCount
          /\ \/ /\ Return(t) \/ (m = "cas" /\ pc[t] = "WSASend")
                /\ \/ /\ recvOps' = [recvOps EXCEPT ![c] = @ + 1]
                      /\ UNCHANGED <<sendOps, abandoned>>
                   \/ /\ sendOps' = [sendOps EXCEPT ![c] = @ + 1]
                      /\ UNCHANGED <<recvOps, abandoned>>
                   \/ /\ abandoned' = [abandoned EXCEPT ![c] = @ + 1]
                      /\ UNCHANGED <<recvOps, sendOps>>
             \/ m \in {"undoRecv", "undoSend"} /\ UNCHANGED <<recvOps, sendOps, abandoned>>
      BY <2>6, <2>b DEF WSARecv, WSASend
    <3>2. c \in Channels
      BY <1>1, <3>1
    <3>3. RefsOf(t, pc[t]) = Bit(t \in Workers) + 1 /\ Bit(t \in Workers) \in {0, 1}
      BY <3>1 DEF RefsOf, ReleaseLabels, PostLabels, Bit
    <3>4. CASE m \in {"undoRecv", "undoSend"} /\ UNCHANGED <<recvOps, sendOps, abandoned>>
      <4>1. RefsOf(t, m) = RefsOf(t, pc[t])
        BY <3>1, <3>4 DEF RefsOf, ReleaseLabels, PostLabels, Bit
      <4>2. QED
        BY <1>2, <2>0, <3>1, <3>4, <4>1
    <3>5. CASE /\ Return(t) \/ (m = "cas" /\ pc[t] = "WSASend")
               /\ \/ /\ recvOps' = [recvOps EXCEPT ![c] = @ + 1]
                     /\ UNCHANGED <<sendOps, abandoned>>
                  \/ /\ sendOps' = [sendOps EXCEPT ![c] = @ + 1]
                     /\ UNCHANGED <<recvOps, abandoned>>
                  \/ /\ abandoned' = [abandoned EXCEPT ![c] = @ + 1]
                     /\ UNCHANGED <<recvOps, sendOps>>
      <4>1. RefsOf(t, m) = Bit(t \in Workers)
        <5>1. CASE m = "cas"
          BY <5>1 DEF RefsOf, ReleaseLabels, PostLabels, Bit
        <5>2. CASE Return(t)
          BY <1>0, <2>a, <5>2, ReturnRefs
        <5>3. QED
          BY <3>5, <5>1, <5>2
      <4>2. /\ recvOps[c] \in Nat /\ sendOps[c] \in Nat /\ abandoned[c] \in Nat
            /\ ioCount[c] \in Nat
        BY <1>0, <3>2
      <4>3. /\ (recvOps'[c] - recvOps[c]) + (sendOps'[c] - sendOps[c])
                + (abandoned'[c] - abandoned[c]) = 1
            /\ \A d \in Channels \ {c} : /\ recvOps'[d] = recvOps[d]
                                         /\ sendOps'[d] = sendOps[d]
                                         /\ abandoned'[d] = abandoned[d]
        BY <1>0, <3>2, <3>5, <4>2
      <4>4. ioCount'[c] - ioCount[c] = 0 /\ RefsOf(t, m) - RefsOf(t, pc[t]) = -1
        BY <3>1, <3>3, <4>1, <4>2
      <4>5. ioCount'[c] - ioCount[c] =
              (recvOps'[c] - recvOps[c]) + (sendOps'[c] - sendOps[c])
                + (abandoned'[c] - abandoned[c]) + (RefsOf(t, pc'[t]) - RefsOf(t, pc[t]))
        BY <2>a, <4>3, <4>4
      <4>6. QED
        BY <1>0, <2>a, <3>1, <3>2, <4>2, <4>3, <4>5, CountKept
    <3>6. QED
      BY <3>1, <3>4, <3>5
  <2>7. QED
    BY <1>3, <2>1, <2>2, <2>3, <2>4, <2>5, <2>6 DEF CallStep
<1>4. ASSUME ReconnecterStep PROVE Goal
  <2> DEFINE r == Reconnecter
  <2>1. /\ UNCHANGED <<ioCount, recvOps, sendOps, abandoned>> /\ OnlyMoves(r)
        /\ pc[r] \in {"idle", "socket", "connect", "bind", "pop", "unlink"}
        /\ pc'[r] \in {"idle", "socket", "connect", "bind", "recvCount", "pop", "unlink",
                       "ended"}
        /\ \E c \in Channels : cur[r] \in {c, NoChannel} /\ cur'[r] \in {c, NoChannel}
    <3>1. CASE TakeReleased
      <4>1. Head(reconnectList) \in Channels
        BY <1>0, <3>1 DEF TakeReleased, TypeOK
      <4>2. pc[r] = "idle" /\ Call(r, Head(reconnectList), "socket")
        BY <3>1 DEF TakeReleased
      <4>3. cur[r] = NoChannel
        BY <1>0, <4>2 DEF Control
      <4>4. UNCHANGED <<ioCount, recvOps, sendOps, abandoned>>
        BY <3>1 DEF TakeReleased
      <4>5. pc'[r] = "socket" /\ cur'[r] = Head(reconnectList) /\ OnlyMoves(r)
        BY <1>0, <4>2 DEF Call, OnlyMoves
      <4>6. QED
        BY <4>1, <4>2, <4>3, <4>4, <4>5
    <3>2. CASE NewSocket \/ Connect \/ Bind \/ PopFront
      <4>1. /\ pc[r] \in {"socket", "connect", "bind", "pop"}
            /\ \E l \in {"connect", "bind", "recvCount", "unlink", "ended"} : Goto(r, l)
            /\ UNCHANGED <<ioCount, recvOps, sendOps, abandoned>>
        BY <3>2 DEF NewSocket, Connect, Bind, PopFront, SetConn
      <4>2. cur[r] \in Channels
        BY <1>0, <1>1, <4>1
      <4>3. QED
        BY <1>0, <4>1, <4>2 DEF Goto, OnlyMoves
    <3>3. CASE Unlink
      <4>1. pc[r] = "unlink" /\ Finish(r) /\ UNCHANGED <<ioCount, recvOps, sendOps, abandoned>>
        BY <3>3 DEF Unlink
      <4>2. cur[r] \in Channels
        BY <1>0, <1>1, <4>1
      <4>3. QED
        BY <1>0, <4>1, <4>2 DEF Finish, Call, OnlyMoves
    <3>4. QED
      BY <1>4, <3>1, <3>2, <3>3 DEF ReconnecterStep
  <2>2. RefsOf(r, pc'[r]) = 0 /\ RefsOf(r, pc[r]) = 0
    BY <1>0, <2>1, ThreadKinds DEF RefsOf, Bit, PostLabels
  <2>3. QED
    BY <1>0, <2>1, <2>2, QuietStep
<1>5. ASSUME NEW w \in Workers, NEW c \in Channels, DequeueCompletion(w, c) PROVE Goal
  <2>1. /\ pc[w] = "idle" /\ UNCHANGED <<ioCount, abandoned>>
        /\ \E l \in {"recvCount", "dec", "sent"} : Call(w, c, l)
        /\ \/ /\ recvOps[c] > 0 /\ recvOps' = [recvOps EXCEPT ![c] = @ - 1]
              /\ UNCHANGED sendOps
           \/ /\ sendOps[c] > 0 /\ sendOps' = [sendOps EXCEPT ![c] = @ - 1]
              /\ UNCHANGED recvOps
    BY <1>5 DEF DequeueCompletion, DequeueRecv, DequeueSend
  <2>2. /\ pc'[w] \in {"recvCount", "dec", "sent"} /\ cur'[w] = c /\ OnlyMoves(w)
        /\ cur[w] = NoChannel /\ w \in Threads
    BY <1>0, <2>1 DEF Call, OnlyMoves, Control
  <2>3. RefsOf(w, pc[w]) = 0 /\ RefsOf(w, pc'[w]) = 1
    BY <2>1, <2>2 DEF RefsOf, Bit, PostLabels, ReleaseLabels
  <2>4. /\ recvOps[c] \in Nat /\ sendOps[c] \in Nat /\ abandoned[c] \in Nat
        /\ ioCount[c] \in Nat
    BY <1>0
  <2>5. /\ (recvOps'[c] - recvOps[c]) + (sendOps'[c] - sendOps[c])
             + (abandoned'[c] - abandoned[c]) = -1
        /\ \A d \in Channels \ {c} : recvOps'[d] = recvOps[d] /\ sendOps'[d] = sendOps[d]
    BY <1>0, <2>1, <2>4
  <2>6. ioCount'[c] - ioCount[c] =
           (recvOps'[c] - recvOps[c]) + (sendOps'[c] - sendOps[c])
             + (abandoned'[c] - abandoned[c]) + (RefsOf(w, pc'[w]) - RefsOf(w, pc[w]))
    BY <2>1, <2>3, <2>4, <2>5
  <2>7. QED
    BY <1>0, <2>1, <2>2, <2>4, <2>5, <2>6, CountKept
<1>6. ASSUME NEW a \in Apps, NEW c \in Channels, Enqueue(a, c) PROVE Goal
  <2>1. /\ pc[a] = "idle" /\ Call(a, c, "cas")
        /\ UNCHANGED <<ioCount, recvOps, sendOps, abandoned>>
    BY <1>6 DEF Enqueue
  <2>2. /\ pc'[a] = "cas" /\ cur'[a] = c /\ OnlyMoves(a) /\ cur[a] = NoChannel
        /\ a \in Threads /\ a \notin Workers
    BY <1>0, <2>1, ConstantsAssumption DEF Call, OnlyMoves, Control
  <2>3. RefsOf(a, pc[a]) = 0 /\ RefsOf(a, pc'[a]) = 0
    BY <2>1, <2>2 DEF RefsOf, Bit, PostLabels
  <2>4. QED
    BY <1>0, <2>1, <2>2, <2>3, QuietStep
<1>7. CASE (\E c \in Channels : ConnectionLost(c)) \/ UNCHANGED vars
  <2>1. UNCHANGED <<pc, cur, ioCount, recvOps, sendOps, abandoned>>
    BY <1>7 DEF ConnectionLost, vars
  <2>2. QED
    BY <1>0, <2>1, UnmovedStep DEF ThreadInv
<1>8. QED
  BY <1>3, <1>4, <1>5, <1>6, <1>7 DEF Next

(* A step keeps all types, the control flow, and the count.                *)
LEMMA ThreadInvStep ==
  ASSUME ThreadInv, RefCountExact, [Next]_vars PROVE ThreadInv' /\ RefCountExact'
<1>1. TypeOK /\ Control /\ Loops /\ ListFront
  BY DEF ThreadInv
<1>2. /\ ThreadOK' /\ SendTypeOK' /\ KernelTypeOK' /\ ListTypeOK' /\ ListFront'
      /\ ioMode' \in [Channels -> {"NONSENDING", "SENDING"}]
      /\ unguarded' \subseteq Channels
  BY <1>1, ThreadStep, SendTypeStep, KernelTypeStep, ListStep, ModeTypeStep, UnguardedGrows
<1>3. RefCountExact' /\ \A c \in Channels : ioCount'[c] \in Nat
  BY RefCountStep
<1>4. ioCount \in [Channels -> Nat]
  BY <1>1 DEF TypeOK
<1>5. \E f, x : ioCount' = ioCount \/ ioCount' = [ioCount EXCEPT ![f] = x]
  <2>1. ASSUME NEW t \in Threads, IOCountDecrement(t) \/ UndoRecv(t) \/ UndoSend(t)
        PROVE  ioCount' = [ioCount EXCEPT ![cur[t]] = ioCount[cur[t]] - 1]
    BY <2>1 DEF IOCountDecrement, UndoRecv, UndoSend, DecrementAnd
  <2>2. ASSUME NEW t \in Threads, CountRecv(t) \/ CountSend(t)
        PROVE  ioCount' = [ioCount EXCEPT ![cur[t]] = ioCount[cur[t]] + 1]
    BY <2>2 DEF CountRecv, CountSend
  <2>3. QED
    BY <2>1, <2>2, CountChange
<1>6. ioCount' \in [Channels -> Nat]
  BY <1>3, <1>4, <1>5
<1>7. TypeOK'
  BY <1>2, <1>6 DEF TypeOK, ThreadOK, ThreadTypeOK, SendTypeOK, KernelTypeOK, ListTypeOK
<1>8. QED
  BY <1>2, <1>3, <1>7 DEF ThreadInv, ThreadOK

-----------------------------------------------------------------------------
(* Which thread a step moves, and where to.                                *)

(* What can move a thread.                                                 *)
LEMMA WhoMoves ==
  ASSUME ThreadOK, [Next]_vars, NEW t \in Threads
  PROVE  \/ pc'[t] = pc[t] /\ cur'[t] = cur[t]
         \/ CallStep(t)
         \/ t = Reconnecter /\ ReconnecterStep
         \/ t \in Workers /\ \E c \in Channels : DequeueCompletion(t, c)
         \/ t \in Apps /\ \E c \in Channels : Enqueue(t, c)
<1>0. /\ pc \in [Threads -> Labels]
      /\ cur \in [Threads -> Channels \cup {NoChannel}]
      /\ Reconnecter \in Threads /\ Workers \subseteq Threads /\ Apps \subseteq Threads
  BY DEF ThreadOK, ThreadTypeOK, Threads
<1>1. ASSUME NEW u \in Threads \ {t}, NEW l, Moved(u, l)
      PROVE  pc'[t] = pc[t] /\ cur'[t] = cur[t]
  BY <1>0, <1>1 DEF Moved
<1>2. ASSUME NEW u \in Threads \ {t}, NEW c, NEW l, Call(u, c, l) \/ Goto(u, l)
      PROVE  pc'[t] = pc[t] /\ cur'[t] = cur[t]
  BY <1>0, <1>2 DEF Call, Goto
<1>3. ASSUME NEW u \in Threads \ {t}, CallStep(u) PROVE pc'[t] = pc[t] /\ cur'[t] = cur[t]
  BY <1>1, <1>3, CallMoves
<1>4. ASSUME ReconnecterStep, t # Reconnecter PROVE pc'[t] = pc[t] /\ cur'[t] = cur[t]
  BY <1>0, <1>2, <1>4 DEF ReconnecterStep, TakeReleased, NewSocket, Connect, SetConn, Bind,
                          PopFront, Unlink, Finish
<1>5. ASSUME NEW w \in Workers, NEW c \in Channels, DequeueCompletion(w, c), t # w
      PROVE  pc'[t] = pc[t] /\ cur'[t] = cur[t]
  BY <1>0, <1>2, <1>5 DEF DequeueCompletion, DequeueRecv, DequeueSend
<1>6. ASSUME NEW a \in Apps, NEW c \in Channels, Enqueue(a, c), t # a
      PROVE  pc'[t] = pc[t] /\ cur'[t] = cur[t]
  BY <1>0, <1>2, <1>6 DEF Enqueue
<1>7. (\E c \in Channels : ConnectionLost(c)) \/ UNCHANGED vars => UNCHANGED <<pc, cur>>
  BY DEF ConnectionLost, vars
<1>8. QED
  BY <1>3, <1>4, <1>5, <1>6, <1>7 DEF Next

(* The step of a thread inside a call is the one of its label.             *)
LEMMA StepAt ==
  ASSUME NEW t \in Threads, CallStep(t)
  PROVE  /\ pc[t] = "release" => ReleaseStore(t)
         /\ pc[t] = "drain" => ReleaseQueue(t)
         /\ pc[t] \in {"close", "invalidate"} => CloseSocket(t)
         /\ pc[t] = "push" => PushReconnect(t)
         /\ pc[t] = "sent" => FreeSent(t)
         /\ pc[t] = "resetMode" => ResetIOMode(t)
         /\ pc[t] = "dec" => IOCountDecrement(t)
         /\ pc[t] = "recvCount" => CountRecv(t)
         /\ pc[t] = "WSARecv" => WSARecv(t)
         /\ pc[t] = "undoRecv" => UndoRecv(t)
         /\ pc[t] = "cas" => TrySending(t)
         /\ pc[t] = "size" => UseSize(t)
         /\ pc[t] = "reset" => ResetEmpty(t)
         /\ pc[t] = "recheck" => Recheck(t)
         /\ pc[t] = "dequeue" => Dequeue(t)
         /\ pc[t] = "sendCount" => CountSend(t)
         /\ pc[t] = "WSASend" => WSASend(t)
         /\ pc[t] = "undoSend" => UndoSend(t)
         /\ pc[t] \in {"release", "drain", "close", "invalidate", "push", "sent", "resetMode",
                       "dec", "recvCount", "WSARecv", "undoRecv", "cas", "size", "reset",
                       "recheck", "dequeue", "sendCount", "WSASend", "undoSend"}
BY DEF CallStep, ReleaseStore, ReleaseQueue, CloseSocket, PushReconnect, FreeSent, ResetIOMode,
       IOCountDecrement, DecrementAnd, CountRecv, WSARecv, UndoRecv, TrySending, UseSize,
       ResetEmpty, Recheck, Dequeue, DequeueInto, CountSend, WSASend, UndoSend

(* Where the step of a label leads to.                                     *)
LEMMA StepTo ==
  ASSUME ThreadOK, NEW t \in Threads, CallStep(t)
  PROVE  LET m == pc'[t] IN
         /\ m # "idle" => cur'[t] = cur[t]
         /\ m = "idle" => cur'[t] = NoChannel
         /\ pc[t] = "release" => m = "drain"
         /\ pc[t] = "drain" => m \in {"drain", "close"}
         /\ pc[t] = "close" => m = "invalidate"
         /\ pc[t] = "invalidate" => m = "push"
         /\ pc[t] = "push" => m \in {"pop", "idle"}
         /\ pc[t] = "sent" => m = "resetMode"
         /\ pc[t] = "resetMode" => m = "cas"
         /\ pc[t] = "dec" => m \in {"idle", "release"}
         /\ pc[t] = "recvCount" => m = "WSARecv"
         /\ pc[t] = "WSARecv" => m \in {"undoRecv", "dec", "idle", "pop"}
         /\ pc[t] = "undoRecv" => m \in {"release", "dec", "idle", "pop"}
         /\ pc[t] = "cas" => m \in {"size", "dec", "idle", "pop"}
         /\ pc[t] = "size" => m \in {"reset", "dequeue"}
         /\ pc[t] = "reset" => m = "recheck"
         /\ pc[t] = "recheck" => m \in {"cas", "dec", "idle", "pop"}
         /\ pc[t] = "dequeue" => m \in {"dequeue", "sendCount"}
         /\ pc[t] = "sendCount" => m = "WSASend"
         /\ pc[t] = "WSASend" => m \in {"cas", "undoSend"}
         /\ pc[t] = "undoSend" => m \in {"release", "dec", "idle", "pop"}
<1>0. PICK m \in Labels : Moved(t, m)
  BY CallMoves
<1>1. /\ pc \in [Threads -> Labels] /\ cur \in [Threads -> Channels \cup {NoChannel}]
      /\ pc'[t] = m /\ (m # "idle" => cur'[t] = cur[t]) /\ (m = "idle" => cur'[t] = NoChannel)
  BY <1>0 DEF ThreadOK, ThreadTypeOK, Moved
<1>2. /\ \A l : Goto(t, l) \/ EndLoop(t, l) \/ (\E n : Loop(t, n, l)) => m = l
      /\ UNCHANGED pc => m = pc[t]
      /\ Finish(t) => m = "idle"
      /\ Return(t) => m \in {"dec", "idle", "pop"}
  BY <1>1, ReturnByKind DEF Goto, EndLoop, Loop, Finish, Call
<1>3. pc[t] = "release" => m = "drain"
  BY <1>2, StepAt DEF ReleaseStore
<1>4. pc[t] = "drain" => m \in {"drain", "close"}
  BY <1>2, StepAt DEF ReleaseQueue
<1>5. (pc[t] = "close" => m = "invalidate") /\ (pc[t] = "invalidate" => m = "push")
  BY <1>2, StepAt DEF CloseSocket
<1>6. pc[t] = "push" => m \in {"pop", "idle"}
  BY <1>2, StepAt DEF PushReconnect, ReturnDeleted
<1>7. (pc[t] = "sent" => m = "resetMode") /\ (pc[t] = "resetMode" => m = "cas")
  BY <1>2, StepAt DEF FreeSent, ResetIOMode
<1>8. pc[t] = "dec" => m \in {"idle", "release"}
  BY <1>2, StepAt, DecrementControl
<1>9. pc[t] = "recvCount" => m = "WSARecv"
  BY <1>2, StepAt DEF CountRecv
<1>10. pc[t] = "WSARecv" => m \in {"undoRecv", "dec", "idle", "pop"}
  BY <1>2, StepAt DEF WSARecv
<1>11. pc[t] = "undoRecv" => m \in {"release", "dec", "idle", "pop"}
  BY <1>2, StepAt, UndoRecvControl
<1>12. pc[t] = "cas" => m \in {"size", "dec", "idle", "pop"}
  BY <1>2, StepAt DEF TrySending
<1>13. pc[t] = "size" => m \in {"reset", "dequeue"}
  BY <1>2, StepAt DEF UseSize
<1>14. pc[t] = "reset" => m = "recheck"
  BY <1>2, StepAt DEF ResetEmpty
<1>15. pc[t] = "recheck" => m \in {"cas", "dec", "idle", "pop"}
  BY <1>2, StepAt DEF Recheck
<1>16. pc[t] = "dequeue" => m \in {"dequeue", "sendCount"}
  BY <1>2, StepAt DEF Dequeue, DequeueInto
<1>17. pc[t] = "sendCount" => m = "WSASend"
  BY <1>2, StepAt DEF CountSend
<1>18. pc[t] = "WSASend" => m \in {"cas", "undoSend"}
  BY <1>2, StepAt DEF WSASend
<1>19. pc[t] = "undoSend" => m \in {"release", "dec", "idle", "pop"}
  BY <1>2, StepAt, UndoSendControl
<1>20. QED
  BY <1>1, <1>3, <1>4, <1>5, <1>6, <1>7, <1>8, <1>9, <1>10, <1>11, <1>12, <1>13, <1>14,
     <1>15, <1>16, <1>17, <1>18, <1>19

(* Where the steps that begin or end a call lead to.                       *)
LEMMA BeginTo ==
  ASSUME TypeOK, Control, NEW t \in Threads
  PROVE  /\ t \in Workers => \A c \in Channels : DequeueCompletion(t, c) =>
              /\ pc[t] = "idle" /\ cur[t] = NoChannel
              /\ pc'[t] \in {"recvCount", "dec", "sent"} /\ cur'[t] = c
         /\ t \in Apps => \A c \in Channels : Enqueue(t, c) =>
              pc[t] = "idle" /\ cur[t] = NoChannel /\ pc'[t] = "cas" /\ cur'[t] = c
         /\ ReconnecterStep /\ t = Reconnecter =>
              /\ pc[t] \in {"idle", "socket", "connect", "bind", "pop", "unlink"}
              /\ pc'[t] \in {"idle", "socket", "connect", "bind", "recvCount", "unlink", "ended"}
              /\ pc[t] # "idle" /\ pc'[t] # "idle" => cur'[t] = cur[t]
              /\ pc'[t] = "socket" => TakeReleased /\ cur'[t] = reconnectList[1]
<1>0. pc \in [Threads -> Labels] /\ cur \in [Threads -> Channels \cup {NoChannel}]
  BY DEF TypeOK
<1>1. ASSUME NEW c \in Channels, DequeueCompletion(t, c), t \in Workers
      PROVE  /\ pc[t] = "idle" /\ cur[t] = NoChannel
             /\ pc'[t] \in {"recvCount", "dec", "sent"} /\ cur'[t] = c
  BY <1>0, <1>1 DEF DequeueCompletion, DequeueRecv, DequeueSend, Call, Control
<1>2. ASSUME NEW c \in Channels, Enqueue(t, c), t \in Apps
      PROVE  pc[t] = "idle" /\ cur[t] = NoChannel /\ pc'[t] = "cas" /\ cur'[t] = c
  BY <1>0, <1>2 DEF Enqueue, Call, Control
<1>3. ASSUME ReconnecterStep, t = Reconnecter
      PROVE  /\ pc[t] \in {"idle", "socket", "connect", "bind", "pop", "unlink"}
             /\ pc'[t] \in {"idle", "socket", "connect", "bind", "recvCount", "unlink", "ended"}
             /\ pc[t] # "idle" /\ pc'[t] # "idle" => cur'[t] = cur[t]
             /\ pc'[t] = "socket" => TakeReleased /\ cur'[t] = reconnectList[1]
  <2>1. CASE TakeReleased
    BY <1>0, <1>3, <2>1 DEF TakeReleased, Call, TypeOK
  <2>2. CASE NewSocket \/ Connect \/ Bind \/ PopFront \/ Unlink
    BY <1>0, <1>3, <2>2 DEF NewSocket, Connect, Bind, PopFront, Unlink, SetConn, Goto, Finish, Call
  <2>3. QED
    BY <1>3, <2>1, <2>2 DEF ReconnecterStep
<1>4. QED
  BY <1>1, <1>2, <1>3

-----------------------------------------------------------------------------
(* One sender per channel.                                                 *)

SendingLabels ==
  {"size", "reset", "dequeue", "sendCount", "WSASend", "undoSend", "sent", "resetMode"}
SendingBit(l) == Bit(l \in SendingLabels)

(* The number of a channel's sends: in flight, being prepared, or being    *)
(* taken back.                                                             *)
Sends(c) == sendOps[c] + Cardinality(Sending(c))

(* The number of users of bufStore is a natural.                           *)
LEMMA SendsType ==
  ASSUME TypeOK, NEW c \in Channels PROVE Sends(c) \in Nat /\ sendOps[c] \in Nat
BY SMTT(40), ThreadSetsFinite DEF Sends, TypeOK

(* A step of thread t on channel c changes the number of sends by what it  *)
(* changes at c.                                                           *)
LEMMA SendsChange ==
  ASSUME TypeOK, TypeOK', Control, Control', NEW t \in Threads, OnlyMoves(t),
         NEW c \in Channels, cur[t] \in {c, NoChannel}, cur'[t] \in {c, NoChannel},
         \A d \in Channels \ {c} : sendOps'[d] = sendOps[d]
  PROVE  /\ \A d \in Channels \ {c} : Sends(d)' = Sends(d)
         /\ Sends(c)' - Sends(c) =
              (sendOps'[c] - sendOps[c]) + (SendingBit(pc'[t]) - SendingBit(pc[t]))
         /\ SendingBit(pc[t]) <= Cardinality(Sending(c))
<1>1. ASSUME NEW d \in Channels
      PROVE  /\ Cardinality(Sending(d))' =
                  Cardinality(Sending(d)) - Bit(t \in Sending(d)) + Bit(t \in Sending(d)')
             /\ Bit(t \in Sending(d)) <= Cardinality(Sending(d))
             /\ Cardinality(Sending(d)) \in Nat /\ sendOps[d] \in Nat /\ sendOps'[d] \in Nat
             /\ Bit(t \in Sending(d)) \in {0, 1} /\ Bit(t \in Sending(d)') \in {0, 1}
  BY ThreadSetsChange, ThreadSetsFinite DEF TypeOK, Bit
<1>2. /\ pc[t] \in SendingLabels => cur[t] = c
      /\ pc'[t] \in SendingLabels => cur'[t] = c
  BY DEF Control, SendingLabels
<1>3. ASSUME NEW d \in Channels \ {c} PROVE t \notin Sending(d) /\ t \notin Sending(d)'
  BY ConstantsAssumption DEF Sending
<1>4. /\ t \in Sending(c) <=> pc[t] \in SendingLabels
      /\ t \in Sending(c)' <=> pc'[t] \in SendingLabels
  BY <1>2 DEF Sending, SendingLabels
<1>5. ASSUME NEW d \in Channels \ {c} PROVE Sends(d)' = Sends(d)
  <2>1. Bit(t \in Sending(d)) = 0 /\ Bit(t \in Sending(d)') = 0
    BY <1>3 DEF Bit
  <2>2. Cardinality(Sending(d))' = Cardinality(Sending(d))
    BY <1>1, <2>1
  <2>3. QED
    BY <2>2 DEF Sends
<1>6. Bit(t \in Sending(c)) = SendingBit(pc[t]) /\ Bit(t \in Sending(c)') = SendingBit(pc'[t])
  BY <1>4 DEF SendingBit, Bit
<1> DEFINE n == Cardinality(Sending(c))
<1>7. /\ n \in Nat /\ n' = n - SendingBit(pc[t]) + SendingBit(pc'[t])
      /\ SendingBit(pc[t]) \in {0, 1} /\ SendingBit(pc'[t]) \in {0, 1}
      /\ SendingBit(pc[t]) <= n /\ sendOps[c] \in Nat /\ sendOps'[c] \in Nat
      /\ Sends(c) = sendOps[c] + n /\ Sends(c)' = sendOps'[c] + n'
  BY <1>1, <1>6 DEF Sends
<1> HIDE DEF n
<1>8. /\ Sends(c)' - Sends(c) =
           (sendOps'[c] - sendOps[c]) + (SendingBit(pc'[t]) - SendingBit(pc[t]))
      /\ SendingBit(pc[t]) <= n
  BY <1>7
<1>9. QED
  BY <1>5, <1>8 DEF n

(* Such a step keeps the exclusion if it gives ioMode up when it leaves,   *)
(* and wins the exchange when it enters.                                   *)
LEMMA ExclusionKept ==
  ASSUME TypeOK, TypeOK', Control, Control', SendExclusive, NEW t \in Threads, OnlyMoves(t),
         NEW c \in Channels, cur[t] \in {c, NoChannel}, cur'[t] \in {c, NoChannel},
         \A d \in Channels \ {c} : sendOps'[d] = sendOps[d] /\ ioMode'[d] = ioMode[d],
         NEW k \in {-1, 0, 1},
         (sendOps'[c] - sendOps[c]) + (SendingBit(pc'[t]) - SendingBit(pc[t])) = k,
         k = 1 => ioMode[c] = "NONSENDING" /\ ioMode'[c] = "SENDING",
         k # -1 /\ ioMode'[c] = "NONSENDING" => ioMode[c] = "NONSENDING"
  PROVE  SendExclusive'
<1>1. /\ \A d \in Channels \ {c} : Sends(d)' = Sends(d)
      /\ Sends(c)' - Sends(c) = k
  BY SendsChange
<1>2. Sends(c) \in Nat /\ Sends(c)' \in Nat
  <2>1. Sends(c)' \in Nat
    <3>1. Sending(c)' \in SUBSET Threads
      BY DEF Sending
    <3>2. sendOps'[c] \in Nat
      BY DEF TypeOK
    <3>3. QED
      BY <3>1, <3>2, SetOfThreads DEF Sends
  <2>2. QED
    BY <2>1, SendsType
<1>3. \A d \in Channels : Sends(d) <= 1 /\ (ioMode[d] = "NONSENDING" => Sends(d) = 0)
  BY DEF SendExclusive, Sends
<1>4. Sends(c)' <= 1 /\ (ioMode'[c] = "NONSENDING" => Sends(c)' = 0)
  <2>1. CASE k = -1
    BY <1>1, <1>2, <1>3, <2>1
  <2>2. CASE k = 0
    BY <1>1, <1>2, <1>3, <2>2
  <2>3. CASE k = 1
    BY <1>1, <1>2, <1>3, <2>3
  <2>4. QED
    BY <2>1, <2>2, <2>3
<1>5. \A d \in Channels : Sends(d)' <= 1 /\ (ioMode'[d] = "NONSENDING" => Sends(d)' = 0)
  BY <1>1, <1>3, <1>4
<1>6. QED
  BY <1>5 DEF SendExclusive, Sends

(* Every step keeps bufStore with one user.                                *)
LEMMA SendExclusiveStep ==
  ASSUME ThreadInv, ThreadInv', SendExclusive, [Next]_vars PROVE SendExclusive'
<1>0. /\ TypeOK /\ TypeOK' /\ Control /\ Control' /\ ThreadOK
      /\ pc \in [Threads -> Labels] /\ cur \in [Threads -> Channels \cup {NoChannel}]
      /\ sendOps \in [Channels -> Nat] /\ NoChannel \notin Channels
      /\ ioMode \in [Channels -> {"NONSENDING", "SENDING"}]
      /\ Reconnecter \in Threads /\ Workers \subseteq Threads /\ Apps \subseteq Threads
  BY ConstantsAssumption DEF ThreadInv, ThreadOK, ThreadTypeOK, TypeOK, Threads
<1>1. \A t \in Threads : pc[t] # "idle" => cur[t] \in Channels
  BY <1>0 DEF Control
<1>2. ASSUME UNCHANGED <<sendOps, ioMode, pc, cur>> PROVE SendExclusive'
  BY <1>2 DEF SendExclusive, Sending
(* Steps that leave ioMode and the sends alone.                            *)
<1>3. ASSUME NEW t \in Threads, OnlyMoves(t), NEW c \in Channels, UNCHANGED <<sendOps, ioMode>>,
             cur[t] \in {c, NoChannel}, cur'[t] \in {c, NoChannel},
             pc'[t] \in SendingLabels => pc[t] \in SendingLabels
      PROVE  SendExclusive'
  <2>1. sendOps[c] \in Nat /\ SendingBit(pc[t]) \in {0, 1} /\ SendingBit(pc'[t]) \in {0, 1}
        /\ SendingBit(pc'[t]) <= SendingBit(pc[t])
    BY <1>0, <1>3 DEF SendingBit, Bit
  <2>2. PICK k \in {-1, 0} : SendingBit(pc'[t]) - SendingBit(pc[t]) = k
    BY <2>1
  <2>3. (sendOps'[c] - sendOps[c]) + (SendingBit(pc'[t]) - SendingBit(pc[t])) = k
    BY <1>3, <2>1, <2>2
  <2>4. QED
    BY <1>0, <1>3, <2>3, ExclusionKept
<1>4. ASSUME NEW t \in Threads, CallStep(t) PROVE SendExclusive'
  <2> DEFINE c == cur[t]
  <2>1. /\ c \in Channels /\ OnlyMoves(t) /\ cur'[t] \in {c, NoChannel}
        /\ pc[t] # "idle" /\ pc[t] \in Labels /\ sendOps[c] \in Nat
    <3>1. pc[t] # "idle"
      BY <1>4, StepAt
    <3>2. PICK m \in Labels : Moved(t, m)
      BY <1>0, <1>4, CallMoves
    <3>3. QED
      BY <1>0, <1>1, <3>1, <3>2 DEF Moved, OnlyMoves
  <2>2. CASE pc[t] = "cas"
    <3>1. /\ UNCHANGED sendOps
          /\ \/ UNCHANGED ioMode /\ pc'[t] # "size"
             \/ /\ pc'[t] = "size" /\ ioMode[c] # "SENDING"
                /\ ioMode' = [ioMode EXCEPT ![c] = "SENDING"]
      <4>1. TrySending(t)
        BY <1>4, <2>2, StepAt
      <4>2. Return(t) => pc'[t] # "size"
        BY <1>0, ReturnByKind DEF Goto, Finish, Call
      <4>3. QED
        BY <1>0, <4>1, <4>2 DEF TrySending, Goto
    <3>2. CASE UNCHANGED ioMode /\ pc'[t] # "size"
      <4>1. pc'[t] \notin SendingLabels
        BY <1>0, <1>4, <2>2, <3>2, StepTo DEF SendingLabels
      <4>2. QED
        BY <1>3, <2>1, <3>1, <3>2, <4>1
    <3>3. CASE /\ pc'[t] = "size" /\ ioMode[c] # "SENDING"
               /\ ioMode' = [ioMode EXCEPT ![c] = "SENDING"]
      <4>1. SendingBit(pc[t]) = 0 /\ SendingBit(pc'[t]) = 1
        BY <2>2, <3>3 DEF SendingBit, SendingLabels, Bit
      <4>2. (sendOps'[c] - sendOps[c]) + (SendingBit(pc'[t]) - SendingBit(pc[t])) = 1
        BY <2>1, <3>1, <4>1
      <4>3. ioMode[c] = "NONSENDING" /\ ioMode'[c] = "SENDING"
            /\ \A d \in Channels \ {c} : ioMode'[d] = ioMode[d]
        BY <1>0, <2>1, <3>3
      <4>4. QED
        BY <1>0, <2>1, <3>1, <4>2, <4>3, ExclusionKept
    <3>4. QED
      BY <3>1, <3>2, <3>3
  <2>3. CASE pc[t] \in {"resetMode", "reset"}
    <3>1. /\ UNCHANGED sendOps /\ pc'[t] \in {"cas", "recheck"}
          /\ ioMode' = [ioMode EXCEPT ![c] = "NONSENDING"]
      <4>1. ResetIOMode(t) \/ ResetEmpty(t)
        BY <1>4, <2>3, StepAt
      <4>2. QED
        BY <1>0, <4>1 DEF ResetIOMode, ResetEmpty, Goto
    <3>2. SendingBit(pc[t]) = 1 /\ SendingBit(pc'[t]) = 0
      BY <2>3, <3>1 DEF SendingBit, SendingLabels, Bit
    <3>3. (sendOps'[c] - sendOps[c]) + (SendingBit(pc'[t]) - SendingBit(pc[t])) = -1
      BY <2>1, <3>1, <3>2
    <3>4. \A d \in Channels \ {c} : ioMode'[d] = ioMode[d]
      BY <1>0, <3>1
    <3>5. QED
      BY <1>0, <2>1, <3>1, <3>3, <3>4, ExclusionKept
  <2>4. CASE pc[t] = "WSASend"
    <3>1. /\ UNCHANGED ioMode
          /\ \/ UNCHANGED sendOps
             \/ sendOps' = [sendOps EXCEPT ![c] = @ + 1] /\ pc'[t] = "cas"
      <4>1. WSASend(t)
        BY <1>4, <2>4, StepAt
      <4>2. QED
        BY <1>0, <4>1 DEF WSASend, Goto
    <3>2. CASE UNCHANGED sendOps
      BY <1>3, <2>1, <2>4, <3>1, <3>2 DEF SendingLabels
    <3>3. CASE sendOps' = [sendOps EXCEPT ![c] = @ + 1] /\ pc'[t] = "cas"
      <4>1. SendingBit(pc[t]) = 1 /\ SendingBit(pc'[t]) = 0
        BY <2>4, <3>3 DEF SendingBit, SendingLabels, Bit
      <4>2. sendOps'[c] = sendOps[c] + 1 /\ \A d \in Channels \ {c} : sendOps'[d] = sendOps[d]
        BY <1>0, <2>1, <3>3
      <4>3. (sendOps'[c] - sendOps[c]) + (SendingBit(pc'[t]) - SendingBit(pc[t])) = 0
        BY <2>1, <4>1, <4>2
      <4>4. QED
        BY <1>0, <2>1, <3>1, <4>2, <4>3, ExclusionKept
    <3>4. QED
      BY <3>1, <3>2, <3>3
  <2>5. CASE pc[t] \notin {"cas", "resetMode", "reset", "WSASend"}
    <3>1. UNCHANGED <<sendOps, ioMode>>
      <4>1. ~TrySending(t) /\ ~ResetIOMode(t) /\ ~ResetEmpty(t) /\ ~WSASend(t)
        BY <2>5 DEF TrySending, ResetIOMode, ResetEmpty, WSASend
      <4>2. QED
        BY <1>4, <4>1
           DEF CallStep, ReleaseStore, ReleaseQueue, CloseSocket, PushReconnect, FreeSent,
               IOCountDecrement, DecrementAnd, CountRecv, WSARecv, UndoRecv, UseSize, Recheck,
               Dequeue, DequeueInto, CountSend, UndoSend
    <3>2. pc'[t] \in SendingLabels => pc[t] \in SendingLabels
      BY <1>0, <1>4, <2>5, StepTo, StepAt DEF SendingLabels
    <3>3. QED
      BY <1>3, <2>1, <3>1, <3>2
  <2>6. QED
    BY <2>2, <2>3, <2>4, <2>5
<1>5. ASSUME ReconnecterStep PROVE SendExclusive'
  <2> DEFINE r == Reconnecter
  <2>1. /\ UNCHANGED <<sendOps, ioMode>> /\ OnlyMoves(r)
    <3>1. \E l : \E c : Call(r, c, l) \/ Goto(r, l)
      BY <1>5 DEF ReconnecterStep, TakeReleased, NewSocket, Connect, SetConn, Bind,
                  PopFront, Unlink, Finish
    <3>2. OnlyMoves(r)
      BY <1>0, <3>1 DEF Call, Goto, OnlyMoves
    <3>3. QED
      BY <1>5, <3>2 DEF ReconnecterStep, TakeReleased, NewSocket, Connect, Bind, PopFront, Unlink
  <2>2. /\ pc[r] # "idle" /\ pc'[r] # "idle" => cur'[r] = cur[r]
        /\ pc[r] # "idle" \/ pc'[r] # "idle"
    <3>1. pc[r] = "idle" => TakeReleased
      BY <1>5 DEF ReconnecterStep, NewSocket, Connect, Bind, PopFront, Unlink
    <3>2. TakeReleased => pc'[r] = "socket"
      BY <1>0 DEF TakeReleased, Call
    <3>3. QED
      BY <1>0, <1>5, <3>1, <3>2, BeginTo
  <2>3. \E c \in Channels : cur[r] \in {c, NoChannel} /\ cur'[r] \in {c, NoChannel}
    <3>1. (pc[r] = "idle" <=> cur[r] = NoChannel) /\ (pc'[r] = "idle" <=> cur'[r] = NoChannel)
      BY <1>0 DEF Control
    <3>2. cur[r] \in Channels \cup {NoChannel} /\ cur'[r] \in Channels \cup {NoChannel}
      BY <1>0 DEF TypeOK
    <3>3. QED
      BY <2>2, <3>1, <3>2
  <2>4. pc'[r] \notin SendingLabels
    BY <1>0, <1>5, BeginTo DEF SendingLabels
  <2>5. QED
    BY <1>0, <1>3, <2>1, <2>3, <2>4
<1>6. ASSUME NEW w \in Workers, NEW c \in Channels, DequeueRecv(w, c) PROVE SendExclusive'
  <2>1. UNCHANGED <<sendOps, ioMode>> /\ (Call(w, c, "recvCount") \/ Call(w, c, "dec"))
    BY <1>6 DEF DequeueRecv
  <2>2. /\ OnlyMoves(w) /\ cur'[w] = c /\ pc'[w] \notin SendingLabels /\ cur[w] = NoChannel
        /\ w \in Threads
    BY <1>0, <1>6, <2>1 DEF DequeueRecv, Call, OnlyMoves, SendingLabels, Control
  <2>3. QED
    BY <1>3, <2>1, <2>2
<1>7. ASSUME NEW w \in Workers, NEW c \in Channels, DequeueSend(w, c) PROVE SendExclusive'
  <2>1. /\ sendOps[c] > 0 /\ sendOps' = [sendOps EXCEPT ![c] = @ - 1] /\ UNCHANGED ioMode
        /\ Call(w, c, "sent") /\ pc[w] = "idle"
    BY <1>7 DEF DequeueSend
  <2>2. /\ OnlyMoves(w) /\ cur'[w] = c /\ pc'[w] = "sent" /\ cur[w] = NoChannel /\ w \in Threads
    BY <1>0, <2>1 DEF Call, OnlyMoves, Control
  <2>3. SendingBit(pc[w]) = 0 /\ SendingBit(pc'[w]) = 1
    BY <2>1, <2>2 DEF SendingBit, SendingLabels, Bit
  <2>4. /\ sendOps[c] \in Nat /\ sendOps'[c] = sendOps[c] - 1
        /\ \A d \in Channels \ {c} : sendOps'[d] = sendOps[d]
    BY <1>0, <2>1
  <2>5. (sendOps'[c] - sendOps[c]) + (SendingBit(pc'[w]) - SendingBit(pc[w])) = 0
    BY <2>3, <2>4
  <2>6. QED
    BY <1>0, <2>1, <2>2, <2>4, <2>5, ExclusionKept
<1>8. ASSUME NEW a \in Apps, NEW c \in Channels, Enqueue(a, c) PROVE SendExclusive'
  <2>1. UNCHANGED <<sendOps, ioMode>> /\ Call(a, c, "cas") /\ pc[a] = "idle"
    BY <1>8 DEF Enqueue
  <2>2. /\ OnlyMoves(a) /\ cur'[a] = c /\ pc'[a] \notin SendingLabels /\ cur[a] = NoChannel
        /\ a \in Threads
    BY <1>0, <2>1 DEF Call, OnlyMoves, SendingLabels, Control
  <2>3. QED
    BY <1>3, <2>1, <2>2
<1>9. CASE (\E c \in Channels : ConnectionLost(c)) \/ UNCHANGED vars
  BY <1>2, <1>9 DEF ConnectionLost, vars
<1>10. QED
  BY <1>4, <1>5, <1>6, <1>7, <1>8, <1>9 DEF Next, DequeueCompletion

-----------------------------------------------------------------------------
(* Who sends without references.                                           *)

UnguardedLabels == {"size", "reset", "dequeue", "sendCount"}

(* A thread gets there by the exchange only.                               *)
LEMMA EntersByExchange ==
  ASSUME ThreadInv, [Next]_vars, NEW t \in Threads, pc'[t] \in UnguardedLabels
  PROVE  /\ cur'[t] = cur[t]
         /\ pc[t] \in UnguardedLabels \/ (TrySending(t) /\ pc'[t] = "size")
<1>0. TypeOK /\ Control /\ ThreadOK
  BY DEF ThreadInv, TypeOK, ThreadOK, ThreadTypeOK
<1>1. CASE pc'[t] = pc[t] /\ cur'[t] = cur[t]
  BY <1>1
<1>2. CASE CallStep(t)
  <2>1. pc[t] \in UnguardedLabels \/ (pc[t] = "cas" /\ pc'[t] = "size")
    BY <1>0, <1>2, StepTo, StepAt DEF UnguardedLabels
  <2>2. cur'[t] = cur[t]
    BY <1>0, <1>2, StepTo DEF UnguardedLabels
  <2>3. QED
    BY <1>2, <2>1, <2>2, StepAt
<1>3. CASE t = Reconnecter /\ ReconnecterStep
  BY <1>0, <1>3, BeginTo DEF UnguardedLabels
<1>4. CASE t \in Workers /\ \E c \in Channels : DequeueCompletion(t, c)
  BY <1>0, <1>4, BeginTo DEF UnguardedLabels
<1>5. CASE t \in Apps /\ \E c \in Channels : Enqueue(t, c)
  BY <1>0, <1>5, BeginTo DEF UnguardedLabels
<1>6. QED
  BY <1>0, <1>1, <1>2, <1>3, <1>4, <1>5, WhoMoves

(* A channel whose count becomes 0 is released by the thread that gave the *)
(* last reference up.                                                      *)
LEMMA LastReference ==
  ASSUME ThreadInv, RefCountExact, [Next]_vars, NEW c \in Channels,
         ioCount[c] # 0, ioCount'[c] = 0
  PROVE  \E t \in Threads :
           /\ cur[t] = c /\ cur'[t] = c /\ pc'[t] = "release" /\ OnlyMoves(t)
           /\ pc[t] \in {"dec", "undoRecv", "undoSend"}
           /\ Unguarded(c) => c \in unguarded'
           /\ UNCHANGED <<kernelVars, sendVars, listVars, ioMode>>
<1>0. /\ TypeOK /\ Control /\ ThreadOK /\ ThreadOK' /\ KernelTypeOK'
      /\ ioCount \in [Channels -> Nat]
  BY ThreadStep, KernelTypeStep DEF ThreadInv, TypeOK, ThreadOK, ThreadTypeOK
<1>1. \A t \in Threads : ~CountRecv(t) /\ ~CountSend(t)
  <2>1. ASSUME NEW t \in Threads, CountRecv(t) \/ CountSend(t) PROVE FALSE
    <3>1. ioCount' = [ioCount EXCEPT ![cur[t]] = ioCount[cur[t]] + 1]
      BY <2>1 DEF CountRecv, CountSend
    <3>2. ioCount'[c] = ioCount[c] \/ ioCount'[c] = ioCount[c] + 1
      BY <1>0, <3>1
    <3>3. QED
      BY <1>0, <3>2
  <2>2. QED
    BY <2>1
<1>2. ~UNCHANGED ioCount
  OBVIOUS
<1>3. PICK t \in Threads : IOCountDecrement(t) \/ UndoRecv(t) \/ UndoSend(t)
  BY <1>1, <1>2, CountChange
<1>4. /\ pc[t] \in {"dec", "undoRecv", "undoSend"}
      /\ DecrementAnd(t, IF pc[t] = "dec" THEN Finish(t) ELSE Return(t))
      /\ pc[t] = "dec" => t \in Workers
  BY <1>0, <1>3, DecrementForms
<1>5. /\ ioCount' = [ioCount EXCEPT ![cur[t]] = @ - 1]
      /\ ioCount'[cur[t]] = 0 => /\ Goto(t, "release")
                                 /\ Unguarded(cur[t]) => cur[t] \in unguarded'
      /\ UNCHANGED <<kernelVars, sendVars, listVars, ioMode>>
  BY <1>4 DEF DecrementAnd
<1>6. cur[t] = c
  BY <1>0, <1>5
<1>7. OnlyMoves(t) /\ pc'[t] = "release" /\ cur'[t] = cur[t]
  BY <1>0, <1>4, <1>6, DecrementStep
<1>8. QED
  BY <1>4, <1>5, <1>6, <1>7

(* Every step keeps senders of guarded channels protected by a reference.  *)
LEMMA SendersGuardedStep ==
  ASSUME ThreadInv, RefCountExact, SendersGuarded, [Next]_vars PROVE SendersGuarded'
<1>0. TypeOK /\ Control /\ ThreadOK /\ Apps \subseteq Threads /\ unguarded \subseteq unguarded'
  BY UnguardedGrows DEF ThreadInv, TypeOK, ThreadOK, ThreadTypeOK, Threads
<1>1. SUFFICES ASSUME NEW c \in Channels, c \notin unguarded', ioCount'[c] = 0, Unguarded(c)'
               PROVE  FALSE
  BY DEF SendersGuarded, Guarded
<1>2. c \notin unguarded
  BY <1>0, <1>1
<1>3. ioCount[c] = 0
  <2>1. SUFFICES ASSUME ioCount[c] # 0 PROVE FALSE
    OBVIOUS
  <2>2. PICK t \in Threads : /\ OnlyMoves(t) /\ pc'[t] = "release"
                             /\ Unguarded(c) => c \in unguarded'
    BY <1>1, <2>1, LastReference
  <2>3. PICK a \in Apps : cur'[a] = c /\ pc'[a] \in UnguardedLabels
    BY <1>1 DEF Unguarded, UnguardedLabels
  <2>4. a # t
    BY <2>2, <2>3 DEF UnguardedLabels
  <2>5. cur[a] = c /\ pc[a] \in UnguardedLabels
    BY <1>0, <2>2, <2>3, <2>4 DEF OnlyMoves
  <2>6. Unguarded(c)
    BY <2>5 DEF Unguarded, UnguardedLabels
  <2>7. QED
    BY <1>1, <2>2, <2>6
<1>4. ~Unguarded(c)
  BY <1>2, <1>3 DEF SendersGuarded, Guarded
<1>5. PICK a \in Apps : cur'[a] = c /\ pc'[a] \in UnguardedLabels
  BY <1>1 DEF Unguarded, UnguardedLabels
<1>6. cur[a] = c /\ (pc[a] \in UnguardedLabels \/ (TrySending(a) /\ pc'[a] = "size"))
  BY <1>0, <1>5, EntersByExchange
<1>7. CASE pc[a] \in UnguardedLabels
  BY <1>4, <1>6, <1>7 DEF Unguarded, UnguardedLabels
<1>8. CASE TrySending(a) /\ pc'[a] = "size"
  <2>1. ~Return(a)
    BY <1>0, <1>8, ReturnMoves DEF Moved, ThreadOK, ThreadTypeOK
  <2>2. c \in unguarded'
    BY <1>3, <1>6, <1>8, <2>1 DEF TrySending
  <2>3. QED
    BY <1>1, <2>2
<1>9. QED
  BY <1>6, <1>7, <1>8

-----------------------------------------------------------------------------
(* No lost wakeup.                                                         *)

(* Every step keeps somebody who will look at a queue that is not empty.   *)
LEMMA NoLostWakeupStep ==
  ASSUME ThreadInv, NoLostWakeup, [Next]_vars PROVE NoLostWakeup'
<1>0. /\ TypeOK /\ Control /\ ThreadOK /\ Apps \subseteq Threads
      /\ pc \in [Threads -> Labels] /\ cur \in [Threads -> Channels \cup {NoChannel}]
      /\ ioMode \in [Channels -> {"NONSENDING", "SENDING"}]
  BY DEF ThreadInv, TypeOK, ThreadOK, ThreadTypeOK, Threads
<1>1. SUFFICES ASSUME NEW c \in Channels, sendQ'[c] # <<>>, ioMode'[c] = "NONSENDING"
               PROVE  \E t \in Threads : cur'[t] = c /\ pc'[t] \in {"cas", "recheck"}
  BY DEF NoLostWakeup
(* The thread that saw the packet before.                                  *)
<1>2. CASE sendQ[c] # <<>> /\ ioMode[c] = "NONSENDING"
  <2>1. PICK t \in Threads : cur[t] = c /\ pc[t] \in {"cas", "recheck"}
    BY <1>2 DEF NoLostWakeup
  <2>2. CASE pc'[t] = pc[t] /\ cur'[t] = cur[t]
    BY <2>1, <2>2
  <2>3. CASE CallStep(t)
    <3>1. CASE pc[t] = "cas"
      <4>1. ioMode' = [ioMode EXCEPT ![c] = "SENDING"]
        BY <1>2, <2>1, <2>3, <3>1, StepAt DEF TrySending
      <4>2. QED
        BY <1>0, <1>1, <4>1
    <3>2. CASE pc[t] = "recheck"
      <4>1. Goto(t, "cas")
        BY <1>2, <2>1, <2>3, <3>2, StepAt DEF Recheck
      <4>2. QED
        BY <1>0, <2>1, <4>1 DEF Goto
    <3>3. QED
      BY <2>1, <3>1, <3>2
  <2>4. CASE \/ t = Reconnecter /\ ReconnecterStep
             \/ t \in Workers /\ \E d \in Channels : DequeueCompletion(t, d)
             \/ t \in Apps /\ \E d \in Channels : Enqueue(t, d)
    BY <1>0, <2>1, <2>4, BeginTo
  <2>5. QED
    BY <1>0, <2>2, <2>3, <2>4, WhoMoves
(* A packet was enqueued.                                                  *)
<1>3. CASE sendQ[c] = <<>>
  <2>1. PICK a \in Apps, d \in Channels : Enqueue(a, d)
    <3>1. ASSUME NEW t \in Threads, \/ ReleaseStore(t) \/ ReleaseQueue(t) \/ FreeSent(t)
                                    \/ Dequeue(t) \/ WSASend(t)
          PROVE  FALSE
      <4>1. \/ sendQ' = sendQ
            \/ sendQ[cur[t]] # <<>> /\ sendQ' = [sendQ EXCEPT ![cur[t]] = Tail(@)]
        BY <3>1 DEF ReleaseStore, ReleaseQueue, FreeSent, Dequeue, DequeueInto, WSASend
      <4>2. sendQ'[c] = sendQ[c]
        BY <1>0, <1>3, <4>1 DEF TypeOK
      <4>3. QED
        BY <1>1, <1>3, <4>2
    <3>2. ~UNCHANGED sendVars
      BY <1>1, <1>3
    <3>3. QED
      BY <3>1, <3>2, SendChange
  <2>2. sendQ'[d] # sendQ[d] /\ Call(a, d, "cas")
        /\ \A e \in Channels \ {d} : sendQ'[e] = sendQ[e]
    <3>1. /\ Call(a, d, "cas") /\ handed' = [handed EXCEPT ![d] = @ + 1]
          /\ sendQ' = [sendQ EXCEPT ![d] = Append(@, handed'[d])]
          /\ handed[d] < MaxPackets
      BY <2>1 DEF Enqueue
    <3>2. sendQ[d] \in Seq(Packets) /\ handed'[d] \in Packets /\ sendQ \in [Channels -> Seq(Packets)]
      <4>1. /\ sendQ \in [Channels -> Seq(Packets)] /\ handed \in [Channels -> 0..MaxPackets]
            /\ MaxPackets \in Nat
        BY <1>0, ConstantsAssumption DEF TypeOK
      <4>2. handed'[d] = handed[d] + 1 /\ handed[d] \in 0..MaxPackets
        BY <3>1, <4>1
      <4>3. handed'[d] \in Packets
        BY <3>1, <4>1, <4>2 DEF Packets
      <4>4. QED
        BY <4>1, <4>3
    <3>3. Append(sendQ[d], handed'[d]) # sendQ[d]
      BY <3>2, AppendProperties
    <3>4. QED
      BY <3>1, <3>2, <3>3
  <2>3. d = c
    BY <1>1, <1>3, <2>2
  <2>4. cur'[a] = c /\ pc'[a] = "cas"
    BY <1>0, <2>2, <2>3 DEF Call
  <2>5. QED
    BY <1>0, <2>4
(* ioMode was given back.                                                  *)
<1>4. CASE ioMode[c] # "NONSENDING"
  <2>1. PICK t \in Threads : ResetIOMode(t) \/ ResetEmpty(t)
    <3>1. ASSUME NEW t \in Threads, TrySending(t) PROVE FALSE
      <4>1. ioMode' = ioMode \/ ioMode' = [ioMode EXCEPT ![cur[t]] = "SENDING"]
        BY <3>1 DEF TrySending
      <4>2. QED
        BY <1>0, <1>1, <1>4, <4>1
    <3>2. QED
      BY <1>1, <1>4, <3>1, ModeChange
  <2>2. /\ ioMode' = [ioMode EXCEPT ![cur[t]] = "NONSENDING"]
        /\ Goto(t, "cas") \/ Goto(t, "recheck")
    BY <2>1 DEF ResetIOMode, ResetEmpty
  <2>3. cur[t] = c
    BY <1>0, <1>1, <1>4, <2>2
  <2>4. QED
    BY <1>0, <2>2, <2>3 DEF Goto
<1>5. QED
  BY <1>2, <1>3, <1>4

-----------------------------------------------------------------------------
(* Channels without references.                                            *)

(* Nothing is in flight on such a channel, no worker handles it and no     *)
(* thread is about to post.                                                *)
LEMMA DeadChannel ==
  ASSUME ThreadInv, RefCountExact, NEW c \in Channels, ioCount[c] = 0,
         NEW t \in Threads, cur[t] = c
  PROVE  /\ recvOps[c] = 0 /\ sendOps[c] = 0
         /\ pc[t] \notin PostLabels
         /\ t \in Workers => pc[t] \in ReleaseLabels
<1>0. /\ TypeOK /\ Control /\ ThreadOK /\ pc[t] \in Labels /\ NoChannel \notin Channels
      /\ recvOps[c] \in Nat /\ sendOps[c] \in Nat
  BY ConstantsAssumption DEF ThreadInv, TypeOK, ThreadOK, ThreadTypeOK
<1>1. /\ Refs(t, c) \in Nat /\ recvOps[c] + sendOps[c] + Refs(t, c) <= 0
  BY <1>0, ReferencesCounted
<1>2. recvOps[c] = 0 /\ sendOps[c] = 0 /\ Refs(t, c) = 0
  BY <1>0, <1>1
<1>3. RefsOf(t, pc[t]) = 0
  BY <1>0, <1>2, RefsAt
<1>4. pc[t] # "idle"
  BY <1>0 DEF Control
<1>5. QED
  BY <1>0, <1>2, <1>3, <1>4, RefsOfValues

(* Only the reconnecter gives a channel its first reference back.          *)
LEMMA CountRises ==
  ASSUME ThreadInv, RefCountExact, SendersGuarded, [Next]_vars, NEW c \in Guarded,
         ioCount[c] = 0, ioCount'[c] # 0
  PROVE  CountRecv(Reconnecter) /\ cur[Reconnecter] = c
<1>0. /\ TypeOK /\ Control /\ ThreadOK /\ ThreadOK' /\ KernelTypeOK' /\ c \in Channels
      /\ ioCount \in [Channels -> Nat]
  BY ThreadStep, KernelTypeStep DEF ThreadInv, TypeOK, ThreadOK, ThreadTypeOK, Guarded
<1>1. PICK t \in Threads : \/ IOCountDecrement(t) \/ UndoRecv(t) \/ UndoSend(t)
                           \/ CountRecv(t) \/ CountSend(t)
  BY CountChange
<1>2. ASSUME IOCountDecrement(t) \/ UndoRecv(t) \/ UndoSend(t) PROVE FALSE
  <2>1. /\ pc[t] \in {"dec", "undoRecv", "undoSend"}
        /\ DecrementAnd(t, IF pc[t] = "dec" THEN Finish(t) ELSE Return(t))
        /\ pc[t] = "dec" => t \in Workers
    BY <1>0, <1>2, DecrementForms
  <2>2. ioCount' = [ioCount EXCEPT ![cur[t]] = @ - 1]
    BY <2>1 DEF DecrementAnd
  <2>3. ioCount[cur[t]] > 0
    BY <1>0, <2>1, DecrementStep DEF ThreadInv
  <2>4. cur[t] = c
    BY <1>0, <2>2
  <2>5. QED
    BY <2>3, <2>4
<1>3. cur[t] = c
  <2>1. ioCount' = [ioCount EXCEPT ![cur[t]] = @ + 1]
    BY <1>1, <1>2 DEF CountRecv, CountSend
  <2>2. QED
    BY <1>0, <2>1
<1>4. t \notin Workers
  <2>1. pc[t] \in {"recvCount", "sendCount"}
    BY <1>1, <1>2 DEF CountRecv, CountSend
  <2>2. QED
    BY <1>0, <1>3, <2>1, DeadChannel DEF ReleaseLabels
<1>5. t \notin Apps
  <2>1. SUFFICES ASSUME t \in Apps PROVE FALSE
    OBVIOUS
  <2>2. CASE CountRecv(t)
    BY <1>0, <2>1, <2>2, SendersAndReceivers DEF CountRecv
  <2>3. CASE CountSend(t)
    BY <1>3, <2>1, <2>3 DEF CountSend, SendersGuarded, Unguarded
  <2>4. QED
    BY <1>1, <1>2, <2>2, <2>3
<1>6. t = Reconnecter
  BY <1>4, <1>5 DEF Threads
<1>7. ~CountSend(t)
  BY <1>0, <1>4, <1>5, SendersAndReceivers DEF CountSend, SendLabels
<1>8. QED
  BY <1>1, <1>2, <1>3, <1>6, <1>7

(* A thread releases the channel whose last reference it gave up.          *)
LEMMA EntersRelease ==
  ASSUME ThreadInv, RefCountExact, [Next]_vars, NEW t \in Threads, pc'[t] \in ReleaseLabels
  PROVE  /\ cur'[t] = cur[t]
         /\ \/ pc[t] \in ReleaseLabels
            \/ /\ CallStep(t) /\ pc'[t] # pc[t]
               /\ ioCount[cur[t]] # 0 /\ ioCount'[cur[t]] = 0
<1>0. /\ TypeOK /\ Control /\ ThreadOK /\ ThreadOK' /\ KernelTypeOK'
      /\ pc \in [Threads -> Labels]
  BY ThreadStep, KernelTypeStep DEF ThreadInv, TypeOK, ThreadOK, ThreadTypeOK
<1>1. CASE pc'[t] = pc[t] /\ cur'[t] = cur[t]
  BY <1>1
<1>2. CASE CallStep(t)
  <2>1. cur'[t] = cur[t]
    BY <1>0, <1>2, StepTo DEF ReleaseLabels
  <2>2. SUFFICES ASSUME pc[t] \notin ReleaseLabels
                 PROVE  /\ pc'[t] # pc[t]
                        /\ ioCount[cur[t]] # 0 /\ ioCount'[cur[t]] = 0
    BY <1>2, <2>1
  <2>3. pc[t] \in {"dec", "undoRecv", "undoSend"} /\ pc'[t] = "release"
    BY <1>0, <1>2, <2>2, StepTo, StepAt DEF ReleaseLabels
  <2>4. IOCountDecrement(t) \/ UndoRecv(t) \/ UndoSend(t)
    BY <1>2, <2>3, StepAt
  <2>5. /\ DecrementAnd(t, IF pc[t] = "dec" THEN Finish(t) ELSE Return(t))
        /\ pc[t] = "dec" => t \in Workers
    BY <1>0, <2>4, DecrementForms
  <2>6. ioCount[cur[t]] > 0
    BY <1>0, <2>3, <2>5, DecrementStep DEF ThreadInv
  <2>7. ~(IF pc[t] = "dec" THEN Finish(t) ELSE Return(t))
    <3>1. ~Finish(t)
      BY <1>0, <2>3 DEF Finish, Call
    <3>2. ~Return(t)
      BY <1>0, <2>3, ReturnMoves DEF Moved
    <3>3. QED
      BY <3>1, <3>2
  <2>8. ioCount'[cur[t]] = 0
    BY <2>5, <2>7 DEF DecrementAnd
  <2>9. QED
    BY <2>3, <2>6, <2>8
<1>3. CASE t = Reconnecter /\ ReconnecterStep
  BY <1>0, <1>3, BeginTo DEF ReleaseLabels
<1>4. CASE t \in Workers /\ \E c \in Channels : DequeueCompletion(t, c)
  BY <1>0, <1>4, BeginTo DEF ReleaseLabels
<1>5. CASE t \in Apps /\ \E c \in Channels : Enqueue(t, c)
  BY <1>0, <1>5, BeginTo DEF ReleaseLabels
<1>6. QED
  BY <1>0, <1>1, <1>2, <1>3, <1>4, <1>5, WhoMoves

(* The reconnecter is done with the front of the list when it has counted  *)
(* the first receive, and begins with the next after Unlink.               *)
LEMMA ReconnecterPhase ==
  ASSUME ThreadInv, [Next]_vars
  PROVE  /\ pc[Reconnecter] \in Reconnected /\ pc'[Reconnecter] \notin Reconnected => Unlink
         /\ pc[Reconnecter] \notin Reconnected /\ pc'[Reconnecter] \in Reconnected =>
              CountRecv(Reconnecter)
         /\ Unlink => pc[Reconnecter] = "unlink" /\ pc'[Reconnecter] = "idle"
<1> DEFINE r == Reconnecter
<1>0. TypeOK /\ Control /\ ThreadOK /\ r \in Threads /\ pc \in [Threads -> Labels]
  BY DEF ThreadInv, TypeOK, ThreadOK, ThreadTypeOK, Threads
<1>1. Unlink => pc[r] = "unlink" /\ pc'[r] = "idle"
  BY <1>0 DEF Unlink, Finish, Call
<1>2. CASE CallStep(r)
  BY <1>0, <1>1, <1>2, ReconnecterCalls DEF InReconnectedCall, Reconnected, ReleaseLabels
<1>3. CASE ReconnecterStep
  <2>1. CASE TakeReleased \/ NewSocket \/ Connect \/ Bind \/ PopFront
    <3>1. \/ /\ pc[r] \in {"idle", "socket", "connect", "bind"}
             /\ pc'[r] \in {"socket", "connect", "bind", "recvCount", "ended"}
          \/ pc[r] = "pop" /\ pc'[r] = "unlink"
      BY <1>0, <2>1 DEF TakeReleased, NewSocket, Connect, Bind, PopFront, SetConn, Goto, Call
    <3>2. QED
      BY <1>1, <3>1 DEF Reconnected, ReleaseLabels
  <2>2. CASE Unlink
    BY <1>1, <2>2 DEF Reconnected, ReleaseLabels
  <2>3. QED
    BY <1>3, <2>1, <2>2 DEF ReconnecterStep
<1>4. CASE pc'[r] = pc[r] /\ cur'[r] = cur[r]
  BY <1>1, <1>4
<1>5. QED
  BY <1>0, <1>2, <1>3, <1>4, ReconnecterMoves

(* PushReconnect ends the release.                                         *)
LEMMA PushEnds ==
  ASSUME ThreadInv, NEW t \in Threads, PushReconnect(t)
  PROVE  /\ pc[t] = "push" /\ cur[t] \in Channels /\ pc'[t] \in {"pop", "idle"} /\ OnlyMoves(t)
         /\ UNCHANGED ioCount
         /\ reconnectList' = Append(reconnectList, cur[t]) /\ UNCHANGED corrupted
<1>0. /\ Control /\ pc \in [Threads -> Labels]
      /\ cur \in [Threads -> Channels \cup {NoChannel}]
  BY DEF ThreadInv, TypeOK
<1>1. /\ pc[t] = "push" /\ ReturnDeleted(t) /\ reconnectList' = Append(reconnectList, cur[t])
      /\ UNCHANGED <<ioCount, corrupted>>
  BY DEF PushReconnect
<1>2. Goto(t, "pop") \/ Finish(t)
  BY <1>1 DEF ReturnDeleted
<1>3. QED
  BY <1>0, <1>1, <1>2 DEF Control, Goto, Finish, Call, OnlyMoves

(* Who waits in the list after a step waited before, one place further if  *)
(* the front was unlinked, or has been pushed.                             *)
LEMMA WaitedBefore ==
  ASSUME ThreadInv, [Next]_vars
  PROVE  \E k \in {0, 1} : \A i \in DOMAIN reconnectList' : Waiting(i)' =>
           \/ /\ i + k \in DOMAIN reconnectList /\ Waiting(i + k)
              /\ reconnectList'[i] = reconnectList[i + k]
           \/ /\ k = 0 /\ i = Len(reconnectList) + 1
              /\ \E u \in Threads : PushReconnect(u) /\ reconnectList'[i] = cur[u]
<1>0. /\ ListTypeOK /\ ListFront /\ reconnectList \in Seq(Channels)
      /\ DOMAIN reconnectList = 1..Len(reconnectList) /\ Len(reconnectList) \in Nat
  BY DEF ThreadInv, TypeOK, ListTypeOK
<1>1. ~Unlink => (pc[Reconnecter] \in Reconnected => pc'[Reconnecter] \in Reconnected)
  BY ReconnecterPhase
<1>2. CASE UNCHANGED reconnectList /\ ~Unlink
  <2>1. \A i \in DOMAIN reconnectList' : Waiting(i)' =>
          /\ i + 0 \in DOMAIN reconnectList /\ Waiting(i + 0)
          /\ reconnectList'[i] = reconnectList[i + 0]
    BY <1>0, <1>1, <1>2 DEF Waiting
  <2>2. QED
    BY <2>1
<1>3. CASE \E u \in Threads : PushReconnect(u)
  <2>1. PICK u \in Threads : PushReconnect(u)
    BY <1>3
  <2>2. /\ cur[u] \in Channels /\ pc[u] = "push" /\ pc'[u] \in {"pop", "idle"}
        /\ reconnectList' = Append(reconnectList, cur[u])
    BY <2>1, PushEnds
  <2>3. /\ reconnectList' \in Seq(Channels) /\ Len(reconnectList') = Len(reconnectList) + 1
        /\ reconnectList'[Len(reconnectList) + 1] = cur[u]
        /\ \A i \in 1..Len(reconnectList) : reconnectList'[i] = reconnectList[i]
    BY <1>0, <2>2, AppendToList
  <2>4. ~Unlink
    <3>1. Unlink => Len(reconnectList') + 1 <= Len(reconnectList)
      BY <1>0, UnlinkFront
    <3>2. Len(reconnectList') = Len(reconnectList) + 1 /\ Len(reconnectList) \in Nat
      BY <1>0, <2>3
    <3>3. ~(Len(reconnectList') + 1 <= Len(reconnectList))
      BY <3>2
    <3>4. QED
      BY <3>1, <3>3
  <2>5. DOMAIN reconnectList' = 1..(Len(reconnectList) + 1)
    BY <2>3
  <2>6. ASSUME NEW i \in DOMAIN reconnectList', Waiting(i)'
        PROVE  \/ /\ i + 0 \in DOMAIN reconnectList /\ Waiting(i + 0)
                  /\ reconnectList'[i] = reconnectList[i + 0]
               \/ i = Len(reconnectList) + 1 /\ reconnectList'[i] = cur[u]
    <3>1. CASE i = Len(reconnectList) + 1
      BY <2>3, <3>1
    <3>2. CASE i \in 1..Len(reconnectList)
      <4>1. i = 1 => pc'[Reconnecter] \notin Reconnected
        BY <2>6 DEF Waiting
      <4>2. Waiting(i)
        BY <1>0, <1>1, <2>4, <3>2, <4>1 DEF Waiting
      <4>3. QED
        BY <1>0, <2>3, <3>2, <4>2
    <3>3. QED
      BY <1>0, <2>5, <2>6, <3>1, <3>2
  <2>7. QED
    BY <2>1, <2>6
<1>4. CASE Unlink
  <2>1. /\ reconnectList' \in Seq(Channels)
        /\ Len(reconnectList') + 1 <= Len(reconnectList)
        /\ \A i \in 1..Len(reconnectList') : reconnectList'[i] = reconnectList[i + 1]
    BY <1>0, <1>4, UnlinkFront
  <2>2. DOMAIN reconnectList' = 1..Len(reconnectList') /\ Len(reconnectList') \in Nat
    BY <2>1
  <2>3. ASSUME NEW i \in DOMAIN reconnectList'
        PROVE  /\ i + 1 \in DOMAIN reconnectList /\ Waiting(i + 1)
               /\ reconnectList'[i] = reconnectList[i + 1]
    BY <1>0, <2>1, <2>2, <2>3 DEF Waiting
  <2>4. QED
    BY <2>3
<1>5. ~Unlink /\ ~(\E u \in Threads : PushReconnect(u)) => UNCHANGED reconnectList
  BY ListChange DEF PopFront
<1>6. QED
  BY <1>2, <1>3, <1>4, <1>5

(* Who waits goes on waiting until the reconnecter counts its receive, or  *)
(* the list is corrupted.                                                  *)
LEMMA WaitsOn ==
  ASSUME ThreadInv, [Next]_vars, ~corrupted',
         NEW i \in DOMAIN reconnectList, Waiting(i), i # 1 \/ ~CountRecv(Reconnecter)
  PROVE  \E j \in DOMAIN reconnectList' : Waiting(j)' /\ reconnectList'[j] = reconnectList[i]
<1>0. /\ ListTypeOK /\ ListFront /\ reconnectList \in Seq(Channels)
      /\ DOMAIN reconnectList = 1..Len(reconnectList) /\ Len(reconnectList) \in Nat
  BY DEF ThreadInv, TypeOK, ListTypeOK
<1>1. i = 1 => pc[Reconnecter] \notin Reconnected /\ pc'[Reconnecter] \notin Reconnected
  BY ReconnecterPhase DEF Waiting
<1>2. CASE UNCHANGED reconnectList
  BY <1>1, <1>2 DEF Waiting
<1>3. CASE \E u \in Threads : PushReconnect(u)
  <2>1. PICK u \in Threads : PushReconnect(u)
    BY <1>3
  <2>2. cur[u] \in Channels /\ reconnectList' = Append(reconnectList, cur[u])
    BY <2>1, PushEnds
  <2>3. /\ reconnectList' \in Seq(Channels) /\ Len(reconnectList') = Len(reconnectList) + 1
        /\ reconnectList'[i] = reconnectList[i]
    BY <1>0, <2>2, AppendToList
  <2>4. i \in DOMAIN reconnectList'
    BY <1>0, <2>3
  <2>5. QED
    BY <1>1, <2>3, <2>4 DEF Waiting
<1>4. CASE Unlink
  <2>1. /\ reconnectList' \in Seq(Channels)
        /\ Len(reconnectList') + 1 = Len(reconnectList)
        /\ \A j \in 1..Len(reconnectList') : reconnectList'[j] = reconnectList[j + 1]
    BY <1>0, <1>4, UnlinkFront
  <2>2. pc[Reconnecter] = "unlink" /\ pc'[Reconnecter] = "idle"
    BY <1>4, ReconnecterPhase
  <2>3. i # 1
    BY <1>1, <2>2 DEF Reconnected
  <2>4. /\ DOMAIN reconnectList' = 1..Len(reconnectList') /\ Len(reconnectList') \in Nat
        /\ i \in 1..Len(reconnectList)
    BY <1>0, <2>1
  <2>5. i - 1 \in DOMAIN reconnectList' /\ reconnectList'[i - 1] = reconnectList[i]
    BY <1>0, <2>1, <2>3, <2>4
  <2>6. Waiting(i - 1)'
    BY <2>2, <2>5 DEF Waiting, Reconnected, ReleaseLabels
  <2>7. QED
    BY <2>5, <2>6
<1>5. QED
  BY <1>2, <1>3, <1>4, ListChange DEF PopFront

(* ioCount of the channel the reconnecter is at is 0 until it counts the   *)
(* receive.                                                                *)
LEMMA FrontWaits ==
  ASSUME ThreadInv, WaitsOnce, cur[Reconnecter] \in Guarded,
         pc[Reconnecter] \in {"socket", "connect", "bind", "recvCount"}
  PROVE  /\ 1 \in DOMAIN reconnectList /\ Waiting(1) /\ reconnectList[1] = cur[Reconnecter]
         /\ ioCount[cur[Reconnecter]] = 0
<1>1. reconnectList \in Seq(Channels) /\ reconnectList # <<>>
      /\ reconnectList[1] = cur[Reconnecter]
  BY DEF ThreadInv, TypeOK, ListFront
<1>2. 1 \in DOMAIN reconnectList
  BY <1>1
<1>3. Waiting(1)
  BY <1>2 DEF Waiting, Reconnected, ReleaseLabels
<1>4. QED
  BY <1>1, <1>2, <1>3 DEF WaitsOnce

(* Every step keeps a channel that is being released alone.                *)
LEMMA ReleasedAloneStep ==
  ASSUME ThreadInv, RefCountExact, SendersGuarded, ReleasedAlone, WaitsOnce, [Next]_vars
  PROVE  ReleasedAlone'
<1>0. /\ TypeOK /\ Control /\ ThreadOK /\ unguarded \subseteq unguarded'
      /\ \A t : Releasing(t) <=> pc[t] \in ReleaseLabels
      /\ \A t : Releasing(t)' <=> pc'[t] \in ReleaseLabels
  BY UnguardedGrows
     DEF ThreadInv, TypeOK, ThreadOK, ThreadTypeOK, Releasing, ReleaseLabels
<1>1. SUFFICES ASSUME NEW c \in Channels, c \notin unguarded', NEW t \in Threads, cur'[t] = c,
                      pc'[t] \in ReleaseLabels
               PROVE  /\ ioCount'[c] = 0
                      /\ \A u \in Threads : cur'[u] = c /\ pc'[u] \in ReleaseLabels => u = t
                      /\ \A i \in DOMAIN reconnectList' : Waiting(i)' => reconnectList'[i] # c
  BY <1>0 DEF ReleasedAlone, Guarded
<1>2. c \in Guarded
  BY <1>0, <1>1 DEF Guarded
<1>3. /\ cur[t] = c
      /\ \/ pc[t] \in ReleaseLabels
         \/ CallStep(t) /\ pc'[t] # pc[t] /\ ioCount[c] # 0 /\ ioCount'[c] = 0
  BY <1>1, EntersRelease
<1>4. pc[t] \in ReleaseLabels => ioCount[c] = 0
  BY <1>0, <1>2, <1>3 DEF ReleasedAlone
<1>5. ioCount'[c] = 0
  <2>1. SUFFICES ASSUME pc[t] \in ReleaseLabels, ioCount'[c] # 0 PROVE FALSE
    BY <1>3
  <2>2. CountRecv(Reconnecter) /\ cur[Reconnecter] = c
    BY <1>2, <1>4, <2>1, CountRises
  <2>3. /\ 1 \in DOMAIN reconnectList /\ Waiting(1) /\ reconnectList[1] = c
    BY <1>2, <2>2, FrontWaits DEF CountRecv
  <2>4. QED
    BY <1>0, <1>2, <1>3, <2>1, <2>3 DEF ReleasedAlone
<1>6. ASSUME NEW u \in Threads, cur'[u] = c, pc'[u] \in ReleaseLabels PROVE u = t
  <2>1. /\ cur[u] = c
        /\ \/ pc[u] \in ReleaseLabels
           \/ CallStep(u) /\ pc'[u] # pc[u] /\ ioCount[c] # 0
    BY <1>6, EntersRelease
  <2>2. pc[u] \in ReleaseLabels => ioCount[c] = 0
    BY <1>0, <1>2, <2>1 DEF ReleasedAlone
  <2>3. CASE pc[t] \in ReleaseLabels
    BY <1>0, <1>2, <1>3, <1>4, <2>1, <2>3 DEF ReleasedAlone
  <2>4. CASE pc[t] \notin ReleaseLabels
    <3>1. pc'[t] # pc[t] /\ pc'[u] # pc[u]
      BY <1>3, <2>1, <2>2, <2>4
    <3>2. QED
      BY <1>0, <3>1, OneThread DEF OnlyMoves
  <2>5. QED
    BY <2>3, <2>4
<1>7. ASSUME NEW i \in DOMAIN reconnectList', Waiting(i)', reconnectList'[i] = c PROVE FALSE
  <2>1. \/ \E j \in DOMAIN reconnectList : Waiting(j) /\ reconnectList[j] = c
        \/ \E u \in Threads : PushReconnect(u) /\ cur[u] = c
    BY <1>7, WaitedBefore
  <2>2. CASE \E j \in DOMAIN reconnectList : Waiting(j) /\ reconnectList[j] = c
    <3>1. ioCount[c] = 0
      BY <1>2, <2>2 DEF WaitsOnce
    <3>2. QED
      BY <1>0, <1>2, <1>3, <2>2, <3>1 DEF ReleasedAlone
  <2>3. CASE \E u \in Threads : PushReconnect(u) /\ cur[u] = c
    <3>1. PICK u \in Threads : PushReconnect(u) /\ cur[u] = c
      BY <2>3
    <3>2. pc[u] \in ReleaseLabels /\ pc'[u] \notin ReleaseLabels
      BY <3>1, PushEnds DEF ReleaseLabels
    <3>3. ioCount[c] = 0
      BY <1>0, <1>2, <3>1, <3>2 DEF ReleasedAlone
    <3>4. t = u
      BY <1>0, <1>2, <1>3, <3>1, <3>2, <3>3 DEF ReleasedAlone
    <3>5. QED
      BY <1>1, <3>2, <3>4
  <2>4. QED
    BY <2>1, <2>2, <2>3
<1>8. QED
  BY <1>5, <1>6, <1>7

(* Every step keeps a channel at one place of the list at most.            *)
LEMMA WaitsOnceStep ==
  ASSUME ThreadInv, RefCountExact, SendersGuarded, ReleasedAlone, WaitsOnce, [Next]_vars
  PROVE  WaitsOnce'
<1>0. /\ TypeOK /\ Control /\ ThreadOK /\ unguarded \subseteq unguarded'
      /\ \A t : Releasing(t) <=> pc[t] \in ReleaseLabels
  BY UnguardedGrows
     DEF ThreadInv, TypeOK, ThreadOK, ThreadTypeOK, Releasing, ReleaseLabels
<1>1. SUFFICES ASSUME NEW c \in Channels, c \notin unguarded', NEW i \in DOMAIN reconnectList',
                      Waiting(i)', reconnectList'[i] = c
               PROVE  /\ ioCount'[c] = 0
                      /\ \A j \in DOMAIN reconnectList' :
                           Waiting(j)' /\ reconnectList'[j] = c => i = j
  BY DEF WaitsOnce, Guarded
<1>2. c \in Guarded
  BY <1>0, <1>1 DEF Guarded
<1>3. PICK k \in {0, 1} : \A j \in DOMAIN reconnectList' : Waiting(j)' =>
           \/ /\ j + k \in DOMAIN reconnectList /\ Waiting(j + k)
              /\ reconnectList'[j] = reconnectList[j + k]
           \/ /\ k = 0 /\ j = Len(reconnectList) + 1
              /\ \E u \in Threads : PushReconnect(u) /\ reconnectList'[j] = cur[u]
  BY WaitedBefore
<1>4. ASSUME NEW u \in Threads, PushReconnect(u), cur[u] = c
      PROVE  /\ ioCount[c] = 0 /\ UNCHANGED ioCount
             /\ \A j \in DOMAIN reconnectList : Waiting(j) => reconnectList[j] # c
  <2>1. pc[u] \in ReleaseLabels /\ UNCHANGED ioCount
    BY <1>4, PushEnds DEF ReleaseLabels
  <2>2. QED
    BY <1>0, <1>2, <1>4, <2>1 DEF ReleasedAlone
<1>5. \A j \in DOMAIN reconnectList : Waiting(j) /\ reconnectList[j] = c =>
        /\ ioCount[c] = 0
        /\ \A m \in DOMAIN reconnectList : Waiting(m) /\ reconnectList[m] = c => j = m
  BY <1>2 DEF WaitsOnce
<1>6. ioCount'[c] = 0
  <2>1. ioCount[c] = 0
    BY <1>1, <1>3, <1>4, <1>5
  <2>2. SUFFICES ASSUME ioCount'[c] # 0 PROVE FALSE
    OBVIOUS
  <2>3. CountRecv(Reconnecter) /\ cur[Reconnecter] = c
    BY <1>2, <2>1, <2>2, CountRises
  <2>4. /\ 1 \in DOMAIN reconnectList /\ Waiting(1) /\ reconnectList[1] = c
    BY <1>2, <2>3, FrontWaits DEF CountRecv
  <2>5. UNCHANGED reconnectList /\ pc'[Reconnecter] = "WSARecv"
    BY <1>0, <2>3 DEF CountRecv, Goto, ThreadOK, ThreadTypeOK, Threads
  <2>6. i # 1
    BY <1>1, <2>5 DEF Waiting, Reconnected
  <2>7. Waiting(i) /\ reconnectList[i] = c
    BY <1>1, <2>5, <2>6 DEF Waiting
  <2>8. QED
    BY <1>1, <1>5, <2>4, <2>5, <2>6, <2>7
<1>7. ASSUME NEW j \in DOMAIN reconnectList', Waiting(j)', reconnectList'[j] = c PROVE i = j
  <2>1. i \in Int /\ j \in Int
    <3>1. reconnectList' \in Seq(Channels)
      BY ListStep DEF ThreadInv, ListTypeOK
    <3>2. QED
      BY <1>1, <1>7, <3>1
  <2>2. CASE /\ i + k \in DOMAIN reconnectList /\ Waiting(i + k)
             /\ j + k \in DOMAIN reconnectList /\ Waiting(j + k)
             /\ reconnectList[i + k] = c /\ reconnectList[j + k] = c
    <3>1. i + k = j + k
      BY <1>5, <2>2
    <3>2. k \in Int
      BY <1>3
    <3>3. \A x, y, z \in Int : x + z = y + z => x = y
      OBVIOUS
    <3>4. QED
      BY <2>1, <3>1, <3>2, <3>3, Zenon
  <2>3. QED
    BY <1>1, <1>3, <1>4, <1>7, <2>2
<1>8. QED
  BY <1>6, <1>7

(* Every step keeps a channel without references with its releaser or in   *)
(* the list.                                                               *)
LEMMA DeadNotLostStep ==
  ASSUME ThreadInv, RefCountExact, DeadNotLost, [Next]_vars
  PROVE  DeadNotLost'
<1>0. /\ TypeOK /\ Control /\ ThreadOK /\ unguarded \subseteq unguarded' /\ ListTypeOK
      /\ ListFront /\ pc \in [Threads -> Labels] /\ Reconnecter \in Threads
      /\ ioCount \in [Channels -> Nat]
      /\ \A t : Releasing(t) <=> pc[t] \in ReleaseLabels
      /\ \A t : Releasing(t)' <=> pc'[t] \in ReleaseLabels
  BY UnguardedGrows
     DEF ThreadInv, TypeOK, ThreadOK, ThreadTypeOK, Releasing, ReleaseLabels, ListTypeOK, Threads
<1>1. SUFFICES ASSUME NEW c \in Channels, c \notin unguarded', ioCount'[c] = 0, ~corrupted'
               PROVE  \/ \E t \in Threads : cur'[t] = c /\ pc'[t] \in ReleaseLabels
                      \/ \E i \in DOMAIN reconnectList' : Waiting(i)' /\ reconnectList'[i] = c
  BY <1>0 DEF DeadNotLost, Guarded
<1>2. c \in Guarded
  BY <1>0, <1>1 DEF Guarded
<1>3. CASE ioCount[c] # 0
  <2>1. PICK t \in Threads : cur'[t] = c /\ pc'[t] = "release"
    BY <1>1, <1>3, LastReference
  <2>2. QED
    BY <2>1 DEF ReleaseLabels
<1>4. CASE ioCount[c] = 0
  <2>1. ~corrupted
    <3>1. Unlink => ~corrupted
      BY <1>0, <1>1, UnlinkFront
    <3>2. (\E t \in Threads : PushReconnect(t)) => ~corrupted
      BY <1>1, PushEnds
    <3>3. QED
      BY <1>1, <3>1, <3>2, ListChange DEF PopFront
  <2>2. \/ \E t \in Threads : cur[t] = c /\ pc[t] \in ReleaseLabels
        \/ \E i \in DOMAIN reconnectList : Waiting(i) /\ reconnectList[i] = c
    BY <1>0, <1>2, <1>4, <2>1 DEF DeadNotLost
  <2>3. ASSUME NEW i \in DOMAIN reconnectList, Waiting(i), reconnectList[i] = c
        PROVE  \E j \in DOMAIN reconnectList' : Waiting(j)' /\ reconnectList'[j] = c
    <3>1. i = 1 => ~CountRecv(Reconnecter)
      <4>1. SUFFICES ASSUME i = 1, CountRecv(Reconnecter) PROVE FALSE
        OBVIOUS
      <4>2. cur[Reconnecter] = c
        BY <1>0, <2>3, <4>1 DEF CountRecv, ListFront
      <4>3. ioCount'[c] = ioCount[c] + 1
        BY <1>0, <4>1, <4>2 DEF CountRecv
      <4>4. QED
        BY <1>1, <1>4, <4>3
    <3>2. QED
      BY <1>1, <2>3, <3>1, WaitsOn
  <2>4. ASSUME NEW t \in Threads, cur[t] = c, pc[t] \in ReleaseLabels
        PROVE  \/ cur'[t] = c /\ pc'[t] \in ReleaseLabels
               \/ \E j \in DOMAIN reconnectList' : Waiting(j)' /\ reconnectList'[j] = c
    <3>1. CASE pc'[t] = pc[t] /\ cur'[t] = cur[t]
      BY <2>4, <3>1
    <3>2. CASE CallStep(t) /\ pc[t] # "push"
      BY <1>0, <2>4, <3>2, StepTo DEF ReleaseLabels
    <3>3. CASE CallStep(t) /\ pc[t] = "push"
      <4>1. PushReconnect(t)
        BY <3>3, StepAt
      <4>2. reconnectList' = Append(reconnectList, c) /\ OnlyMoves(t)
        BY <2>4, <4>1, PushEnds
      <4> DEFINE n == Len(reconnectList) + 1
      <4>3. /\ reconnectList' \in Seq(Channels) /\ Len(reconnectList') = n
            /\ reconnectList'[n] = c /\ n \in Nat \ {0}
        BY <1>0, <4>2, AppendToList DEF ListTypeOK
      <4>4. n \in DOMAIN reconnectList'
        BY <4>3
      <4>5. n = 1 => pc'[Reconnecter] \notin Reconnected
        <5>1. SUFFICES ASSUME n = 1 PROVE pc'[Reconnecter] \notin Reconnected
          OBVIOUS
        <5>2. reconnectList = <<>>
          BY <1>0, <4>3, <5>1 DEF ListTypeOK
        <5>3. pc[Reconnecter] = "idle"
          BY <1>0, <5>2 DEF ListFront
        <5>4. pc'[Reconnecter] = "idle"
          BY <1>0, <3>3, <4>2, <5>3 DEF OnlyMoves
        <5>5. QED
          BY <5>4 DEF Reconnected, ReleaseLabels
      <4>6. PICK m : m = n
        OBVIOUS
      <4>7. Waiting(m)'
        BY <4>4, <4>5, <4>6 DEF Waiting
      <4>8. QED
        BY <4>3, <4>4, <4>6, <4>7
    <3>4. CASE \/ t = Reconnecter /\ ReconnecterStep
               \/ t \in Workers /\ \E d \in Channels : DequeueCompletion(t, d)
               \/ t \in Apps /\ \E d \in Channels : Enqueue(t, d)
      BY <1>0, <2>4, <3>4, BeginTo DEF ReleaseLabels
    <3>5. QED
      BY <1>0, <3>1, <3>2, <3>3, <3>4, WhoMoves
  <2>5. QED
    BY <2>2, <2>3, <2>4
<1>5. QED
  BY <1>3, <1>4

-----------------------------------------------------------------------------
(* One receive per channel.                                                *)

ReceivingBit(l) == Bit(l \in {"recvCount", "WSARecv"})
Receives(c) == recvOps[c] + Cardinality(Receiving(c))

(* A step of thread t on channel c keeps the exclusion if it starts no     *)
(* receive on a channel that has one.                                      *)
LEMMA ReceivesKept ==
  ASSUME ThreadInv, ThreadInv', ReceiveExclusive, [Next]_vars, NEW t \in Threads, OnlyMoves(t),
         NEW c \in Channels, cur[t] \in {c, NoChannel}, cur'[t] \in {c, NoChannel},
         \A d \in Channels \ {c} : recvOps'[d] = recvOps[d], NEW k \in {-1, 0, 1},
         (recvOps'[c] - recvOps[c]) + (ReceivingBit(pc'[t]) - ReceivingBit(pc[t])) = k,
         k = 1 /\ c \in Guarded => Receives(c) = 0
  PROVE  ReceiveExclusive'
<1>0. /\ TypeOK /\ TypeOK' /\ Control /\ Control' /\ unguarded \subseteq unguarded'
      /\ NoChannel \notin Channels
  BY UnguardedGrows, ConstantsAssumption DEF ThreadInv
<1>1. ASSUME NEW d \in Channels
      PROVE  /\ Cardinality(Receiving(d))' =
                  Cardinality(Receiving(d)) - Bit(t \in Receiving(d)) + Bit(t \in Receiving(d)')
             /\ Cardinality(Receiving(d)) \in Nat /\ recvOps[d] \in Nat /\ recvOps'[d] \in Nat
  BY <1>0, ThreadSetsChange, ThreadSetsFinite DEF TypeOK
<1>2. /\ pc[t] \in {"recvCount", "WSARecv"} => cur[t] = c
      /\ pc'[t] \in {"recvCount", "WSARecv"} => cur'[t] = c
  BY <1>0 DEF Control
<1>3. ASSUME NEW d \in Channels \ {c} PROVE Receives(d)' = Receives(d)
  <2>1. t \notin Receiving(d) /\ t \notin Receiving(d)'
    BY <1>0, <1>3 DEF Receiving
  <2>2. Bit(t \in Receiving(d)) = 0 /\ Bit(t \in Receiving(d)') = 0
    BY <2>1 DEF Bit
  <2>3. Cardinality(Receiving(d))' = Cardinality(Receiving(d))
    BY <1>1, <2>2
  <2>4. QED
    BY <2>3 DEF Receives
<1>4. /\ t \in Receiving(c) <=> pc[t] \in {"recvCount", "WSARecv"}
      /\ t \in Receiving(c)' <=> pc'[t] \in {"recvCount", "WSARecv"}
  BY <1>2 DEF Receiving
<1> DEFINE n == Cardinality(Receiving(c))
           b == ReceivingBit(pc[t])
           b1 == ReceivingBit(pc'[t])
<1>5. Bit(t \in Receiving(c)) = b /\ Bit(t \in Receiving(c)') = b1
      /\ b \in {0, 1} /\ b1 \in {0, 1}
  BY <1>4 DEF ReceivingBit, Bit
<1>6. /\ n \in Nat /\ n' = n - b + b1 /\ recvOps[c] \in Nat /\ recvOps'[c] \in Nat
      /\ Receives(c) = recvOps[c] + n /\ Receives(c)' = recvOps'[c] + n'
      /\ (recvOps'[c] - recvOps[c]) + (b1 - b) = k
  BY <1>1, <1>5 DEF Receives
<1> HIDE DEF n, b, b1
<1>7. Receives(c)' = Receives(c) + k /\ Receives(c) \in Nat
  BY <1>5, <1>6
<1>8. c \in Guarded => Receives(c) <= 1
  BY DEF ReceiveExclusive, Receives
<1>9. c \in Guarded => Receives(c)' <= 1
  <2>1. CASE k = 1
    BY <1>7, <2>1
  <2>2. CASE k \in {-1, 0}
    BY <1>7, <1>8, <2>2
  <2>3. QED
    BY <2>1, <2>2
<1>10. ASSUME NEW d \in Channels, d \notin unguarded' PROVE Receives(d)' <= 1
  <2>1. d \in Guarded
    BY <1>0, <1>10 DEF Guarded
  <2>2. CASE d = c
    BY <1>9, <2>1, <2>2
  <2>3. CASE d # c
    BY <1>3, <2>1, <2>3 DEF ReceiveExclusive, Receives
  <2>4. QED
    BY <2>2, <2>3
<1>11. QED
  BY <1>10 DEF ReceiveExclusive, Receives, Guarded

(* Nobody receives on the channel that the reconnecter has connected.      *)
LEMMA NoReceiver ==
  ASSUME ThreadInv, RefCountExact, WaitsOnce, cur[Reconnecter] \in Guarded,
         pc[Reconnecter] = "bind"
  PROVE  Receives(cur[Reconnecter]) = 0
<1> DEFINE c == cur[Reconnecter]
<1>0. /\ TypeOK /\ Control /\ c \in Channels /\ Reconnecter \in Threads
  BY DEF ThreadInv, Guarded, Threads
<1>1. ioCount[c] = 0
  BY FrontWaits
<1>2. ASSUME NEW t \in Receiving(c) PROVE FALSE
  <2>1. t \in Threads /\ cur[t] = c /\ pc[t] \in {"recvCount", "WSARecv"}
    BY <1>2 DEF Receiving
  <2>2. t \in Workers \cup {Reconnecter}
    BY <1>0, <2>1, SendersAndReceivers DEF Threads
  <2>3. t \notin Workers
    BY <1>0, <1>1, <2>1, DeadChannel DEF ReleaseLabels
  <2>4. QED
    BY <2>1, <2>2, <2>3
<1>3. Receiving(c) = {}
  BY <1>2
<1>4. recvOps[c] = 0
  BY <1>0, <1>1, DeadChannel
<1>5. QED
  BY <1>3, <1>4, SetOfThreads DEF Receives

(* Every step keeps the ring of a channel with one user.                   *)
LEMMA ReceiveExclusiveStep ==
  ASSUME ThreadInv, ThreadInv', RefCountExact, WaitsOnce, ReceiveExclusive, [Next]_vars
  PROVE  ReceiveExclusive'
<1>0. /\ TypeOK /\ TypeOK' /\ Control /\ Control' /\ ThreadOK /\ unguarded \subseteq unguarded'
      /\ pc \in [Threads -> Labels] /\ cur \in [Threads -> Channels \cup {NoChannel}]
      /\ recvOps \in [Channels -> Nat]
      /\ Reconnecter \in Threads /\ Workers \subseteq Threads /\ Apps \subseteq Threads
  BY UnguardedGrows DEF ThreadInv, ThreadOK, ThreadTypeOK, TypeOK, Threads
<1>1. \A t \in Threads : pc[t] # "idle" => cur[t] \in Channels
  BY <1>0 DEF Control
<1>2. ASSUME UNCHANGED <<recvOps, pc, cur>> PROVE ReceiveExclusive'
  BY <1>0, <1>2 DEF ReceiveExclusive, Receiving, Guarded
(* Steps that start no receive.                                            *)
<1>3. ASSUME NEW t \in Threads, OnlyMoves(t), NEW c \in Channels, UNCHANGED recvOps,
             cur[t] \in {c, NoChannel}, cur'[t] \in {c, NoChannel},
             ReceivingBit(pc'[t]) <= ReceivingBit(pc[t])
      PROVE  ReceiveExclusive'
  <2>1. recvOps[c] \in Nat /\ ReceivingBit(pc[t]) \in {0, 1} /\ ReceivingBit(pc'[t]) \in {0, 1}
    BY <1>0, <1>3 DEF ReceivingBit, Bit
  <2>2. PICK k \in {-1, 0} : ReceivingBit(pc'[t]) - ReceivingBit(pc[t]) = k
    BY <1>3, <2>1
  <2>3. (recvOps'[c] - recvOps[c]) + (ReceivingBit(pc'[t]) - ReceivingBit(pc[t])) = k
    BY <1>3, <2>1, <2>2
  <2>4. QED
    BY <1>3, <2>3, ReceivesKept
<1>4. ASSUME NEW t \in Threads, CallStep(t) PROVE ReceiveExclusive'
  <2> DEFINE c == cur[t]
  <2>1. /\ c \in Channels /\ OnlyMoves(t) /\ cur'[t] \in {c, NoChannel}
        /\ pc[t] # "idle" /\ pc[t] \in Labels /\ recvOps[c] \in Nat
    <3>1. pc[t] # "idle"
      BY <1>4, StepAt
    <3>2. PICK m \in Labels : Moved(t, m)
      BY <1>0, <1>4, CallMoves
    <3>3. QED
      BY <1>0, <1>1, <3>1, <3>2 DEF Moved, OnlyMoves
  <2>2. CASE pc[t] = "WSARecv"
    <3>1. pc'[t] \notin {"recvCount", "WSARecv"}
      BY <1>0, <1>4, <2>2, StepTo
    <3>2. ReceivingBit(pc[t]) = 1 /\ ReceivingBit(pc'[t]) = 0
      BY <2>2, <3>1 DEF ReceivingBit, Bit
    <3>3. UNCHANGED recvOps \/ recvOps' = [recvOps EXCEPT ![c] = @ + 1]
      BY <1>4, <2>2, StepAt DEF WSARecv
    <3>4. CASE UNCHANGED recvOps
      BY <1>3, <2>1, <3>2, <3>4
    <3>5. CASE recvOps' = [recvOps EXCEPT ![c] = @ + 1]
      <4>1. recvOps'[c] = recvOps[c] + 1 /\ \A d \in Channels \ {c} : recvOps'[d] = recvOps[d]
        BY <1>0, <2>1, <3>5
      <4>2. (recvOps'[c] - recvOps[c]) + (ReceivingBit(pc'[t]) - ReceivingBit(pc[t])) = 0
        BY <2>1, <3>2, <4>1
      <4>3. QED
        BY <2>1, <4>1, <4>2, ReceivesKept
    <3>6. QED
      BY <3>3, <3>4, <3>5
  <2>3. CASE pc[t] # "WSARecv"
    <3>1. UNCHANGED recvOps
      <4>1. ~WSARecv(t)
        BY <2>3 DEF WSARecv
      <4>2. QED
        BY <1>4, <4>1
           DEF CallStep, ReleaseStore, ReleaseQueue, CloseSocket, PushReconnect, FreeSent,
               ResetIOMode, IOCountDecrement, DecrementAnd, CountRecv, UndoRecv, TrySending,
               UseSize, ResetEmpty, Recheck, Dequeue, DequeueInto, CountSend, WSASend, UndoSend
    <3>2. pc'[t] \in {"recvCount", "WSARecv"} => pc[t] = "recvCount"
      BY <1>0, <1>4, <2>3, StepTo, StepAt
    <3>3. ReceivingBit(pc'[t]) <= ReceivingBit(pc[t])
      BY <3>2 DEF ReceivingBit, Bit
    <3>4. QED
      BY <1>3, <2>1, <3>1, <3>3
  <2>4. QED
    BY <2>2, <2>3
<1>5. ASSUME ReconnecterStep PROVE ReceiveExclusive'
  <2> DEFINE r == Reconnecter
  <2>1. /\ UNCHANGED recvOps /\ OnlyMoves(r)
    <3>1. \E l : \E c : Call(r, c, l) \/ Goto(r, l)
      BY <1>5 DEF ReconnecterStep, TakeReleased, NewSocket, Connect, SetConn, Bind,
                  PopFront, Unlink, Finish
    <3>2. OnlyMoves(r)
      BY <1>0, <3>1 DEF Call, Goto, OnlyMoves
    <3>3. QED
      BY <1>5, <3>2 DEF ReconnecterStep, TakeReleased, NewSocket, Connect, Bind, PopFront, Unlink
  <2>2. /\ pc[r] # "idle" /\ pc'[r] # "idle" => cur'[r] = cur[r]
        /\ pc[r] # "idle" \/ pc'[r] # "idle"
    <3>1. pc[r] = "idle" => TakeReleased
      BY <1>5 DEF ReconnecterStep, NewSocket, Connect, Bind, PopFront, Unlink
    <3>2. TakeReleased => pc'[r] = "socket"
      BY <1>0 DEF TakeReleased, Call
    <3>3. QED
      BY <1>0, <1>5, <3>1, <3>2, BeginTo
  <2>3. \E c \in Channels : cur[r] \in {c, NoChannel} /\ cur'[r] \in {c, NoChannel}
    <3>1. (pc[r] = "idle" <=> cur[r] = NoChannel) /\ (pc'[r] = "idle" <=> cur'[r] = NoChannel)
      BY <1>0 DEF Control
    <3>2. cur[r] \in Channels \cup {NoChannel} /\ cur'[r] \in Channels \cup {NoChannel}
      BY <1>0 DEF TypeOK
    <3>3. QED
      BY <2>2, <3>1, <3>2
  <2>4. CASE pc'[r] # "recvCount"
    <3>1. pc'[r] \notin {"recvCount", "WSARecv"}
      BY <1>0, <1>5, <2>4, BeginTo
    <3>2. ReceivingBit(pc'[r]) <= ReceivingBit(pc[r])
      BY <3>1 DEF ReceivingBit, Bit
    <3>3. QED
      BY <1>0, <1>3, <2>1, <2>3, <3>2
  <2>5. CASE pc'[r] = "recvCount"
    <3>1. pc[r] = "bind" /\ cur'[r] = cur[r] /\ cur[r] \in Channels
      <4>1. ~TakeReleased /\ ~NewSocket /\ ~Connect /\ ~PopFront /\ ~Unlink
        BY <1>0, <2>5 DEF TakeReleased, NewSocket, Connect, PopFront, Unlink, SetConn, Goto,
                          Finish, Call
      <4>2. QED
        BY <1>0, <1>1, <1>5, <4>1 DEF ReconnecterStep, Bind, Goto
    <3>2. ReceivingBit(pc[r]) = 0 /\ ReceivingBit(pc'[r]) = 1 /\ recvOps[cur[r]] \in Nat
      BY <1>0, <2>5, <3>1 DEF ReceivingBit, Bit
    <3>3. (recvOps'[cur[r]] - recvOps[cur[r]]) + (ReceivingBit(pc'[r]) - ReceivingBit(pc[r])) = 1
      BY <2>1, <3>2
    <3>4. cur[r] \in Guarded => Receives(cur[r]) = 0
      BY <3>1, NoReceiver
    <3>5. QED
      BY <1>0, <2>1, <3>1, <3>3, <3>4, ReceivesKept
  <2>6. QED
    BY <2>4, <2>5
<1>6. ASSUME NEW w \in Workers, NEW c \in Channels, DequeueRecv(w, c) PROVE ReceiveExclusive'
  <2>1. /\ recvOps[c] > 0 /\ recvOps' = [recvOps EXCEPT ![c] = @ - 1] /\ pc[w] = "idle"
        /\ Call(w, c, "recvCount") \/ Call(w, c, "dec")
    BY <1>6 DEF DequeueRecv
  <2>2. /\ OnlyMoves(w) /\ cur'[w] = c /\ pc'[w] \in {"recvCount", "dec"}
        /\ cur[w] = NoChannel /\ w \in Threads
    BY <1>0, <2>1 DEF Call, OnlyMoves, Control
  <2>3. ReceivingBit(pc[w]) = 0 /\ ReceivingBit(pc'[w]) \in {0, 1}
    BY <2>1, <2>2 DEF ReceivingBit, Bit
  <2>4. /\ recvOps[c] \in Nat /\ recvOps'[c] = recvOps[c] - 1
        /\ \A d \in Channels \ {c} : recvOps'[d] = recvOps[d]
    BY <1>0, <2>1
  <2>5. PICK k \in {-1, 0} : ReceivingBit(pc'[w]) - 1 = k
    BY <2>3
  <2>6. (recvOps'[c] - recvOps[c]) + (ReceivingBit(pc'[w]) - ReceivingBit(pc[w])) = k
    BY <2>3, <2>4, <2>5
  <2>7. QED
    BY <2>2, <2>4, <2>6, ReceivesKept
<1>7. ASSUME NEW t \in Threads, NEW c \in Channels, UNCHANGED recvOps,
             Call(t, c, "sent") \/ Call(t, c, "cas"), pc[t] = "idle"
      PROVE  ReceiveExclusive'
  <2>1. /\ OnlyMoves(t) /\ cur'[t] = c /\ pc'[t] \in {"sent", "cas"} /\ cur[t] = NoChannel
    BY <1>0, <1>7 DEF Call, OnlyMoves, Control
  <2>2. ReceivingBit(pc'[t]) <= ReceivingBit(pc[t])
    BY <2>1 DEF ReceivingBit, Bit
  <2>3. QED
    BY <1>3, <1>7, <2>1, <2>2
<1>8. ASSUME NEW w \in Workers, NEW c \in Channels, DequeueSend(w, c) PROVE ReceiveExclusive'
  BY <1>0, <1>7, <1>8 DEF DequeueSend
<1>9. ASSUME NEW a \in Apps, NEW c \in Channels, Enqueue(a, c) PROVE ReceiveExclusive'
  BY <1>0, <1>7, <1>9 DEF Enqueue
<1>10. CASE (\E c \in Channels : ConnectionLost(c)) \/ UNCHANGED vars
  BY <1>2, <1>10 DEF ConnectionLost, vars
<1>11. QED
  BY <1>4, <1>5, <1>6, <1>8, <1>9, <1>10 DEF Next, DequeueCompletion

-----------------------------------------------------------------------------
(* Who uses bufStore.                                                      *)

UserLabels == SendingLabels \cup ReleaseLabels

(* A guarded channel has one user: a sender, or the thread that releases   *)
(* the channel when nothing is in flight.                                  *)
LEMMA OneUser ==
  ASSUME ThreadInv, RefCountExact, SendExclusive, SendersGuarded, ReleasedAlone,
         NEW c \in Guarded, NEW t \in Threads, cur[t] = c, pc[t] \in UserLabels
  PROVE  /\ sendOps[c] = 0
         /\ \A u \in Threads : cur[u] = c /\ pc[u] \in UserLabels => u = t
<1>0. /\ TypeOK /\ Control /\ c \in Channels /\ sendOps[c] \in Nat
      /\ \A u : Releasing(u) <=> pc[u] \in ReleaseLabels
  BY DEF ThreadInv, TypeOK, Guarded, Releasing, ReleaseLabels
<1>1. ASSUME NEW u \in Threads, cur[u] = c, pc[u] \in SendingLabels PROVE ioCount[c] # 0
  <2>1. SUFFICES ASSUME ioCount[c] = 0 PROVE FALSE
    OBVIOUS
  <2>2. pc[u] \notin PostLabels /\ (u \in Workers => pc[u] \in ReleaseLabels)
    BY <1>0, <1>1, <2>1, DeadChannel
  <2>3. u \notin Workers /\ pc[u] \in {"size", "reset", "dequeue", "sendCount", "sent", "resetMode"}
    BY <1>1, <2>2 DEF SendingLabels, ReleaseLabels, PostLabels
  <2>4. u \in Apps /\ pc[u] \in {"size", "reset", "dequeue", "sendCount"}
    BY <1>0, <2>3, SendersAndReceivers DEF SendLabels
  <2>5. QED
    BY <1>1, <2>1, <2>4 DEF SendersGuarded, Unguarded
<1>2. ASSUME NEW u \in Threads, cur[u] = c, pc[u] \in ReleaseLabels PROVE ioCount[c] = 0
  BY <1>0, <1>2 DEF ReleasedAlone
<1>3. CASE pc[t] \in SendingLabels
  <2>1. t \in Sending(c) /\ Sending(c) \in SUBSET Threads
    BY <1>3 DEF Sending, SendingLabels
  <2>2. sendOps[c] + Cardinality(Sending(c)) <= 1 /\ Cardinality(Sending(c)) \in Nat
    BY <1>0, <2>1, SetOfThreads DEF SendExclusive
  <2>3. Sending(c) = {t} /\ Cardinality(Sending(c)) = 1
    BY <1>0, <2>1, <2>2, OneMember
  <2>4. sendOps[c] = 0
    BY <1>0, <2>2, <2>3
  <2>5. ASSUME NEW u \in Threads, cur[u] = c, pc[u] \in UserLabels PROVE u = t
    <3>1. pc[u] \in SendingLabels
      BY <1>1, <1>2, <1>3, <2>5 DEF UserLabels
    <3>2. u \in Sending(c)
      BY <2>5, <3>1 DEF Sending, SendingLabels
    <3>3. QED
      BY <2>3, <3>2
  <2>6. QED
    BY <2>4, <2>5
<1>4. CASE pc[t] \in ReleaseLabels
  <2>1. ioCount[c] = 0
    BY <1>2, <1>4
  <2>2. sendOps[c] = 0
    BY <1>0, <2>1, DeadChannel
  <2>3. ASSUME NEW u \in Threads, cur[u] = c, pc[u] \in UserLabels PROVE u = t
    <3>1. pc[u] \in ReleaseLabels
      BY <1>1, <2>1, <2>3 DEF UserLabels
    <3>2. QED
      BY <1>0, <1>4, <2>3, <3>1 DEF ReleasedAlone
  <2>4. QED
    BY <2>2, <2>3
<1>5. QED
  BY <1>3, <1>4 DEF UserLabels

(* A step inside a call changes the loop of its thread only.               *)
LEMMA CallLoops ==
  ASSUME ThreadOK, NEW t \in Threads, CallStep(t)
  PROVE  \A u \in Threads \ {t} : got'[u] = got[u] /\ want'[u] = want[u]
<1>0. want \in [Threads -> Nat] /\ got \in [Threads -> Nat]
  BY DEF ThreadOK, ThreadTypeOK
<1>1. ASSUME NEW l, NEW n, Goto(t, l) \/ Loop(t, n, l) \/ EndLoop(t, l) \/ Finish(t)
      PROVE  \A u \in Threads \ {t} : got'[u] = got[u] /\ want'[u] = want[u]
  BY <1>0, <1>1 DEF Goto, Loop, EndLoop, Finish, Call
<1>2. Return(t) => (Goto(t, "dec") \/ Finish(t) \/ Goto(t, "pop"))
  BY ReturnByKind
<1>3. CASE ReleaseStore(t) \/ ReleaseQueue(t) \/ UseSize(t) \/ Dequeue(t)
  <2>1. \/ \E l, n : Goto(t, l) \/ EndLoop(t, l) \/ Loop(t, n, l)
        \/ got' = [got EXCEPT ![t] = @ + 1] /\ UNCHANGED want
    BY <1>3 DEF ReleaseStore, ReleaseQueue, UseSize, Dequeue, DequeueInto
  <2>2. QED
    BY <1>0, <1>1, <2>1
<1>4. CASE \/ CloseSocket(t) \/ FreeSent(t) \/ ResetIOMode(t) \/ CountRecv(t) \/ ResetEmpty(t)
           \/ CountSend(t) \/ WSASend(t)
  <2>1. \E l : Goto(t, l)
    BY <1>4 DEF CloseSocket, FreeSent, ResetIOMode, CountRecv, ResetEmpty, CountSend, WSASend
  <2>2. QED
    BY <1>1, <2>1
<1>5. CASE \/ PushReconnect(t) \/ IOCountDecrement(t) \/ WSARecv(t) \/ UndoRecv(t)
           \/ TrySending(t) \/ Recheck(t) \/ UndoSend(t)
  <2>1. (\E l : Goto(t, l)) \/ Finish(t)
    BY <1>2, <1>5, UndoRecvControl, UndoSendControl, DecrementControl
       DEF PushReconnect, ReturnDeleted, WSARecv, TrySending, Recheck
  <2>2. QED
    BY <1>1, <2>1
<1>6. QED
  BY <1>3, <1>4, <1>5 DEF CallStep

(* Only steps inside a call change how far a loop is.                      *)
LEMMA LoopsOnly ==
  ASSUME ThreadOK, [Next]_vars, NEW u \in Threads
  PROVE  CallStep(u) \/ (got'[u] = got[u] /\ want'[u] = want[u])
<1>1. ASSUME NEW t \in Threads, CallStep(t)
      PROVE  CallStep(u) \/ (got'[u] = got[u] /\ want'[u] = want[u])
  BY <1>1, CallLoops
<1>2. ASSUME ReconnecterStep PROVE UNCHANGED <<want, got>>
  BY <1>2 DEF ReconnecterStep, TakeReleased, NewSocket, Connect, SetConn, Bind, PopFront,
              Unlink, Goto, Finish, Call
<1>3. ASSUME NEW w \in Workers, NEW c \in Channels, DequeueCompletion(w, c)
      PROVE  UNCHANGED <<want, got>>
  BY <1>3 DEF DequeueCompletion, DequeueRecv, DequeueSend, Call
<1>4. ASSUME NEW a \in Apps, NEW c \in Channels, Enqueue(a, c) PROVE UNCHANGED <<want, got>>
  BY <1>4 DEF Enqueue, Call
<1>5. (\E c \in Channels : ConnectionLost(c)) \/ UNCHANGED vars => UNCHANGED <<want, got>>
  BY DEF ConnectionLost, vars
<1>6. QED
  BY <1>1, <1>2, <1>3, <1>4, <1>5 DEF Next

(* A thread in a loop or about to send was at bufStore before.             *)
LEMMA WasUser ==
  ASSUME ThreadInv, [Next]_vars, NEW u \in Threads,
         pc'[u] \in {"dequeue", "drain", "sendCount", "WSASend"}
  PROVE  /\ cur'[u] = cur[u]
         /\ \/ CallStep(u) /\ pc[u] \in {"size", "dequeue", "release", "drain", "sendCount"}
            \/ pc'[u] = pc[u] /\ got'[u] = got[u] /\ want'[u] = want[u]
<1>0. TypeOK /\ Control /\ ThreadOK
  BY DEF ThreadInv, TypeOK, ThreadOK, ThreadTypeOK
<1>1. CASE CallStep(u)
  BY <1>0, <1>1, StepTo, StepAt
<1>2. CASE pc'[u] = pc[u] /\ cur'[u] = cur[u] /\ ~CallStep(u)
  BY <1>0, <1>2, LoopsOnly
<1>3. CASE \/ u = Reconnecter /\ ReconnecterStep
           \/ u \in Workers /\ \E d \in Channels : DequeueCompletion(u, d)
           \/ u \in Apps /\ \E d \in Channels : Enqueue(u, d)
  BY <1>0, <1>3, BeginTo
<1>4. QED
  BY <1>0, <1>1, <1>2, <1>3, WhoMoves

(* The steps that change what is queued, stored, sent or freed on c.       *)
StoreStep(t) == \/ ReleaseStore(t) \/ ReleaseQueue(t) \/ FreeSent(t) \/ Dequeue(t) \/ WSASend(t)

(* Who touches bufStore is in a call, at a label of its user.              *)
LEMMA StoreStepAt ==
  ASSUME NEW t \in Threads, StoreStep(t)
  PROVE  CallStep(t) /\ pc[t] \in UserLabels
BY DEF StoreStep, CallStep, ReleaseStore, ReleaseQueue, FreeSent, Dequeue, DequeueInto, WSASend,
       UserLabels, SendingLabels, ReleaseLabels

(* What changes the send side of channel c.                                *)
LEMMA SendVarsAt ==
  ASSUME TypeOK, [Next]_vars, NEW c \in Channels
  PROVE  \/ \E t \in Threads : cur[t] = c /\ StoreStep(t)
         \/ \E a \in Apps : Enqueue(a, c)
         \/ /\ sendQ'[c] = sendQ[c] /\ bufStore'[c] = bufStore[c]
            /\ bufferCount'[c] = bufferCount[c] /\ handed'[c] = handed[c]
            /\ wire'[c] = wire[c] /\ freed'[c] = freed[c]
<1>0. SendTypeOK
  BY DEF TypeOK, SendTypeOK
<1>1. ASSUME NEW t \in Threads, StoreStep(t), cur[t] # c
      PROVE  /\ sendQ'[c] = sendQ[c] /\ bufStore'[c] = bufStore[c]
             /\ bufferCount'[c] = bufferCount[c] /\ handed'[c] = handed[c]
             /\ wire'[c] = wire[c] /\ freed'[c] = freed[c]
  <2> DEFINE d == cur[t]
  <2>1. \A s : Frees(d, s)[c] = freed[c]
    BY <1>0, <1>1 DEF Frees, SendTypeOK
  <2>2. CASE ReleaseStore(t)
    BY <1>0, <1>1, <2>1, <2>2 DEF ReleaseStore, SendTypeOK
  <2>3. CASE ReleaseQueue(t)
    <3>1. /\ UNCHANGED <<bufStore, bufferCount, handed, wire>>
          /\ sendQ' = sendQ \/ sendQ' = [sendQ EXCEPT ![d] = Tail(@)]
          /\ freed' = freed \/ \E s : freed' = Frees(d, s)
      BY <2>3 DEF ReleaseQueue
    <3>2. QED
      BY <1>0, <1>1, <2>1, <3>1 DEF SendTypeOK
  <2>4. CASE FreeSent(t)
    BY <1>0, <1>1, <2>1, <2>4 DEF FreeSent, SendTypeOK
  <2>5. CASE Dequeue(t)
    <3>1. /\ UNCHANGED <<handed, wire, freed>>
          /\ sendQ' = sendQ \/ sendQ' = [sendQ EXCEPT ![d] = Tail(@)]
          /\ bufferCount' = bufferCount \/ \E n : bufferCount' = [bufferCount EXCEPT ![d] = n]
          /\ bufStore' = bufStore \/ \E i, h : bufStore' = [bufStore EXCEPT ![d][i] = h]
      BY <2>5 DEF Dequeue, DequeueInto
    <3>2. QED
      BY <1>0, <1>1, <3>1 DEF SendTypeOK
  <2>6. CASE WSASend(t)
    <3>1. /\ UNCHANGED <<sendQ, bufStore, bufferCount, handed, freed>>
          /\ wire' = wire \/ \E s : wire' = [wire EXCEPT ![d] = @ \o s]
      BY <2>6 DEF WSASend
    <3>2. QED
      BY <1>0, <1>1, <3>1 DEF SendTypeOK
  <2>7. QED
    BY <1>1, <2>2, <2>3, <2>4, <2>5, <2>6 DEF StoreStep
<1>2. ASSUME NEW a \in Apps, NEW d \in Channels, Enqueue(a, d), d # c
      PROVE  /\ sendQ'[c] = sendQ[c] /\ bufStore'[c] = bufStore[c]
             /\ bufferCount'[c] = bufferCount[c] /\ handed'[c] = handed[c]
             /\ wire'[c] = wire[c] /\ freed'[c] = freed[c]
  BY <1>0, <1>2 DEF Enqueue, SendTypeOK
<1>3. QED
  BY <1>1, <1>2, SendChange DEF StoreStep

(* The first slots are prepared by the one user, and by nobody else        *)
(* unless they were prepared before.                                       *)
LEMMA PreparedByUser ==
  ASSUME ThreadInv, RefCountExact, SendExclusive, SendersGuarded, ReleasedAlone, [Next]_vars,
         NEW c \in Guarded, NEW t \in Threads, cur[t] = c, pc[t] \in UserLabels, CallStep(t),
         NEW n, Prepared(c, n)'
  PROVE  /\ cur'[t] = c
         /\ \/ pc'[t] = "dequeue" /\ n = got'[t]
            \/ pc'[t] \in {"sendCount", "WSASend"} /\ n = bufferCount'[c]
<1>1. PICK u \in Threads :
        /\ cur'[u] = c
        /\ \/ pc'[u] = "dequeue" /\ n = got'[u]
           \/ pc'[u] \in {"sendCount", "WSASend"} /\ n = bufferCount'[c]
  BY DEF Prepared
<1>2. cur[u] = c /\ pc[u] \in UserLabels
  BY <1>1, WasUser DEF UserLabels, SendingLabels, ReleaseLabels
<1>3. u = t
  BY <1>2, OneUser
<1>4. QED
  BY <1>1, <1>3

(* What a step leaves prepared without touching bufStore was prepared      *)
(* before.                                                                 *)
LEMMA PreparedBefore ==
  ASSUME ThreadInv, [Next]_vars, NEW c \in Channels,
         ~\E t \in Threads : cur[t] = c /\ StoreStep(t),
         bufferCount'[c] = bufferCount[c], NEW n, Prepared(c, n)', n # 0
  PROVE  Prepared(c, n)
<1>1. PICK u \in Threads :
        /\ cur'[u] = c
        /\ \/ pc'[u] = "dequeue" /\ n = got'[u]
           \/ pc'[u] \in {"sendCount", "WSASend"} /\ n = bufferCount'[c]
  BY DEF Prepared
<1>2. cur[u] = c
  BY <1>1, WasUser
<1>3. CASE pc'[u] = pc[u] /\ got'[u] = got[u]
  BY <1>1, <1>2, <1>3 DEF Prepared
<1>4. CASE CallStep(u) /\ pc[u] \in {"size", "dequeue", "release", "drain", "sendCount"}
  <2>1. pc[u] \notin {"dequeue", "release", "drain"}
    BY <1>2, <1>4, StepAt DEF StoreStep
  <2>2. CASE pc[u] = "size"
    <3>1. ThreadOK
      BY DEF ThreadInv, TypeOK, ThreadOK, ThreadTypeOK
    <3>2. pc'[u] = "dequeue"
      BY <1>1, <1>4, <2>2, <3>1, StepTo
    <3>3. got'[u] = 0
      <4>1. UseSize(u)
        BY <1>4, <2>2, StepAt
      <4>2. pc[u] \in Labels /\ pc \in [Threads -> Labels] /\ got \in [Threads -> Nat]
        BY <3>1 DEF ThreadOK, ThreadTypeOK
      <4>3. QED
        BY <3>2, <4>1, <4>2 DEF UseSize, Goto, Loop
    <3>4. QED
      BY <1>1, <3>2, <3>3
  <2>3. CASE pc[u] = "sendCount"
    <3>1. ThreadOK
      BY DEF ThreadInv, TypeOK, ThreadOK, ThreadTypeOK
    <3>2. pc'[u] = "WSASend"
      BY <1>4, <2>3, <3>1, StepTo
    <3>3. QED
      BY <1>1, <1>2, <2>3, <3>2 DEF Prepared
  <2>4. QED
    BY <1>4, <2>1, <2>2, <2>3
<1>5. QED
  BY <1>1, <1>3, <1>4, WasUser

-----------------------------------------------------------------------------
(* Packets keep their order.                                               *)

OrderOf(c) ==
  /\ QueueOrder(c) /\ StoreOrder(c) /\ PreparedOrder(c) /\ GoneOrder(c)
  /\ WireOrder(c) /\ InFlight(c)

(* What the variables of a channel hold.                                   *)
LEMMA DataTypes ==
  ASSUME TypeOK, NEW c \in Channels
  PROVE  /\ sendQ[c] \in Seq(Packets) /\ Len(sendQ[c]) \in Nat
         /\ DOMAIN sendQ[c] = 1..Len(sendQ[c])
         /\ \A i \in DOMAIN sendQ[c] : sendQ[c][i] \in Packets
         /\ bufStore[c] \in [Slots -> Packets \cup {NoPacket}]
         /\ bufferCount[c] \in 0..MaxWsaBuf /\ handed[c] \in Nat
         /\ wire[c] \in Seq(Packets \cup {NoPacket}) /\ Len(wire[c]) \in Nat
         /\ DOMAIN wire[c] = 1..Len(wire[c])
         /\ \A i \in DOMAIN wire[c] : wire[c][i] \in Packets \cup {NoPacket}
         /\ freed[c] \in [Packets -> Nat] /\ sendOps[c] \in Nat
         /\ Packets \cup {NoPacket} \subseteq Nat /\ Gone(c) \subseteq Nat
         /\ MaxWsaBuf \in Nat \ {0}
<1>1. /\ sendQ \in [Channels -> Seq(Packets)]
      /\ bufStore \in [Channels -> [Slots -> Packets \cup {NoPacket}]]
      /\ bufferCount \in [Channels -> 0..MaxWsaBuf]
      /\ handed \in [Channels -> 0..MaxPackets]
      /\ wire \in [Channels -> Seq(Packets \cup {NoPacket})]
      /\ freed \in [Channels -> [Packets -> Nat]] /\ sendOps \in [Channels -> Nat]
  BY DEF TypeOK
<1>2. Packets \cup {NoPacket} \subseteq Nat /\ MaxPackets \in Nat /\ MaxWsaBuf \in Nat \ {0}
  BY ConstantsAssumption DEF Packets, NoPacket
<1>3. /\ sendQ[c] \in Seq(Packets) /\ bufStore[c] \in [Slots -> Packets \cup {NoPacket}]
      /\ bufferCount[c] \in 0..MaxWsaBuf /\ handed[c] \in 0..MaxPackets
      /\ wire[c] \in Seq(Packets \cup {NoPacket})
      /\ freed[c] \in [Packets -> Nat] /\ sendOps[c] \in Nat
  BY <1>1
<1>4. /\ Len(sendQ[c]) \in Nat /\ DOMAIN sendQ[c] = 1..Len(sendQ[c])
      /\ \A i \in DOMAIN sendQ[c] : sendQ[c][i] \in Packets
  BY <1>3, LenProperties, ElementOfSeq
<1>5. /\ Len(wire[c]) \in Nat /\ DOMAIN wire[c] = 1..Len(wire[c])
      /\ \A i \in DOMAIN wire[c] : wire[c][i] \in Packets \cup {NoPacket}
  BY <1>3, LenProperties, ElementOfSeq
<1>6. Gone(c) \subseteq Nat
  BY <1>2, <1>5 DEF Gone
<1>7. handed[c] \in Nat
  BY <1>2, <1>3
<1>8. QED
  BY <1>2, <1>3, <1>4, <1>5, <1>6, <1>7

(* The packets that were freed meanwhile.                                  *)
LEMMA GoneFreed ==
  ASSUME TypeOK, NEW c \in Channels, NEW s \in Seq(Packets \cup {NoPacket}),
         freed' = Frees(c, s), wire'[c] = wire[c]
  PROVE  Gone(c)' \subseteq Gone(c) \cup {s[i] : i \in DOMAIN s}
<1>0. freed \in [Channels -> [Packets -> Nat]]
  BY DEF TypeOK
<1>1. SUFFICES ASSUME NEW p \in Packets, freed'[c][p] # 0, freed[c][p] = 0
               PROVE  \E i \in DOMAIN s : s[i] = p
  BY DEF Gone
<1> DEFINE n == Cardinality({i \in DOMAIN s : s[i] = p})
<1>2. freed'[c][p] = freed[c][p] + n
  BY <1>0 DEF Frees
<1>3. n \in Nat
  <2>1. DOMAIN s = 1..Len(s) /\ Len(s) \in Nat
    BY LenProperties
  <2>2. IsFiniteSet(DOMAIN s)
    BY <2>1, FS_Interval
  <2>3. QED
    BY <2>2, FS_Subset, FS_CardinalityType
<1>4. {i \in DOMAIN s : s[i] = p} = {} => n = 0
  BY FS_EmptySet
<1> HIDE DEF n
<1>5. n # 0
  BY <1>1, <1>2, <1>3
<1>6. QED
  BY <1>4, <1>5

(* Steps that leave the queue, the store and what is gone as they are.     *)
LEMMA OrderUnmoved ==
  ASSUME NEW c \in Channels, OrderOf(c),
         sendQ'[c] = sendQ[c], bufStore'[c] = bufStore[c], handed'[c] = handed[c],
         wire'[c] = wire[c], freed'[c] = freed[c], InFlight(c)',
         \A n \in 0..MaxWsaBuf : Prepared(c, n)' => n = 0 \/ Prepared(c, n)
  PROVE  OrderOf(c)'
<1>1. Gone(c)' = Gone(c)
  BY DEF Gone
<1>2. QueueOrder(c)' /\ StoreOrder(c)' /\ WireOrder(c)'
  BY DEF OrderOf, QueueOrder, StoreOrder, WireOrder, Increasing
<1>3. ASSUME NEW n \in 0..MaxWsaBuf, Prepared(c, n)'
      PROVE  /\ Increasing(bufStore'[c], n)
             /\ \A i \in 1..n : bufStore'[c][i] \in Packets
             /\ \A p \in Gone(c) : \A i \in 1..n : p < bufStore'[c][i]
  <2>1. CASE n = 0
    BY <2>1 DEF Increasing
  <2>2. CASE Prepared(c, n)
    BY <2>2 DEF OrderOf, PreparedOrder, GoneOrder
  <2>3. QED
    BY <1>3, <2>1, <2>2
<1>4. PreparedOrder(c)'
  BY <1>3 DEF PreparedOrder
<1>5. GoneOrder(c)'
  BY <1>1, <1>3 DEF GoneOrder, OrderOf
<1>6. QED
  BY <1>2, <1>4, <1>5 DEF OrderOf

(* The rest of the queue after its head was taken.                         *)
LEMMA RestOfQueue ==
  ASSUME TypeOK, NEW c \in Channels, QueueOrder(c), sendQ[c] # <<>>
  PROVE  /\ Head(sendQ[c]) = sendQ[c][1] /\ 1 \in DOMAIN sendQ[c]
         /\ Len(Tail(sendQ[c])) = Len(sendQ[c]) - 1
         /\ DOMAIN Tail(sendQ[c]) = 1..(Len(sendQ[c]) - 1)
         /\ \A j \in DOMAIN Tail(sendQ[c]) :
              /\ j + 1 \in DOMAIN sendQ[c] /\ Tail(sendQ[c])[j] = sendQ[c][j + 1]
              /\ Head(sendQ[c]) < Tail(sendQ[c])[j]
         /\ Increasing(Tail(sendQ[c]), Len(Tail(sendQ[c])))
<1> DEFINE s == sendQ[c]
<1>1. s \in Seq(Packets) /\ s # <<>> /\ Len(s) \in Nat /\ DOMAIN s = 1..Len(s)
      /\ \A i, j \in 1..Len(s) : i < j => s[i] < s[j]
  BY DataTypes DEF QueueOrder, Increasing
<1> HIDE DEF s
<1>2. /\ Tail(s) \in Seq(Packets) /\ Len(Tail(s)) = Len(s) - 1
      /\ \A j \in 1..Len(Tail(s)) : Tail(s)[j] = s[j + 1]
      /\ Head(s) = s[1] /\ Len(s) > 0
  BY <1>1, HeadTailProperties, EmptySeq
<1>3. DOMAIN Tail(s) = 1..(Len(s) - 1) /\ 1 \in 1..Len(s)
  BY <1>1, <1>2
<1>4. \A j \in 1..(Len(s) - 1) : j \in Int /\ j + 1 \in 1..Len(s) /\ 1 < j + 1
  BY <1>1
<1>5. \A j \in 1..(Len(s) - 1) : s[1] < s[j + 1]
  BY <1>1, <1>3, <1>4
<1>6. \A i, j \in 1..(Len(s) - 1) : i < j => s[i + 1] < s[j + 1]
  <2>1. \A i, j \in 1..(Len(s) - 1) : i < j => i + 1 < j + 1
    BY <1>1
  <2>2. QED
    BY <1>1, <1>4, <2>1
<1>7. Increasing(Tail(s), Len(s) - 1)
  BY <1>2, <1>6 DEF Increasing
<1>8. QED
  BY <1>1, <1>2, <1>3, <1>4, <1>5, <1>7 DEF s

(* Steps after which nothing is prepared: packets went to the wire or were *)
(* freed, all of them before what is queued now.                           *)
LEMMA OrderGone ==
  ASSUME TypeOK, NEW c \in Channels, OrderOf(c),
         \/ sendQ'[c] = sendQ[c]
         \/ sendQ[c] # <<>> /\ sendQ'[c] = Tail(sendQ[c]),
         bufStore'[c] = bufStore[c], handed'[c] = handed[c],
         NEW F, Gone(c)' \subseteq Gone(c) \cup F,
         \A p \in F : p <= handed[c] /\ \A j \in DOMAIN sendQ'[c] : p < sendQ'[c][j],
         WireOrder(c)', InFlight(c)', \A n \in 0..MaxWsaBuf : ~Prepared(c, n)'
  PROVE  OrderOf(c)'
<1>1. QueueOrder(c) /\ StoreOrder(c) /\ GoneOrder(c)
  BY DEF OrderOf
<1>2. /\ Increasing(sendQ'[c], Len(sendQ'[c]))
      /\ \A i \in DOMAIN sendQ'[c] : \E j \in DOMAIN sendQ[c] : sendQ'[c][i] = sendQ[c][j]
  <2>1. CASE sendQ'[c] = sendQ[c]
    BY <1>1, <2>1 DEF QueueOrder
  <2>2. CASE sendQ[c] # <<>> /\ sendQ'[c] = Tail(sendQ[c])
    BY <1>1, <2>2, RestOfQueue
  <2>3. QED
    BY <2>1, <2>2
<1>3. QueueOrder(c)'
  BY <1>1, <1>2 DEF QueueOrder
<1>4. StoreOrder(c)'
  BY <1>1, <1>2 DEF StoreOrder
<1>5. GoneOrder(c)'
  BY <1>1, <1>2 DEF GoneOrder
<1>6. PreparedOrder(c)'
  BY DEF PreparedOrder
<1>7. QED
  BY <1>3, <1>4, <1>5, <1>6 DEF OrderOf

(* A packet is appended to the queue.                                      *)
LEMMA EnqueueOrder ==
  ASSUME ThreadInv, [Next]_vars, NEW c \in Channels, OrderOf(c), NEW a \in Apps, Enqueue(a, c)
  PROVE  OrderOf(c)'
<1> DEFINE h == handed[c] + 1
           q == sendQ[c]
<1>0. /\ TypeOK /\ Control /\ q \in Seq(Packets) /\ handed[c] \in Nat /\ h \in Packets
      /\ Len(q) \in Nat /\ DOMAIN q = 1..Len(q) /\ Gone(c) \subseteq Nat
      /\ bufStore[c] \in [Slots -> Nat] /\ \A i \in DOMAIN q : q[i] \in Nat
  <2>1. TypeOK /\ Control
    BY DEF ThreadInv
  <2>2. handed[c] < MaxPackets /\ handed[c] \in Nat /\ MaxPackets \in Nat
    BY <2>1, DataTypes, ConstantsAssumption DEF Enqueue
  <2>3. h \in Packets
    BY <2>2 DEF Packets
  <2>4. Packets \cup {NoPacket} \subseteq Nat
    BY <2>1, DataTypes
  <2>5. bufStore[c] \in [Slots -> Nat]
    BY <2>1, <2>4, DataTypes
  <2>6. \A i \in DOMAIN q : q[i] \in Nat
    BY <2>1, <2>4, DataTypes
  <2>7. QED
    BY <2>1, <2>2, <2>3, <2>5, <2>6, DataTypes
<1>1. /\ sendQ' = [sendQ EXCEPT ![c] = Append(@, handed'[c])]
      /\ handed' = [handed EXCEPT ![c] = @ + 1]
      /\ UNCHANGED <<bufStore, bufferCount, wire, freed, sendOps>>
  BY DEF Enqueue
<1>2. handed'[c] = h /\ sendQ'[c] = Append(q, h)
  BY <1>0, <1>1 DEF TypeOK
<1>3. Gone(c)' = Gone(c)
  BY <1>1 DEF Gone
<1>4. \A n \in 0..MaxWsaBuf : Prepared(c, n)' => n = 0 \/ Prepared(c, n)
  <2>1. ~\E t \in Threads : cur[t] = c /\ StoreStep(t)
    <3>1. SUFFICES ASSUME NEW t \in Threads, StoreStep(t) PROVE FALSE
      OBVIOUS
    <3>2. sendQ'[c] # sendQ[c] /\ handed'[c] # handed[c]
      BY <1>0, <1>2, AppendProperties
    <3>3. UNCHANGED handed
      BY <3>1 DEF StoreStep, ReleaseStore, ReleaseQueue, FreeSent, Dequeue, DequeueInto, WSASend
    <3>4. QED
      BY <3>2, <3>3
  <2>2. QED
    BY <1>1, <2>1, PreparedBefore
<1>5. /\ QueueOrder(c) /\ StoreOrder(c) /\ PreparedOrder(c) /\ GoneOrder(c)
      /\ WireOrder(c) /\ InFlight(c)
  BY DEF OrderOf
<1>6. /\ Len(Append(q, h)) = Len(q) + 1 /\ DOMAIN Append(q, h) = 1..(Len(q) + 1)
      /\ Append(q, h)[Len(q) + 1] = h
      /\ \A i \in 1..Len(q) : Append(q, h)[i] = q[i]
  <2> HIDE DEF h, q
  <2>1. QED
    BY <1>0, AppendProperties
<1>7. \A i \in 1..Len(q) : q[i] < h
  BY <1>0, <1>5 DEF QueueOrder
<1>8. QueueOrder(c)'
  <2>1. ASSUME NEW i \in 1..(Len(q) + 1), NEW j \in 1..(Len(q) + 1), i < j
        PROVE  Append(q, h)[i] < Append(q, h)[j]
    <3>1. i \in 1..Len(q)
      BY <1>0, <2>1
    <3>2. CASE j = Len(q) + 1
      BY <1>6, <1>7, <3>1, <3>2
    <3>3. CASE j \in 1..Len(q)
      BY <1>5, <1>6, <2>1, <3>1, <3>3 DEF QueueOrder, Increasing
    <3>4. QED
      BY <1>0, <2>1, <3>2, <3>3
  <2>2. ASSUME NEW i \in 1..(Len(q) + 1) PROVE Append(q, h)[i] <= h
    <3>1. CASE i = Len(q) + 1
      BY <1>0, <1>6, <3>1
    <3>2. CASE i \in 1..Len(q)
      BY <1>0, <1>6, <1>7, <3>2
    <3>3. QED
      BY <1>0, <2>2, <3>1, <3>2
  <2>3. QED
    BY <1>2, <1>6, <2>1, <2>2 DEF QueueOrder, Increasing
<1>9. ASSUME NEW p \in Nat, p <= handed[c], \A j \in DOMAIN q : p < q[j]
      PROVE  p <= h /\ \A j \in 1..(Len(q) + 1) : p < Append(q, h)[j]
  <2>1. p <= h /\ p < h
    BY <1>0, <1>9
  <2>2. ASSUME NEW j \in 1..(Len(q) + 1) PROVE p < Append(q, h)[j]
    <3>1. CASE j = Len(q) + 1
      BY <1>6, <2>1, <3>1
    <3>2. CASE j \in 1..Len(q)
      BY <1>0, <1>6, <1>9, <3>2
    <3>3. QED
      BY <1>0, <2>2, <3>1, <3>2
  <2>3. QED
    BY <2>1, <2>2
<1> HIDE DEF h
<1>10. StoreOrder(c)'
  <2>1. ASSUME NEW i \in Slots
        PROVE  /\ bufStore[c][i] <= h
               /\ \A j \in 1..(Len(q) + 1) : bufStore[c][i] < Append(q, h)[j]
    <3>1. bufStore[c][i] \in Nat
      BY <1>0
    <3>2. QED
      BY <1>5, <1>9, <3>1 DEF StoreOrder
  <2>2. QED
    BY <1>1, <1>2, <1>6, <2>1 DEF StoreOrder
<1>11. ASSUME NEW n \in 0..MaxWsaBuf, Prepared(c, n)'
       PROVE  /\ Increasing(bufStore[c], n)
              /\ \A i \in 1..n : bufStore[c][i] \in Packets
              /\ \A p \in Gone(c) : \A i \in 1..n : p < bufStore[c][i]
  <2>1. CASE n = 0
    BY <2>1 DEF Increasing
  <2>2. CASE Prepared(c, n)
    BY <1>5, <2>2 DEF PreparedOrder, GoneOrder
  <2>3. QED
    BY <1>4, <1>11, <2>1, <2>2
<1>12. PreparedOrder(c)'
  BY <1>1, <1>11 DEF PreparedOrder
<1>13. GoneOrder(c)'
  <2>1. ASSUME NEW p \in Gone(c)
        PROVE  p <= h /\ \A j \in 1..(Len(q) + 1) : p < Append(q, h)[j]
    <3>1. p \in Nat
      BY <1>0
    <3>2. QED
      BY <1>5, <1>9, <3>1 DEF GoneOrder
  <2>2. QED
    BY <1>1, <1>2, <1>3, <1>6, <1>11, <2>1 DEF GoneOrder
<1>14. WireOrder(c)' /\ InFlight(c)'
  BY <1>1, <1>5 DEF WireOrder, InFlight, Increasing
<1>15. QED
  BY <1>8, <1>10, <1>12, <1>13, <1>14 DEF OrderOf

(* What makes one thread at a time use bufStore.                           *)
Serialized ==
  ThreadInv /\ RefCountExact /\ SendExclusive /\ SendersGuarded /\ ReleasedAlone

(* The sender dequeues the next packet, or counts what it has.             *)
LEMMA DequeueOrder ==
  ASSUME Serialized, LoopsFed, [Next]_vars, NEW c \in Guarded, OrderOf(c),
         NEW t \in Threads, cur[t] = c, Dequeue(t)
  PROVE  OrderOf(c)'
<1>0. /\ ThreadInv /\ RefCountExact /\ SendExclusive /\ SendersGuarded /\ ReleasedAlone
      /\ TypeOK /\ Control /\ Loops /\ c \in Channels
      /\ CallStep(t) /\ pc[t] = "dequeue" /\ pc[t] \in UserLabels
  BY StoreStepAt DEF Serialized, ThreadInv, Guarded, StoreStep, Dequeue, DequeueInto
<1>1. sendOps[c] = 0 /\ UNCHANGED <<sendOps, handed, wire, freed>>
  BY <1>0, OneUser DEF Dequeue, DequeueInto
<1>2. InFlight(c)'
  BY <1>1 DEF InFlight
<1>3. /\ want[t] \in 1..MaxWsaBuf /\ got[t] \in Nat /\ got[t] <= want[t] /\ MaxWsaBuf \in Nat
      /\ got \in [Threads -> Nat] /\ pc \in [Threads -> Labels]
      /\ bufferCount \in [Channels -> 0..MaxWsaBuf]
  BY <1>0, ConstantsAssumption DEF Loops, Slots, TypeOK
<1>4. got[t] \in 0..MaxWsaBuf /\ Prepared(c, got[t])
  BY <1>0, <1>3 DEF Prepared
<1>5. CASE got[t] = want[t]
  <2>1. /\ bufferCount' = [bufferCount EXCEPT ![c] = want[t]] /\ EndLoop(t, "sendCount")
        /\ UNCHANGED <<sendQ, bufStore>>
    BY <1>5 DEF Dequeue, DequeueInto
  <2>2. pc'[t] = "sendCount" /\ bufferCount'[c] = got[t]
    BY <1>0, <1>3, <1>5, <2>1 DEF EndLoop
  <2>3. ASSUME NEW n \in 0..MaxWsaBuf, Prepared(c, n)' PROVE Prepared(c, n)
    <3>1. n = got[t]
      BY <1>0, <2>2, <2>3, PreparedByUser
    <3>2. QED
      BY <1>4, <3>1
  <2>4. QED
    BY <1>0, <1>1, <1>2, <2>1, <2>3, OrderUnmoved
<1>6. CASE got[t] # want[t]
  <2> DEFINE g == got[t] + 1
             h == Head(sendQ[c])
             q == Tail(sendQ[c])
             b == bufStore[c]
  <2>1. want[t] - got[t] > 0 /\ g \in Slots /\ g \in 0..MaxWsaBuf
    BY <1>3, <1>6 DEF Slots
  <2>2. sendQ[c] # <<>>
    <3>1. want[t] - got[t] <= Len(sendQ[c])
      BY <1>0 DEF LoopsFed
    <3>2. Len(sendQ[c]) \in Nat
      BY <1>0, DataTypes
    <3>3. Len(sendQ[c]) # 0
      BY <1>3, <2>1, <3>1, <3>2
    <3>4. QED
      BY <3>3
  <2>3. /\ bufStore' = [bufStore EXCEPT ![c][g] = h]
        /\ sendQ' = [sendQ EXCEPT ![c] = Tail(@)]
        /\ got' = [got EXCEPT ![t] = @ + 1] /\ UNCHANGED <<pc, cur>>
    BY <1>6, <2>2 DEF Dequeue, DequeueInto
  <2>4. /\ OrderOf(c) /\ QueueOrder(c) /\ StoreOrder(c) /\ PreparedOrder(c) /\ GoneOrder(c)
        /\ WireOrder(c)
    BY DEF OrderOf
  <2>5. /\ h = sendQ[c][1] /\ 1 \in DOMAIN sendQ[c] /\ Increasing(q, Len(q))
        /\ \A j \in DOMAIN q : /\ j + 1 \in DOMAIN sendQ[c] /\ q[j] = sendQ[c][j + 1]
                               /\ h < q[j]
    BY <1>0, <2>2, <2>4, RestOfQueue
  <2>6. /\ sendQ'[c] = q /\ got'[t] = g /\ pc'[t] = "dequeue"
        /\ bufStore'[c] = [b EXCEPT ![g] = h]
    BY <1>0, <1>3, <2>3 DEF TypeOK
  <2>7. /\ bufStore'[c][g] = h /\ h \in Packets
        /\ \A i \in Slots : i # g => bufStore'[c][i] = b[i]
    BY <1>0, <2>1, <2>5, <2>6, DataTypes
  <2>8. /\ h <= handed[c]
        /\ \A i \in Slots : b[i] <= handed[c] /\ b[i] < h /\ \A j \in DOMAIN q : b[i] < q[j]
    BY <2>4, <2>5 DEF QueueOrder, StoreOrder
  <2> HIDE DEF q, h, b
  <2>9. QueueOrder(c)'
    BY <1>1, <2>4, <2>5, <2>6 DEF QueueOrder
  <2>10. StoreOrder(c)'
    <3>1. ASSUME NEW i \in Slots
          PROVE  bufStore'[c][i] <= handed[c] /\ \A j \in DOMAIN q : bufStore'[c][i] < q[j]
      BY <2>5, <2>7, <2>8
    <3>2. QED
      BY <1>1, <2>6, <3>1 DEF StoreOrder
  <2>11. ASSUME NEW n \in 0..MaxWsaBuf, Prepared(c, n)' PROVE n = g
    BY <1>0, <2>6, <2>11, PreparedByUser
  <2>12. \A i \in 1..g : /\ i \in Slots /\ (i = g \/ i \in 1..got[t])
                         /\ i # g => bufStore'[c][i] = b[i]
    <3>1. \A i \in 1..g : i \in Slots /\ (i = g \/ i \in 1..got[t])
      BY <1>3, <2>1 DEF Slots
    <3>2. QED
      BY <2>7, <3>1
  <2>13. /\ Increasing(b, got[t])
         /\ \A i \in 1..got[t] : b[i] \in Packets
         /\ \A p \in Gone(c) : \A i \in 1..got[t] : p < b[i]
    BY <1>4, <2>4 DEF PreparedOrder, GoneOrder, b
  <2>14. Increasing(bufStore'[c], g)
    <3>1. ASSUME NEW i \in 1..g, NEW j \in 1..g, i < j PROVE bufStore'[c][i] < bufStore'[c][j]
      <4>1. i \in 1..got[t] /\ i # g /\ bufStore'[c][i] = b[i] /\ i \in Slots
        BY <1>3, <2>12, <3>1
      <4>2. CASE j = g
        BY <2>7, <2>8, <4>1, <4>2
      <4>3. CASE j \in 1..got[t] /\ j # g
        BY <2>12, <2>13, <3>1, <4>1, <4>3 DEF Increasing
      <4>4. QED
        BY <2>12, <3>1, <4>2, <4>3
    <3>2. QED
      BY <3>1 DEF Increasing
  <2>15. \A i \in 1..g : bufStore'[c][i] \in Packets
    BY <2>7, <2>12, <2>13
  <2>16. PreparedOrder(c)'
    BY <2>11, <2>14, <2>15 DEF PreparedOrder
  <2>17. Gone(c)' = Gone(c)
    BY <1>1 DEF Gone
  <2>18. ASSUME NEW p \in Gone(c)
         PROVE  /\ p <= handed[c] /\ \A j \in DOMAIN q : p < q[j]
                /\ \A i \in 1..g : p < bufStore'[c][i]
    <3>1. p <= handed[c] /\ p < h /\ \A j \in DOMAIN q : p < q[j]
      BY <2>4, <2>5 DEF GoneOrder
    <3>2. \A i \in 1..g : p < bufStore'[c][i]
      BY <2>7, <2>12, <2>13, <3>1
    <3>3. QED
      BY <3>1, <3>2
  <2>19. GoneOrder(c)'
    BY <1>1, <2>6, <2>11, <2>17, <2>18 DEF GoneOrder
  <2>20. WireOrder(c)'
    BY <1>1, <2>4 DEF WireOrder, Increasing
  <2>21. QED
    BY <1>2, <2>9, <2>10, <2>16, <2>19, <2>20 DEF OrderOf
<1>7. QED
  BY <1>5, <1>6

(* What is stored was handed over, and before what is queued.              *)
LEMMA StoredOrder ==
  ASSUME TypeOK, NEW c \in Channels, StoreOrder(c), NEW i \in DOMAIN Stored(c)
  PROVE  /\ i \in 1..bufferCount[c] /\ Stored(c)[i] = bufStore[c][i]
         /\ Stored(c)[i] <= handed[c] /\ \A j \in DOMAIN sendQ[c] : Stored(c)[i] < sendQ[c][j]
<1>1. /\ DOMAIN Stored(c) = 1..bufferCount[c] /\ Stored(c)[i] = bufStore[c][i]
      /\ 1..bufferCount[c] \subseteq Slots
  <2>1. DOMAIN Stored(c) = 1..Len(Stored(c))
    BY StoredType, LenProperties
  <2>2. QED
    BY <2>1, StoredType
<1>2. QED
  BY <1>1 DEF StoreOrder

(* The send is posted, or fails.                                           *)
LEMMA WSASendOrder ==
  ASSUME Serialized, [Next]_vars, NEW c \in Guarded, OrderOf(c),
         NEW t \in Threads, cur[t] = c, WSASend(t)
  PROVE  OrderOf(c)'
<1> DEFINE m == bufferCount[c]
           w == wire[c]
           st == Stored(c)
           b == bufStore[c]
<1>0. /\ ThreadInv /\ RefCountExact /\ SendExclusive /\ SendersGuarded /\ ReleasedAlone
      /\ TypeOK /\ c \in Channels /\ pc \in [Threads -> Labels]
      /\ CallStep(t) /\ pc[t] = "WSASend" /\ pc[t] \in UserLabels
      /\ UNCHANGED <<sendQ, bufStore, bufferCount, handed, freed>>
  BY StoreStepAt DEF Serialized, ThreadInv, TypeOK, Guarded, StoreStep, WSASend
<1>1. sendOps[c] = 0
  BY <1>0, OneUser
<1>2. pc'[t] \in {"cas", "undoSend"}
  <2>1. ThreadOK
    BY <1>0 DEF ThreadInv, TypeOK, ThreadOK, ThreadTypeOK
  <2>2. QED
    BY <1>0, <2>1, StepTo
<1>3. \A n \in 0..MaxWsaBuf : ~Prepared(c, n)'
  BY <1>0, <1>2, PreparedByUser
<1>4. /\ QueueOrder(c) /\ StoreOrder(c) /\ PreparedOrder(c) /\ GoneOrder(c) /\ WireOrder(c)
  BY DEF OrderOf
<1>5. m \in 0..MaxWsaBuf /\ Prepared(c, m)
  BY <1>0, DataTypes DEF Prepared
<1>6. /\ Increasing(b, m)
      /\ \A i \in 1..m : b[i] \in Packets
      /\ \A p \in Gone(c) : \A i \in 1..m : p < b[i]
  BY <1>4, <1>5 DEF PreparedOrder, GoneOrder
<1>7. \A i \in 1..m : freed[c][b[i]] = 0
  <2>1. SUFFICES ASSUME NEW i \in 1..m, freed[c][b[i]] # 0 PROVE FALSE
    OBVIOUS
  <2>2. b[i] \in Gone(c) /\ b[i] \in Nat
    <3>1. b[i] \in Packets /\ Packets \subseteq Nat
      BY <1>0, <1>6, DataTypes
    <3>2. QED
      BY <2>1, <3>1 DEF Gone
  <2>3. b[i] < b[i]
    BY <1>6, <2>2
  <2>4. QED
    BY <2>2, <2>3
<1>8. InFlight(c)'
  BY <1>0, <1>6, <1>7 DEF InFlight
<1>9. CASE wire'[c] = w
  BY <1>0, <1>3, <1>8, <1>9, OrderUnmoved
<1>10. CASE wire'[c] = w \o st
  <2>1. /\ st \in Seq(Packets \cup {NoPacket}) /\ Len(st) = m /\ m \in Nat
        /\ \A i \in 1..m : st[i] = b[i]
        /\ w \in Seq(Packets \cup {NoPacket}) /\ Len(w) \in Nat
        /\ DOMAIN w = 1..Len(w) /\ \A i \in DOMAIN w : w[i] \in Nat
    <3>1. Packets \cup {NoPacket} \subseteq Nat
      BY <1>0, DataTypes
    <3>2. QED
      BY <1>0, <3>1, StoredType, DataTypes
  <2>2. /\ Len(w \o st) = Len(w) + m /\ DOMAIN (w \o st) = 1..(Len(w) + m)
        /\ \A i \in 1..(Len(w) + m) : (w \o st)[i] = IF i <= Len(w) THEN w[i] ELSE st[i - Len(w)]
    <3> HIDE DEF w, st, m
    <3>1. /\ w \o st \in Seq(Packets \cup {NoPacket}) /\ Len(w \o st) = Len(w) + Len(st)
          /\ \A i \in 1..(Len(w) + Len(st)) :
               (w \o st)[i] = IF i <= Len(w) THEN w[i] ELSE st[i - Len(w)]
      BY <2>1, ConcatProperties
    <3>2. DOMAIN (w \o st) = 1..Len(w \o st)
      BY <3>1, LenProperties
    <3>3. QED
      BY <2>1, <3>1, <3>2
  <2>3. \A i \in 1..(Len(w) + m) :
          \/ i \in 1..Len(w) /\ (w \o st)[i] = w[i]
          \/ i > Len(w) /\ i - Len(w) \in 1..m /\ (w \o st)[i] = b[i - Len(w)]
    <3>1. ASSUME NEW i \in 1..(Len(w) + m), ~(i <= Len(w)) PROVE i - Len(w) \in 1..m /\ i > Len(w)
      BY <2>1, <3>1
    <3>2. ASSUME NEW i \in 1..(Len(w) + m), i <= Len(w) PROVE i \in 1..Len(w)
      BY <2>1, <3>2
    <3> HIDE DEF w, st, m, b
    <3>3. QED
      BY <2>1, <2>2, <3>1, <3>2
  <2>4. \A i \in 1..Len(w) : w[i] \in Gone(c)
    BY <2>1 DEF Gone
  <2>5. \A i, j \in 1..Len(w) : i < j => w[i] < w[j]
    BY <1>4 DEF WireOrder, Increasing
  <2>6. \A i, j \in 1..m : i < j => b[i] < b[j]
    BY <1>6 DEF Increasing
  <2>7. ASSUME NEW i \in 1..(Len(w) + m), NEW j \in 1..(Len(w) + m), i < j
        PROVE  (w \o st)[i] < (w \o st)[j]
    <3> HIDE DEF w, st, m, b
    <3>1. CASE i \in 1..Len(w) /\ j \in 1..Len(w)
      BY <2>1, <2>3, <2>5, <2>7, <3>1
    <3>2. CASE i \in 1..Len(w) /\ j > Len(w)
      BY <1>6, <2>1, <2>3, <2>4, <3>2
    <3>3. CASE i > Len(w) /\ j > Len(w)
      <4>1. /\ i - Len(w) \in 1..m /\ (w \o st)[i] = b[i - Len(w)]
            /\ j - Len(w) \in 1..m /\ (w \o st)[j] = b[j - Len(w)]
        BY <2>1, <2>3, <3>3
      <4>2. i - Len(w) < j - Len(w)
        BY <2>1, <2>7
      <4>3. QED
        BY <2>6, <4>1, <4>2
    <3>4. QED
      BY <2>1, <2>3, <2>7, <3>1, <3>2, <3>3
  <2>8. WireOrder(c)'
    BY <1>10, <2>2, <2>7 DEF WireOrder, Increasing
  <2> DEFINE F == {b[i] : i \in 1..m}
  <2>9. Gone(c)' \subseteq Gone(c) \cup F
    <3>1. SUFFICES ASSUME NEW p, p \in Gone(c)', p \notin Gone(c) PROVE \E i \in 1..m : b[i] = p
      OBVIOUS
    <3>2. PICK i \in 1..(Len(w) + m) : p = (w \o st)[i]
      BY <1>0, <1>10, <2>2, <3>1 DEF Gone
    <3>3. QED
      BY <2>3, <2>4, <3>1, <3>2
  <2>10. \A i \in 1..m : b[i] <= handed[c] /\ \A j \in DOMAIN sendQ[c] : b[i] < sendQ[c][j]
    BY <1>0, <1>4, StoredType DEF StoreOrder
  <2>11. \A p \in F : p <= handed[c] /\ \A j \in DOMAIN sendQ'[c] : p < sendQ'[c][j]
    BY <1>0, <2>10
  <2> HIDE DEF F
  <2>12. QED
    BY <1>0, <1>3, <1>8, <2>8, <2>9, <2>11, OrderGone
<1>11. wire'[c] = w \/ wire'[c] = w \o st
  BY <1>0 DEF WSASend, Stored, TypeOK
<1>12. QED
  BY <1>9, <1>10, <1>11

(* The buffers of the store are freed, after a send or by the release.     *)
LEMMA StoreFreedOrder ==
  ASSUME Serialized, [Next]_vars, NEW c \in Guarded, OrderOf(c),
         NEW t \in Threads, cur[t] = c, FreeSent(t) \/ ReleaseStore(t)
  PROVE  OrderOf(c)'
<1>0. /\ ThreadInv /\ RefCountExact /\ SendExclusive /\ SendersGuarded /\ ReleasedAlone
      /\ TypeOK /\ ThreadOK /\ c \in Channels /\ pc \in [Threads -> Labels]
      /\ CallStep(t) /\ pc[t] \in {"sent", "release"} /\ pc[t] \in UserLabels
      /\ UNCHANGED <<sendQ, bufStore, handed, wire, sendOps>>
      /\ freed' = Frees(c, Stored(c))
  BY StoreStepAt
     DEF Serialized, ThreadInv, TypeOK, ThreadOK, ThreadTypeOK, Guarded, StoreStep, FreeSent,
         ReleaseStore, Stored
<1>1. sendOps[c] = 0
  BY <1>0, OneUser
<1>2. pc'[t] \in {"resetMode", "drain"}
  BY <1>0, StepTo
<1>3. \A n \in 0..MaxWsaBuf : ~Prepared(c, n)'
  BY <1>0, <1>2, PreparedByUser
<1>4. StoreOrder(c) /\ WireOrder(c)
  BY DEF OrderOf
<1>5. InFlight(c)' /\ WireOrder(c)'
  BY <1>0, <1>1, <1>4 DEF InFlight, WireOrder, Increasing
<1>6. Gone(c)' \subseteq Gone(c) \cup {Stored(c)[i] : i \in DOMAIN Stored(c)}
  <2>1. Stored(c) \in Seq(Packets \cup {NoPacket})
    BY <1>0, StoredType
  <2>2. QED
    BY <1>0, <2>1, GoneFreed
<1>7. \A p \in {Stored(c)[i] : i \in DOMAIN Stored(c)} :
        p <= handed[c] /\ \A j \in DOMAIN sendQ[c] : p < sendQ[c][j]
  BY <1>0, <1>4, StoredOrder
<1>8. QED
  BY <1>0, <1>3, <1>5, <1>6, <1>7, OrderGone

(* The release frees what is queued.                                       *)
LEMMA ReleaseQueueOrder ==
  ASSUME Serialized, LoopsFed, [Next]_vars, NEW c \in Guarded, OrderOf(c),
         NEW t \in Threads, cur[t] = c, ReleaseQueue(t)
  PROVE  OrderOf(c)'
<1>0. /\ ThreadInv /\ RefCountExact /\ SendExclusive /\ SendersGuarded /\ ReleasedAlone
      /\ TypeOK /\ ThreadOK /\ Loops /\ c \in Channels /\ pc \in [Threads -> Labels]
      /\ CallStep(t) /\ pc[t] = "drain" /\ pc[t] \in UserLabels
      /\ UNCHANGED <<bufStore, handed, wire, sendOps>>
  BY StoreStepAt
     DEF Serialized, ThreadInv, TypeOK, ThreadOK, ThreadTypeOK, Guarded, StoreStep, ReleaseQueue
<1>1. sendOps[c] = 0
  BY <1>0, OneUser
<1>2. pc'[t] \in {"drain", "close"}
  BY <1>0, StepTo
<1>3. \A n \in 0..MaxWsaBuf : ~Prepared(c, n)'
  BY <1>0, <1>2, PreparedByUser
<1>4. QueueOrder(c) /\ StoreOrder(c) /\ WireOrder(c)
  BY DEF OrderOf
<1>5. InFlight(c)' /\ WireOrder(c)'
  BY <1>0, <1>1, <1>4 DEF InFlight, WireOrder, Increasing
<1>6. CASE got[t] = want[t]
  <2>1. UNCHANGED <<sendQ, freed>>
    BY <1>6 DEF ReleaseQueue
  <2>2. QED
    BY <1>0, <1>3, <1>5, <2>1, OrderUnmoved
<1>7. CASE got[t] # want[t]
  <2>1. sendQ[c] # <<>>
    <3>1. /\ want[t] - got[t] <= Len(sendQ[c]) /\ Len(sendQ[c]) \in Nat
          /\ got[t] \in Nat /\ want[t] \in Nat /\ got[t] <= want[t]
      BY <1>0, DataTypes DEF LoopsFed, Loops, TypeOK
    <3>2. Len(sendQ[c]) # 0
      BY <1>7, <3>1
    <3>3. QED
      BY <3>2
  <2> DEFINE h == Head(sendQ[c])
  <2>2. /\ freed' = Frees(c, <<h>>) /\ sendQ' = [sendQ EXCEPT ![c] = Tail(@)]
    BY <1>7, <2>1 DEF ReleaseQueue
  <2>3. sendQ'[c] = Tail(sendQ[c])
    BY <1>0, <2>2 DEF TypeOK
  <2>4. /\ h = sendQ[c][1] /\ 1 \in DOMAIN sendQ[c] /\ h \in Packets
        /\ \A j \in DOMAIN Tail(sendQ[c]) : h < Tail(sendQ[c])[j]
    BY <1>0, <1>4, <2>1, RestOfQueue, DataTypes
  <2>5. h <= handed[c]
    BY <1>4, <2>4 DEF QueueOrder
  <2> HIDE DEF h
  <2>6. Gone(c)' \subseteq Gone(c) \cup {h}
    <3>1. <<h>> \in Seq(Packets \cup {NoPacket})
      BY <2>4
    <3>2. Gone(c)' \subseteq Gone(c) \cup {<<h>>[i] : i \in DOMAIN <<h>>}
      BY <1>0, <2>2, <3>1, GoneFreed
    <3>3. {<<h>>[i] : i \in DOMAIN <<h>>} \subseteq {h}
      OBVIOUS
    <3>4. QED
      BY <3>2, <3>3
  <2>7. QED
    BY <1>0, <1>3, <1>5, <2>1, <2>3, <2>4, <2>5, <2>6, OrderGone
<1>8. QED
  BY <1>6, <1>7

(* Every step keeps the packets of guarded channels in order.              *)
LEMMA PacketOrderStep ==
  ASSUME Serialized, LoopsFed, PacketOrder, [Next]_vars PROVE PacketOrder'
<1>0. /\ ThreadInv /\ TypeOK /\ Control /\ unguarded \subseteq unguarded'
  BY UnguardedGrows DEF Serialized, ThreadInv
<1>1. SUFFICES ASSUME NEW c \in Channels, c \notin unguarded' PROVE OrderOf(c)'
  BY DEF PacketOrder, Guarded, OrderOf
<1>2. c \in Guarded /\ OrderOf(c)
  BY <1>0, <1>1 DEF PacketOrder, Guarded, OrderOf
<1>3. CASE \E t \in Threads : cur[t] = c /\ StoreStep(t)
  BY <1>2, <1>3, DequeueOrder, WSASendOrder, StoreFreedOrder, ReleaseQueueOrder DEF StoreStep
<1>4. CASE \E a \in Apps : Enqueue(a, c)
  BY <1>0, <1>2, <1>4, EnqueueOrder
<1>5. CASE /\ ~\E t \in Threads : cur[t] = c /\ StoreStep(t)
           /\ sendQ'[c] = sendQ[c] /\ bufStore'[c] = bufStore[c]
           /\ bufferCount'[c] = bufferCount[c] /\ handed'[c] = handed[c]
           /\ wire'[c] = wire[c] /\ freed'[c] = freed[c]
  <2>1. \A n \in 0..MaxWsaBuf : Prepared(c, n)' => n = 0 \/ Prepared(c, n)
    BY <1>0, <1>5, PreparedBefore
  <2>2. sendOps'[c] > 0 => sendOps[c] > 0
    <3>1. sendOps \in [Channels -> Nat]
      BY <1>0 DEF TypeOK
    <3>2. ASSUME NEW t \in Threads, WSASend(t) PROVE sendOps'[c] = sendOps[c]
      <4>1. cur[t] # c
        BY <1>5, <3>2 DEF StoreStep
      <4>2. sendOps' = sendOps \/ sendOps' = [sendOps EXCEPT ![cur[t]] = @ + 1]
        BY <3>2 DEF WSASend
      <4>3. QED
        BY <3>1, <4>1, <4>2
    <3>3. ASSUME NEW w \in Workers, NEW d \in Channels, DequeueSend(w, d)
          PROVE  sendOps'[c] > 0 => sendOps[c] > 0
      BY <3>1, <3>3 DEF DequeueSend
    <3>4. \/ \E t \in Threads : WSASend(t)
          \/ \E w \in Workers, d \in Channels : DequeueSend(w, d)
          \/ UNCHANGED sendOps
      BY KernelChange DEF CloseSocket, WSARecv, NewSocket, Connect, DequeueRecv, ConnectionLost
    <3>5. QED
      BY <3>2, <3>3, <3>4
  <2>3. InFlight(c)'
    BY <1>2, <1>5, <2>2 DEF OrderOf, InFlight
  <2>4. QED
    BY <1>2, <1>5, <2>1, <2>3, OrderUnmoved
<1>6. QED
  BY <1>0, <1>3, <1>4, <1>5, SendVarsAt

(* Nobody takes packets from a thread in a loop.                           *)
LEMMA LoopsFedStep ==
  ASSUME Serialized, LoopsFed, [Next]_vars PROVE LoopsFed'
<1>0. /\ ThreadInv /\ RefCountExact /\ SendExclusive /\ SendersGuarded /\ ReleasedAlone
      /\ TypeOK /\ Control /\ ThreadOK /\ unguarded \subseteq unguarded'
      /\ want \in [Threads -> Nat] /\ got \in [Threads -> Nat] /\ pc \in [Threads -> Labels]
      /\ sendQ \in [Channels -> Seq(Packets)] /\ NoChannel \notin Channels
  BY UnguardedGrows, ConstantsAssumption
     DEF Serialized, ThreadInv, TypeOK, ThreadOK, ThreadTypeOK
<1>1. SUFFICES ASSUME NEW t \in Threads, cur'[t] \in Channels, cur'[t] \notin unguarded',
                      pc'[t] \in {"dequeue", "drain"}
               PROVE  want'[t] - got'[t] <= Len(sendQ'[cur'[t]])
  BY DEF LoopsFed, Guarded
<1>2. /\ cur'[t] = cur[t]
      /\ \/ CallStep(t) /\ pc[t] \in {"size", "dequeue", "release", "drain", "sendCount"}
         \/ pc'[t] = pc[t] /\ got'[t] = got[t] /\ want'[t] = want[t]
  BY <1>0, <1>1, WasUser
<1> DEFINE c == cur[t]
<1>3. c \in Guarded /\ c \in Channels
  BY <1>0, <1>1, <1>2 DEF Guarded
<1>4. Len(sendQ[c]) \in Nat /\ want[t] \in Nat /\ got[t] \in Nat /\ sendQ[c] \in Seq(Packets)
  BY <1>0, <1>3
<1>5. CASE CallStep(t) /\ pc[t] \in {"size", "release"}
  <2>1. /\ UNCHANGED sendQ
        /\ \E n \in Nat : Loop(t, n, pc'[t]) /\ n <= Len(sendQ[c])
    <3>1. CASE pc[t] = "size"
      <4>1. UseSize(t) /\ pc'[t] = "dequeue"
        BY <1>0, <1>1, <1>5, <3>1, StepAt, StepTo
      <4>2. ~Goto(t, "reset")
        BY <1>0, <4>1 DEF Goto
      <4>3. /\ UNCHANGED sendQ
            /\ Loop(t, IF MaxWsaBuf < Len(sendQ[c]) THEN MaxWsaBuf ELSE Len(sendQ[c]), "dequeue")
        BY <4>1, <4>2 DEF UseSize
      <4> DEFINE n == IF MaxWsaBuf < Len(sendQ[c]) THEN MaxWsaBuf ELSE Len(sendQ[c])
      <4>4. n \in Nat /\ n <= Len(sendQ[c])
        BY <1>4, ConstantsAssumption
      <4>5. QED
        BY <4>1, <4>3, <4>4
    <3>2. CASE pc[t] = "release"
      <4>1. ReleaseStore(t) /\ pc'[t] = "drain"
        BY <1>0, <1>5, <3>2, StepAt, StepTo
      <4>2. UNCHANGED sendQ /\ Loop(t, Len(sendQ[c]), "drain")
        BY <4>1 DEF ReleaseStore
      <4>3. QED
        BY <1>4, <4>1, <4>2
    <3>3. QED
      BY <1>5, <3>1, <3>2
  <2>2. PICK n \in Nat : Loop(t, n, pc'[t]) /\ n <= Len(sendQ[c])
    BY <2>1
  <2>3. want'[t] = n /\ got'[t] = 0
    BY <1>0, <2>2 DEF Loop
  <2>4. QED
    BY <1>2, <1>4, <2>1, <2>2, <2>3
<1>6. CASE CallStep(t) /\ pc[t] \in {"dequeue", "drain"}
  <2>1. want[t] - got[t] <= Len(sendQ[c])
    BY <1>3, <1>6 DEF LoopsFed
  <2>2. /\ got' = [got EXCEPT ![t] = @ + 1] /\ UNCHANGED want
        /\ \/ sendQ[c] = <<>> /\ UNCHANGED sendQ
           \/ sendQ[c] # <<>> /\ sendQ' = [sendQ EXCEPT ![c] = Tail(@)]
    <3>1. Dequeue(t) \/ ReleaseQueue(t)
      BY <1>6, StepAt
    <3>2. ~EndLoop(t, "sendCount") /\ ~EndLoop(t, "close")
      BY <1>0, <1>1 DEF EndLoop
    <3>3. CASE Dequeue(t)
      BY <3>2, <3>3 DEF Dequeue, DequeueInto
    <3>4. CASE ReleaseQueue(t)
      BY <3>2, <3>4 DEF ReleaseQueue
    <3>5. QED
      BY <3>1, <3>3, <3>4
  <2>3. got'[t] = got[t] + 1 /\ want'[t] = want[t]
    BY <1>0, <2>2
  <2>4. Len(sendQ'[c]) \in Nat /\ Len(sendQ'[c]) >= Len(sendQ[c]) - 1
    <3>1. CASE UNCHANGED sendQ
      BY <1>4, <3>1
    <3>2. CASE sendQ[c] # <<>> /\ sendQ' = [sendQ EXCEPT ![c] = Tail(@)]
      <4>1. sendQ'[c] = Tail(sendQ[c])
        BY <1>0, <1>3, <3>2
      <4>2. QED
        BY <1>4, <3>2, <4>1, HeadTailProperties
    <3>3. QED
      BY <2>2, <3>1, <3>2
  <2>5. QED
    BY SMTT(40), <1>2, <1>4, <2>1, <2>3, <2>4
<1>7. CASE ~CallStep(t) \/ pc[t] = "sendCount"
  <2>1. ~CallStep(t) /\ pc[t] \in {"dequeue", "drain"} /\ got'[t] = got[t] /\ want'[t] = want[t]
    BY <1>0, <1>1, <1>2, <1>7, StepTo
  <2>2. want[t] - got[t] <= Len(sendQ[c])
    BY <1>3, <2>1 DEF LoopsFed
  <2>3. ~\E u \in Threads : cur[u] = c /\ StoreStep(u)
    <3>1. SUFFICES ASSUME NEW u \in Threads, cur[u] = c, StoreStep(u) PROVE FALSE
      OBVIOUS
    <3>2. CallStep(u) /\ pc[u] \in UserLabels /\ pc[t] \in UserLabels
      BY <2>1, <3>1, StoreStepAt DEF UserLabels, SendingLabels, ReleaseLabels
    <3>3. u = t
      BY <1>0, <1>3, <3>1, <3>2, OneUser
    <3>4. QED
      BY <2>1, <3>2, <3>3
  <2>4. Len(sendQ'[c]) \in Nat /\ Len(sendQ'[c]) >= Len(sendQ[c])
    <3>1. CASE \E a \in Apps : Enqueue(a, c)
      <4>1. PICK a \in Apps : Enqueue(a, c)
        BY <3>1
      <4>2. sendQ'[c] = Append(sendQ[c], handed'[c])
        BY <1>0, <1>3, <4>1 DEF Enqueue
      <4>3. handed'[c] \in Packets
        <5>1. /\ handed \in [Channels -> 0..MaxPackets] /\ MaxPackets \in Nat
              /\ handed' = [handed EXCEPT ![c] = @ + 1] /\ handed[c] < MaxPackets
          BY <1>0, <4>1, ConstantsAssumption DEF Enqueue, TypeOK
        <5>2. handed'[c] = handed[c] + 1 /\ handed[c] \in 0..MaxPackets
          BY <1>3, <5>1
        <5>3. QED
          BY <5>1, <5>2 DEF Packets
      <4>4. QED
        BY <1>4, <4>2, <4>3, AppendProperties
    <3>2. CASE sendQ'[c] = sendQ[c]
      BY <1>4, <3>2
    <3>3. QED
      BY <1>0, <1>3, <2>3, <3>1, <3>2, SendVarsAt
  <2>5. QED
    BY <1>2, <1>4, <2>1, <2>2, <2>4
<1>8. QED
  BY <1>1, <1>2, <1>5, <1>6, <1>7

-----------------------------------------------------------------------------
(* The invariant.                                                          *)

(* ThreadInv holds when Start has connected the channels,                  *)
LEMMA InitThreads ==
  ASSUME Init PROVE ThreadInv
<1>0. /\ MaxWsaBuf \in Nat \ {0} /\ MaxPackets \in Nat /\ MaxLosses \in Nat
      /\ MaxReconnects \in Nat /\ Reconnecter \in Threads
  BY ConstantsAssumption DEF Threads
<1>1. /\ pc \in [Threads -> Labels] /\ cur \in [Threads -> Channels \cup {NoChannel}]
      /\ want \in [Threads -> Nat] /\ got \in [Threads -> Nat]
  BY DEF Init, Labels
<1>2. /\ conn \in [Channels -> {"open", "gone", "closed", "fresh"}]
      /\ losses \in [Channels -> 0..MaxLosses]
      /\ ioCount \in [Channels -> Nat]
      /\ ioMode \in [Channels -> {"NONSENDING", "SENDING"}]
      /\ recvOps \in [Channels -> Nat] /\ sendOps \in [Channels -> Nat]
      /\ abandoned \in [Channels -> Nat]
  BY <1>0 DEF Init
<1>3. /\ sendQ \in [Channels -> Seq(Packets)]
      /\ wire \in [Channels -> Seq(Packets \cup {NoPacket})]
      /\ bufferCount \in [Channels -> 0..MaxWsaBuf] /\ handed \in [Channels -> 0..MaxPackets]
  BY <1>0 DEF Init
<1>4. bufStore \in [Channels -> [Slots -> Packets \cup {NoPacket}]]
      /\ freed \in [Channels -> [Packets -> Nat]]
  BY DEF Init
<1>5. /\ reconnectList \in Seq(Channels) /\ snapshot \in Seq(Channels)
      /\ numOfReconnect \in 0..MaxReconnects
      /\ unguarded \subseteq Channels /\ corrupted \in BOOLEAN
  <2>1. reconnectList = <<>> /\ snapshot = <<>> /\ numOfReconnect = 0 /\ unguarded = {}
        /\ corrupted = FALSE
    BY DEF Init
  <2>2. <<>> \in Seq(Channels) /\ 0 \in 0..MaxReconnects
    BY <1>0
  <2>3. QED
    BY <2>1, <2>2
<1>6. TypeOK
  BY <1>1, <1>2, <1>3, <1>4, <1>5 DEF TypeOK
<1>7. \A t \in Threads : pc[t] = "idle" /\ cur[t] = NoChannel
  BY DEF Init
<1>8. Control
  BY <1>7 DEF Control, LabelsOf, AppLabels, WorkerLabels, ReconnecterLabels
<1>9. Loops /\ ListFront
  BY <1>0, <1>7 DEF Loops, ListFront
<1>10. QED
  BY <1>6, <1>8, <1>9 DEF ThreadInv

(* and so do the other parts.                                              *)
LEMMA InitOrder ==
  ASSUME Init PROVE ReferenceInv /\ ReleaseInv /\ OrderInv
<1>0. \A t \in Threads : pc[t] = "idle" /\ cur[t] = NoChannel
  BY DEF Init
<1>1. NoChannel \notin Channels /\ Apps \subseteq Threads
  BY ConstantsAssumption DEF Threads
<1>2. ASSUME NEW c \in Channels
      PROVE  /\ ioCount[c] = 1 /\ recvOps[c] = 1 /\ sendOps[c] = 0 /\ abandoned[c] = 0
             /\ sendQ[c] = <<>> /\ wire[c] = <<>> /\ handed[c] = 0
             /\ \A i \in Slots : bufStore[c][i] = 0
             /\ \A p \in Packets : freed[c][p] = 0
             /\ Handles(c) = {} /\ Posts(c) = {} /\ Sending(c) = {} /\ Receiving(c) = {}
             /\ Gone(c) = {} /\ \A n : ~Prepared(c, n)
  <2>1. /\ ioCount[c] = 1 /\ recvOps[c] = 1 /\ sendOps[c] = 0 /\ abandoned[c] = 0
        /\ sendQ[c] = <<>> /\ wire[c] = <<>> /\ handed[c] = 0
        /\ bufStore[c] = [i \in Slots |-> NoPacket] /\ freed[c] = [p \in Packets |-> 0]
    BY DEF Init
  <2>2. (\A i \in Slots : bufStore[c][i] = 0) /\ \A p \in Packets : freed[c][p] = 0
    BY <2>1 DEF NoPacket
  <2>3. Handles(c) = {} /\ Posts(c) = {} /\ Sending(c) = {} /\ Receiving(c) = {}
    BY <1>0, <1>1 DEF Handles, Posts, Sending, Receiving, Threads
  <2>4. Gone(c) = {}
    BY <2>1, <2>2 DEF Gone
  <2>5. \A n : ~Prepared(c, n)
    BY <1>0 DEF Prepared
  <2>6. QED
    BY <2>1, <2>2, <2>3, <2>4, <2>5
<1>3. Cardinality({}) = 0
  BY FS_EmptySet
<1>4. RefCountExact /\ SendExclusive /\ ReceiveExclusive
  <2>1. ASSUME NEW c \in Channels
        PROVE  /\ Cardinality(Handles(c)) = 0 /\ Cardinality(Posts(c)) = 0
               /\ Cardinality(Sending(c)) = 0 /\ Cardinality(Receiving(c)) = 0
    BY <1>2, <1>3
  <2>2. RefCountExact
    BY <1>2, <2>1 DEF RefCountExact
  <2>3. SendExclusive /\ ReceiveExclusive
    BY <1>2, <2>1 DEF SendExclusive, ReceiveExclusive, Guarded
  <2>4. QED
    BY <2>2, <2>3
<1>5. SendersGuarded /\ NoLostWakeup /\ DeadNotLost
  BY <1>2 DEF SendersGuarded, NoLostWakeup, DeadNotLost, Guarded
<1>6. ReleasedAlone /\ WaitsOnce /\ LoopsFed
  <2>1. reconnectList = <<>>
    BY DEF Init
  <2>2. QED
    BY <1>0, <2>1 DEF ReleasedAlone, WaitsOnce, LoopsFed, Releasing
<1>7. PacketOrder
  <2>1. ASSUME NEW c \in Channels
        PROVE  /\ QueueOrder(c) /\ StoreOrder(c) /\ PreparedOrder(c) /\ GoneOrder(c)
               /\ WireOrder(c) /\ InFlight(c)
    BY <1>2 DEF QueueOrder, StoreOrder, PreparedOrder, GoneOrder, WireOrder, InFlight, Increasing
  <2>2. QED
    BY <2>1 DEF PacketOrder, Guarded
<1>8. QED
  BY <1>4, <1>5, <1>6, <1>7 DEF ReferenceInv, ReleaseInv, OrderInv

(* Every step keeps the invariant.                                         *)
LEMMA InvStep ==
  ASSUME Inv, [Next]_vars PROVE Inv'
<1>1. ThreadInv /\ ReferenceInv /\ ReleaseInv /\ OrderInv
  BY DEF Inv
<1>2. ThreadInv' /\ RefCountExact'
  BY <1>1, ThreadInvStep DEF ReferenceInv
<1>3. SendExclusive' /\ SendersGuarded' /\ NoLostWakeup'
  BY <1>1, <1>2, SendExclusiveStep, SendersGuardedStep, NoLostWakeupStep DEF ReferenceInv
<1>4. ReleasedAlone' /\ WaitsOnce' /\ DeadNotLost'
  BY <1>1, ReleasedAloneStep, WaitsOnceStep, DeadNotLostStep DEF ReferenceInv, ReleaseInv
<1>5. ReceiveExclusive'
  BY <1>1, <1>2, ReceiveExclusiveStep DEF ReferenceInv, ReleaseInv
<1>6. Serialized /\ LoopsFed /\ PacketOrder
  BY <1>1 DEF Serialized, ReferenceInv, ReleaseInv, OrderInv
<1>7. LoopsFed' /\ PacketOrder'
  BY <1>6, LoopsFedStep, PacketOrderStep
<1>8. QED
  BY <1>2, <1>3, <1>4, <1>5, <1>7 DEF Inv, ReferenceInv, ReleaseInv, OrderInv

(* Inv is an invariant.                                                    *)
LEMMA Invariance == Spec => []Inv
<1>1. Init => Inv
  BY InitThreads, InitOrder DEF Inv
<1>2. Inv /\ [Next]_vars => Inv'
  BY InvStep
<1>3. QED
  BY <1>1, <1>2, PTL DEF Spec

-----------------------------------------------------------------------------
(* What follows.                                                           *)

(* Every variable of the channels keeps its type; in particular a          *)
(* reference count is never negative.                                      *)
THEOREM TypeCorrect == Spec => []TypeOK
<1>1. Inv => TypeOK
  BY DEF Inv, ThreadInv
<1>2. QED
  BY <1>1, Invariance, PTL

(* ioCount is the number of operations in flight and of references that    *)
(* threads hold, whatever fails and whoever sends.                         *)
THEOREM RefCountCorrect == Spec => []RefCountExact
<1>1. Inv => RefCountExact
  BY DEF Inv, ReferenceInv
<1>2. QED
  BY <1>1, Invariance, PTL

(* The exchange in SendPost admits one user of bufStore at a time, over    *)
(* all connections of the channel.                                         *)
THEOREM OneSender == Spec => []SendsSerialized
<1>1. Inv => SendsSerialized
  BY DEF Inv, ReferenceInv, SendExclusive, SendsSerialized
<1>2. QED
  BY <1>1, Invariance, PTL

(* A packet that is queued while nobody sends is seen by a thread that is  *)
(* about to try.                                                           *)
THEOREM WakeupsKept == Spec => []NoLostWakeup
<1>1. Inv => NoLostWakeup
  BY DEF Inv, ReferenceInv
<1>2. QED
  BY <1>1, Invariance, PTL

(* The receive ring of a guarded channel has one receive at most.          *)
THEOREM OneReceive == Spec => []ReceivesSerialized
<1>1. Inv => ReceivesSerialized
  <2>1. SUFFICES ASSUME Inv, NEW c \in Channels, c \notin unguarded
                 PROVE  recvOps[c] + Cardinality({t \in Threads : cur[t] = c /\ pc[t] = "WSARecv"})
                          <= 1
    BY DEF ReceivesSerialized
  <2> DEFINE P == {t \in Threads : cur[t] = c /\ pc[t] = "WSARecv"}
  <2>2. recvOps[c] + Cardinality(Receiving(c)) <= 1 /\ recvOps[c] \in Nat
    BY <2>1 DEF Inv, ThreadInv, TypeOK, ReleaseInv, ReceiveExclusive, Guarded
  <2>3. P \subseteq Receiving(c) /\ Receiving(c) \in SUBSET Threads /\ P \in SUBSET Threads
    BY DEF Receiving
  <2> HIDE DEF P
  <2>4. /\ Cardinality(P) \in Nat /\ Cardinality(Receiving(c)) \in Nat
        /\ Cardinality(P) <= Cardinality(Receiving(c))
    BY <2>3, SetOfThreads, FS_Subset
  <2>5. recvOps[c] + Cardinality(P) <= 1
    BY <2>2, <2>4
  <2>6. QED
    BY <2>5 DEF P
<1>2. QED
  BY <1>1, Invariance, PTL

(* The reconnecter gives a new socket only to a channel on which nothing   *)
(* of the old connection is left.                                          *)
THEOREM OldConnectionOver == Spec => []ReconnectsDeadOnly
<1>1. Inv => ReconnectsDeadOnly
  <2>1. SUFFICES ASSUME Inv, NEW c \in Guarded, cur[Reconnecter] = c,
                        pc[Reconnecter] \in {"socket", "connect", "bind", "recvCount"}
                 PROVE  ioCount[c] = 0
    BY DEF ReconnectsDeadOnly, Guarded
  <2>2. QED
    BY <2>1, FrontWaits DEF Inv, ReleaseInv
<1>2. QED
  BY <1>1, Invariance, PTL

(* A guarded channel without references is with the thread that releases   *)
(* it or in the list, unless pop_front and emplace_back have overlapped.   *)
THEOREM DeadChannelsKept == Spec => []DeadChannelsListed
<1>1. Inv => DeadChannelsListed
  BY DEF Inv, ReleaseInv, DeadNotLost, DeadChannelsListed, Guarded
<1>2. QED
  BY <1>1, Invariance, PTL

(* A guarded channel's packets go out in the order they were handed over,  *)
(* none twice, over all its connections.                                   *)
THEOREM OrderKept == Spec => []SentInOrder
<1>1. Inv => SentInOrder
  <2>1. SUFFICES ASSUME Inv, NEW c \in Guarded, NEW i \in DOMAIN wire[c], NEW j \in DOMAIN wire[c],
                        i < j
                 PROVE  wire[c][i] < wire[c][j]
    BY DEF SentInOrder, Guarded
  <2>2. WireOrder(c) /\ DOMAIN wire[c] = 1..Len(wire[c])
    BY <2>1, DataTypes DEF Inv, ThreadInv, OrderInv, PacketOrder, Guarded
  <2>3. QED
    BY <2>1, <2>2 DEF WireOrder, Increasing
<1>2. QED
  BY <1>1, Invariance, PTL

(* The buffers of a guarded channel's send in flight have not been freed.  *)
THEOREM BuffersAlive == Spec => []BuffersInFlightAlive
<1>1. Inv => BuffersInFlightAlive
  BY DEF Inv, OrderInv, PacketOrder, InFlight, BuffersInFlightAlive, Guarded
<1>2. QED
  BY <1>1, Invariance, PTL
=============================================================================
