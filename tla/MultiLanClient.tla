---------------------------- MODULE MultiLanClient ----------------------------
(***************************************************************************)
(* CMultiLanClient: the channels of a game server to DBServer.  Worker     *)
(* threads share one I/O completion port, the Reconnecter thread connects  *)
(* lost channels again, and other threads ("Apps") call SendPacket without *)
(* a reference to the channel; so may OnRecv's handlers, whose calls are   *)
(* Apps' calls here.                                                       *)
(*                                                                         *)
(* A channel lives while ioCount > 0, and ioCount counts nothing but       *)
(* operations and the threads that handle or post one.  One action is one  *)
(* access to memory that threads share or one call of Winsock.  pc[t] is   *)
(* the next such access of thread t, cur[t] its channel.                   *)
(*                                                                         *)
(* The model starts when Start has connected every channel.  RECONNECT is  *)
(* 1, as in the option files.                                              *)
(*                                                                         *)
(* MaxReconnects bounds what a channel that was released twice can do: it  *)
(* is in the list twice, and each reconnection may add it again.           *)
(*                                                                         *)
(* Abstracted: what packets contain; the receive ring, which RecvPost      *)
(* never finds full (complete packets have been taken out of it, and a     *)
(* packet is smaller than the ring); WSAENOBUFS, for which the process     *)
(* crashes; the choice of a channel by SendPacket's caller.  GetRestSize   *)
(* of the queue, whose library is not in the repository, is the number of  *)
(* packets in it: SendPost's branch for a negative size is never taken.    *)
(*                                                                         *)
(* A definition named XWithout... or XBut... is X with a bug in it.  Next  *)
(* does not use it: it is there to see that the properties notice.         *)
(***************************************************************************)
EXTENDS Integers, Sequences, FiniteSets

CONSTANTS
  Workers, Apps, Reconnecter,   \* threads
  Channels,                     \* sessionList
  NoChannel,
  MaxWsaBuf,                    \* IOCP_ONE_SEND_WSABUF_MAX
  MaxPackets,                   \* bound: packets handed to one channel
  Addressed,                    \* bound: the channels that packets are handed to
  MaxLosses,                    \* bound: connections lost or receives refused, per channel
  MaxReconnects                 \* bound: reconnections begun

Threads == Workers \cup Apps \cup {Reconnecter}
NoPacket == 0
Packets == 1..MaxPackets
Slots == 1..MaxWsaBuf

ASSUME ConstantsAssumption ==
  /\ IsFiniteSet(Workers) /\ IsFiniteSet(Apps)
  /\ Workers \cap Apps = {} /\ Reconnecter \notin Workers \cup Apps
  /\ NoChannel \notin Channels /\ Addressed \subseteq Channels
  /\ MaxWsaBuf \in Nat \ {0}
  /\ MaxPackets \in Nat /\ MaxLosses \in Nat /\ MaxReconnects \in Nat

VARIABLES
  pc, cur,
  want, got,       \* packets the thread is to dequeue (UseSize, Rest), and has (i)
  conn,            \* m_sock: "open", "gone" (lost), "closed", "fresh" (not connected)
  losses,
  ioCount, ioMode,
  recvOps, sendOps,\* operations whose completion no worker has taken
  sendQ, bufStore, \* SendQ, pSeirializeBufStore
  bufferCount,     \* lBufferCount
  reconnectList,   \* sessionReconnectIdList
  snapshot,        \* the list as pop_front found it
  numOfReconnect,  \* m_numOfReconnect
  handed,          \* history: packets enqueued so far
  wire,            \* history: packets DBServer was sent
  freed,           \* history: how often a packet's buffer was freed
  abandoned,       \* history: operations that never complete
  unguarded,       \* history: see Unguarded
  corrupted        \* history: pop_front and emplace_back have overlapped

threadVars == <<pc, cur, want, got>>
kernelVars == <<conn, losses, recvOps, sendOps, abandoned>>
sendVars   == <<sendQ, bufStore, bufferCount, handed, wire, freed>>
listVars   == <<reconnectList, snapshot, corrupted, numOfReconnect>>
vars == <<pc, cur, want, got, conn, losses, ioCount, ioMode, recvOps, sendOps, sendQ,
          bufStore, bufferCount, reconnectList, snapshot, numOfReconnect, handed, wire, freed,
          abandoned, unguarded, corrupted>>

Init ==
  /\ pc = [t \in Threads |-> "idle"]
  /\ cur = [t \in Threads |-> NoChannel]
  /\ want = [t \in Threads |-> 0]
  /\ got = [t \in Threads |-> 0]
  /\ conn = [c \in Channels |-> "open"]
  /\ losses = [c \in Channels |-> 0]
  /\ ioCount = [c \in Channels |-> 1]
  /\ ioMode = [c \in Channels |-> "NONSENDING"]
  /\ recvOps = [c \in Channels |-> 1]
  /\ sendOps = [c \in Channels |-> 0]
  /\ sendQ = [c \in Channels |-> <<>>]
  /\ bufStore = [c \in Channels |-> [i \in Slots |-> NoPacket]]
  /\ bufferCount = [c \in Channels |-> 0]
  /\ reconnectList = <<>> /\ snapshot = <<>> /\ numOfReconnect = 0
  /\ handed = [c \in Channels |-> 0]
  /\ wire = [c \in Channels |-> <<>>]
  /\ freed = [c \in Channels |-> [p \in Packets |-> 0]]
  /\ abandoned = [c \in Channels |-> 0]
  /\ unguarded = {} /\ corrupted = FALSE

-----------------------------------------------------------------------------
(* Threads.                                                                *)
Goto(t, label) ==
  /\ pc' = [pc EXCEPT ![t] = label]
  /\ UNCHANGED <<cur, want, got>>

Call(t, c, label) ==
  /\ pc' = [pc EXCEPT ![t] = label]
  /\ cur' = [cur EXCEPT ![t] = c]
  /\ UNCHANGED <<want, got>>

(* A loop that dequeues n packets.                                         *)
Loop(t, n, label) ==
  /\ pc' = [pc EXCEPT ![t] = label]
  /\ want' = [want EXCEPT ![t] = n]
  /\ got' = [got EXCEPT ![t] = 0]
  /\ UNCHANGED cur

EndLoop(t, label) ==
  /\ pc' = [pc EXCEPT ![t] = label]
  /\ want' = [want EXCEPT ![t] = 0]
  /\ got' = [got EXCEPT ![t] = 0]
  /\ UNCHANGED cur

Finish(t) == Call(t, NoChannel, "idle")

(* RecvPost and SendPost return POST_RETVAL_COMPLETE or POST_RETVAL_ERR.   *)
Return(t) ==
  CASE t \in Workers    -> Goto(t, "dec")
    [] t \in Apps       -> Finish(t)
    [] t = Reconnecter  -> Goto(t, "pop")

(* They return POST_RETVAL_ERR_SESSION_DELETED, or Worker's own            *)
(* ReleaseSession is over.                                                 *)
ReturnDeleted(t) == IF t = Reconnecter THEN Goto(t, "pop") ELSE Finish(t)

(* A caller of SendPacket past the exchange in SendPost, without a         *)
(* reference of its own.                                                   *)
Unguarded(c) ==
  \E a \in Apps : cur[a] = c /\ pc[a] \in {"size", "reset", "dequeue", "sendCount"}

Lose(c) ==
  /\ losses[c] < MaxLosses
  /\ losses' = [losses EXCEPT ![c] = @ + 1]

(* The last reference goes: ReleaseSession.                                *)
DecrementAnd(t, returns) ==
  LET c == cur[t] IN
  /\ ioCount' = [ioCount EXCEPT ![c] = @ - 1]
  /\ IF ioCount'[c] = 0
     THEN /\ Goto(t, "release")
          /\ unguarded' = IF Unguarded(c) THEN unguarded \cup {c} ELSE unguarded
     ELSE returns /\ UNCHANGED unguarded
  /\ UNCHANGED <<kernelVars, sendVars, listVars, ioMode>>

-----------------------------------------------------------------------------
(* ReleaseSession.                                                         *)

Frees(c, packets) ==
  [freed EXCEPT ![c] = [p \in Packets |-> @[p] + Cardinality({i \in DOMAIN packets :
                                                                packets[i] = p})]]

(* The buffers of the last send are freed; lBufferCount stays what it is.  *)
ReleaseStore(t) ==
  /\ pc[t] = "release"
  /\ LET c == cur[t] IN
       /\ freed' = Frees(c, SubSeq(bufStore[c], 1, bufferCount[c]))
       /\ Loop(t, Len(sendQ[c]), "drain")
  /\ UNCHANGED <<kernelVars, listVars, ioCount, ioMode, sendQ, bufStore, bufferCount,
                 handed, wire, unguarded>>

(* The packets that are still queued are freed.  If another thread took    *)
(* one meanwhile, Dequeue leaves DeleteBuf with the last one it returned,  *)
(* or with no value.                                                       *)
ReleaseQueue(t) ==
  /\ pc[t] = "drain"
  /\ LET c == cur[t] IN
       IF got[t] = want[t]
       THEN EndLoop(t, "close") /\ UNCHANGED <<sendQ, freed>>
       ELSE /\ got' = [got EXCEPT ![t] = @ + 1]
            /\ UNCHANGED <<pc, cur, want>>
            /\ IF sendQ[c] = <<>>
               THEN \E p \in Packets : freed' = Frees(c, <<p>>) /\ UNCHANGED sendQ
               ELSE /\ freed' = Frees(c, <<Head(sendQ[c])>>)
                    /\ sendQ' = [sendQ EXCEPT ![c] = Tail(@)]
  /\ UNCHANGED <<kernelVars, listVars, ioCount, ioMode, bufStore, bufferCount, handed, wire,
                 unguarded>>

(* closesocket, and m_sock = INVALID_SOCKET.                               *)
CloseSocket(t) ==
  /\ pc[t] \in {"close", "invalidate"}
  /\ conn' = [conn EXCEPT ![cur[t]] = "closed"]
  /\ Goto(t, IF pc[t] = "close" THEN "invalidate" ELSE "push")
  /\ UNCHANGED <<sendVars, listVars, losses, ioCount, ioMode, recvOps, sendOps, abandoned,
                 unguarded>>

PushReconnectWithoutPush(t) ==
  /\ pc[t] = "push"
  /\ ReturnDeleted(t)
  /\ UNCHANGED <<kernelVars, sendVars, listVars, ioCount, ioMode, unguarded>>

PushReconnect(t) ==
  /\ pc[t] = "push"
  /\ reconnectList' = Append(reconnectList, cur[t])
  /\ ReturnDeleted(t)
  /\ UNCHANGED <<kernelVars, sendVars, snapshot, corrupted, numOfReconnect, ioCount, ioMode,
                 unguarded>>

-----------------------------------------------------------------------------
(* Worker.                                                                 *)

(* A receive completes with data, or with 0 bytes when its connection is   *)
(* over.  m_sock of an unguarded channel may have been replaced while its  *)
(* connection lived, and that old connection can end too.                  *)
DequeueRecv(w, c) ==
  /\ pc[w] = "idle" /\ recvOps[c] > 0
  /\ recvOps' = [recvOps EXCEPT ![c] = @ - 1]
  /\ \/ /\ Call(w, c, "recvCount")
        /\ UNCHANGED losses
     \/ /\ Call(w, c, "dec")
        /\ IF conn[c] # "open" THEN UNCHANGED losses
           ELSE c \in unguarded /\ Lose(c)
  /\ UNCHANGED <<sendVars, listVars, conn, sendOps, abandoned, ioCount, ioMode,
                 unguarded>>

(* Nobody looks at the bytes a send transferred.                           *)
DequeueSend(w, c) ==
  /\ pc[w] = "idle" /\ sendOps[c] > 0
  /\ sendOps' = [sendOps EXCEPT ![c] = @ - 1]
  /\ Call(w, c, "sent")
  /\ UNCHANGED <<sendVars, listVars, conn, losses, recvOps, abandoned, ioCount, ioMode,
                 unguarded>>

(* The buffers of a completed send are freed.                              *)
FreeSent(w) ==
  /\ pc[w] = "sent"
  /\ LET c == cur[w] IN
       /\ freed' = Frees(c, SubSeq(bufStore[c], 1, bufferCount[c]))
       /\ bufferCount' = [bufferCount EXCEPT ![c] = 0]
  /\ Goto(w, "resetMode")
  /\ UNCHANGED <<kernelVars, listVars, ioCount, ioMode, sendQ, bufStore, handed, wire,
                 unguarded>>

ResetIOMode(w) ==
  /\ pc[w] = "resetMode"
  /\ ioMode' = [ioMode EXCEPT ![cur[w]] = "NONSENDING"]
  /\ Goto(w, "cas")
  /\ UNCHANGED <<kernelVars, sendVars, listVars, ioCount, unguarded>>

IOCountDecrement(w) ==
  /\ pc[w] = "dec"
  /\ DecrementAnd(w, Finish(w))

-----------------------------------------------------------------------------
(* RecvPost counts the receive before it posts it.                         *)

CountRecvWithoutReference(t) ==
  /\ pc[t] = "recvCount"
  /\ Goto(t, "WSARecv")
  /\ UNCHANGED <<kernelVars, sendVars, listVars, ioCount, ioMode, unguarded>>

CountRecv(t) ==
  /\ pc[t] = "recvCount"
  /\ ioCount' = [ioCount EXCEPT ![cur[t]] = @ + 1]
  /\ Goto(t, "WSARecv")
  /\ UNCHANGED <<kernelVars, sendVars, listVars, ioMode, unguarded>>

Connected(c) == conn[c] \in {"open", "gone"}

WSARecv(t) ==
  /\ pc[t] = "WSARecv"
  /\ \/ /\ Connected(cur[t])
        /\ recvOps' = [recvOps EXCEPT ![cur[t]] = @ + 1]
        /\ Return(t)
        /\ UNCHANGED losses
     \/ /\ Goto(t, "undoRecv")
        /\ IF Connected(cur[t]) THEN Lose(cur[t]) ELSE UNCHANGED losses
        /\ UNCHANGED recvOps
  /\ UNCHANGED <<sendVars, listVars, conn, sendOps, abandoned, ioCount, ioMode,
                 unguarded>>

UndoRecvWithoutDecrement(t) ==
  /\ pc[t] = "undoRecv"
  /\ Return(t)
  /\ UNCHANGED <<kernelVars, sendVars, listVars, ioCount, ioMode, unguarded>>

UndoRecv(t) ==
  /\ pc[t] = "undoRecv"
  /\ DecrementAnd(t, Return(t))

-----------------------------------------------------------------------------
(* SendPacket, SendPost.                                                   *)

Enqueue(a, c) ==
  /\ pc[a] = "idle" /\ c \in Addressed /\ handed[c] < MaxPackets
  /\ handed' = [handed EXCEPT ![c] = @ + 1]
  /\ sendQ' = [sendQ EXCEPT ![c] = Append(@, handed'[c])]
  /\ Call(a, c, "cas")
  /\ UNCHANGED <<kernelVars, listVars, ioCount, ioMode, bufStore, bufferCount, wire, freed,
                 unguarded>>

TrySendingWithoutTest(t) ==
  /\ pc[t] = "cas"
  /\ ioMode' = [ioMode EXCEPT ![cur[t]] = "SENDING"]
  /\ Goto(t, "size")
  /\ UNCHANGED <<kernelVars, sendVars, listVars, ioCount, unguarded>>

TrySending(t) ==
  /\ pc[t] = "cas"
  /\ LET c == cur[t] IN
       IF ioMode[c] = "SENDING"
       THEN Return(t) /\ UNCHANGED <<ioMode, unguarded>>
       ELSE /\ ioMode' = [ioMode EXCEPT ![c] = "SENDING"]
            /\ Goto(t, "size")
            /\ unguarded' = IF ioCount[c] = 0 THEN unguarded \cup {c} ELSE unguarded
  /\ UNCHANGED <<kernelVars, sendVars, listVars, ioCount>>

(* UseSize = SendQ.GetRestSize(): see "Abstracted".                        *)
UseSize(t) ==
  /\ pc[t] = "size"
  /\ LET n == Len(sendQ[cur[t]]) IN
       IF n = 0
       THEN Goto(t, "reset")
       ELSE Loop(t, IF MaxWsaBuf < n THEN MaxWsaBuf ELSE n, "dequeue")
  /\ UNCHANGED <<kernelVars, sendVars, listVars, ioCount, ioMode, unguarded>>

(* Nothing to send: give ioMode back and look once more.                   *)
ResetEmpty(t) ==
  /\ pc[t] = "reset"
  /\ ioMode' = [ioMode EXCEPT ![cur[t]] = "NONSENDING"]
  /\ Goto(t, "recheck")
  /\ UNCHANGED <<kernelVars, sendVars, listVars, ioCount, unguarded>>

RecheckWithoutRetry(t) ==
  /\ pc[t] = "recheck"
  /\ Return(t)
  /\ UNCHANGED <<kernelVars, sendVars, listVars, ioCount, ioMode, unguarded>>

Recheck(t) ==
  /\ pc[t] = "recheck"
  /\ IF sendQ[cur[t]] # <<>> THEN Goto(t, "cas") ELSE Return(t)
  /\ UNCHANGED <<kernelVars, sendVars, listVars, ioCount, ioMode, unguarded>>

(* The packets are dequeued into bufStore, then counted.  If ReleaseQueue  *)
(* took one meanwhile, its slot keeps what it has.                         *)
DequeueInto(t, slot) ==
  /\ pc[t] = "dequeue"
  /\ LET c == cur[t] IN
       \/ /\ got[t] = want[t]
          /\ bufferCount' = [bufferCount EXCEPT ![c] = want[t]]
          /\ EndLoop(t, "sendCount")
          /\ UNCHANGED <<sendQ, bufStore>>
       \/ /\ got[t] # want[t]
          /\ IF sendQ[c] = <<>>
             THEN UNCHANGED <<sendQ, bufStore>>
             ELSE /\ bufStore' = [bufStore EXCEPT ![c][slot] = Head(sendQ[c])]
                  /\ sendQ' = [sendQ EXCEPT ![c] = Tail(@)]
          /\ got' = [got EXCEPT ![t] = @ + 1]
          /\ UNCHANGED <<pc, cur, want, bufferCount>>
  /\ UNCHANGED <<kernelVars, listVars, ioCount, ioMode, handed, wire, freed, unguarded>>

DequeueButOverwriting(t) == DequeueInto(t, 1)
Dequeue(t) == DequeueInto(t, got[t] + 1)

CountSendWithoutReference(t) ==
  /\ pc[t] = "sendCount"
  /\ Goto(t, "WSASend")
  /\ UNCHANGED <<kernelVars, sendVars, listVars, ioCount, ioMode, unguarded>>

CountSend(t) ==
  /\ pc[t] = "sendCount"
  /\ ioCount' = [ioCount EXCEPT ![cur[t]] = @ + 1]
  /\ Goto(t, "WSASend")
  /\ UNCHANGED <<kernelVars, sendVars, listVars, ioMode, unguarded>>

Unbound(c) == cur[Reconnecter] = c /\ pc[Reconnecter] \in {"bind", "ended"}

(* What is sent on a connection that is lost does not arrive.  A send on a *)
(* socket that is not yet associated with the completion port may never    *)
(* be completed.  After a failure ioMode stays SENDING.                    *)
WSASend(t) ==
  /\ pc[t] = "WSASend"
  /\ LET c == cur[t] IN
       \/ /\ Connected(c)
          /\ wire' = IF conn[c] = "gone" THEN wire
                     ELSE [wire EXCEPT ![c] = @ \o SubSeq(bufStore[c], 1, bufferCount[c])]
          /\ \/ /\ ~(Unbound(c) /\ pc[Reconnecter] = "ended")
                /\ sendOps' = [sendOps EXCEPT ![c] = @ + 1]
                /\ UNCHANGED abandoned
             \/ /\ Unbound(c)
                /\ abandoned' = [abandoned EXCEPT ![c] = @ + 1]
                /\ UNCHANGED sendOps
          /\ Goto(t, "cas")
       \/ /\ Goto(t, "undoSend")
          /\ UNCHANGED <<wire, sendOps, abandoned>>
  /\ UNCHANGED <<listVars, conn, losses, recvOps, ioCount, ioMode, sendQ, bufStore,
                 bufferCount, handed, freed, unguarded>>

UndoSend(t) ==
  /\ pc[t] = "undoSend"
  /\ DecrementAnd(t, Return(t))

-----------------------------------------------------------------------------
(* Reconnecter.  A failed socket or setsockopt ends the thread.            *)

(* The front of the list is read under reconnectListLock.                  *)
TakeReleased ==
  /\ pc[Reconnecter] = "idle" /\ reconnectList # <<>> /\ numOfReconnect < MaxReconnects
  /\ Call(Reconnecter, Head(reconnectList), "socket")
  /\ UNCHANGED <<kernelVars, sendVars, listVars, ioCount, ioMode, unguarded>>

SetConn(value, next) ==
  /\ conn' = [conn EXCEPT ![cur[Reconnecter]] = value]
  /\ Goto(Reconnecter, next)

NewSocket ==
  /\ pc[Reconnecter] = "socket"
  /\ SetConn("fresh", "connect") \/ SetConn("closed", "ended")
  /\ UNCHANGED <<sendVars, listVars, losses, recvOps, sendOps, abandoned, ioCount, ioMode,
                 unguarded>>

(* connect is tried until it succeeds.                                     *)
Connect ==
  /\ pc[Reconnecter] = "connect" /\ conn[cur[Reconnecter]] = "fresh"
  /\ SetConn("open", "bind")
  /\ UNCHANGED <<sendVars, listVars, losses, recvOps, sendOps, abandoned, ioCount, ioMode,
                 unguarded>>

(* setsockopt, and the association with the completion port.               *)
Bind ==
  /\ pc[Reconnecter] = "bind"
  /\ \/ Connected(cur[Reconnecter]) /\ Goto(Reconnecter, "recvCount")
     \/ Goto(Reconnecter, "ended")
  /\ UNCHANGED <<kernelVars, sendVars, listVars, ioCount, ioMode, unguarded>>

(* pop_front without the lock.  If a channel is appended while it runs,    *)
(* the appended one can be lost.                                           *)
PopFront ==
  /\ pc[Reconnecter] = "pop"
  /\ numOfReconnect' = numOfReconnect + 1
  /\ snapshot' = reconnectList
  /\ Goto(Reconnecter, "unlink")
  /\ UNCHANGED <<kernelVars, sendVars, ioCount, ioMode, reconnectList, corrupted, unguarded>>

UnlinkWithoutPop ==
  /\ pc[Reconnecter] = "unlink"
  /\ snapshot' = <<>>
  /\ Finish(Reconnecter)
  /\ UNCHANGED <<kernelVars, sendVars, ioCount, ioMode, reconnectList, corrupted,
                 numOfReconnect, unguarded>>

Unlink ==
  /\ pc[Reconnecter] = "unlink"
  /\ \E list \in {reconnectList, snapshot} : reconnectList' = Tail(list)
  /\ corrupted' = (corrupted \/ snapshot # reconnectList)
  /\ snapshot' = <<>>
  /\ Finish(Reconnecter)
  /\ UNCHANGED <<kernelVars, sendVars, ioCount, ioMode, numOfReconnect, unguarded>>

-----------------------------------------------------------------------------
(* DBServer closes the connection, or it breaks.                           *)
ConnectionLost(c) ==
  /\ conn[c] = "open" /\ Lose(c)
  /\ conn' = [conn EXCEPT ![c] = "gone"]
  /\ UNCHANGED <<threadVars, sendVars, listVars, recvOps, sendOps, abandoned, ioCount,
                 ioMode, unguarded>>

-----------------------------------------------------------------------------
(* Steps inside a call.                                                    *)
CallStep(t) ==
  \/ ReleaseStore(t) \/ ReleaseQueue(t) \/ CloseSocket(t) \/ PushReconnect(t)
  \/ FreeSent(t) \/ ResetIOMode(t) \/ IOCountDecrement(t)
  \/ CountRecv(t) \/ WSARecv(t) \/ UndoRecv(t)
  \/ TrySending(t) \/ UseSize(t) \/ ResetEmpty(t) \/ Recheck(t)
  \/ Dequeue(t) \/ CountSend(t) \/ WSASend(t) \/ UndoSend(t)

ReconnecterStep ==
  TakeReleased \/ NewSocket \/ Connect \/ Bind \/ PopFront \/ Unlink

DequeueCompletion(w, c) == DequeueRecv(w, c) \/ DequeueSend(w, c)

Next ==
  \/ \E t \in Threads : CallStep(t)
  \/ ReconnecterStep
  \/ \E w \in Workers, c \in Channels : DequeueCompletion(w, c)
  \/ \E a \in Apps, c \in Channels : Enqueue(a, c)
  \/ \E c \in Channels : ConnectionLost(c)

Spec == Init /\ [][Next]_vars

-----------------------------------------------------------------------------
(* Properties.                                                             *)

Labels == {"idle", "release", "drain", "close", "invalidate", "push",   \* ReleaseSession
           "recvCount", "WSARecv", "undoRecv",                          \* RecvPost
           "sent", "resetMode", "dec",                                  \* Worker
           "cas", "size", "reset", "recheck", "dequeue", "sendCount",   \* SendPost
           "WSASend", "undoSend",
           "socket", "connect", "bind", "pop", "unlink", "ended"}       \* Reconnecter

(* Every variable holds a value of its type.                               *)
TypeOK ==
  /\ pc \in [Threads -> Labels]
  /\ cur \in [Threads -> Channels \cup {NoChannel}]
  /\ want \in [Threads -> Nat] /\ got \in [Threads -> Nat]
  /\ conn \in [Channels -> {"open", "gone", "closed", "fresh"}]
  /\ losses \in [Channels -> 0..MaxLosses]
  /\ ioCount \in [Channels -> Nat]
  /\ ioMode \in [Channels -> {"NONSENDING", "SENDING"}]
  /\ recvOps \in [Channels -> Nat] /\ sendOps \in [Channels -> Nat]
  /\ sendQ \in [Channels -> Seq(Packets)]
  /\ bufStore \in [Channels -> [Slots -> Packets \cup {NoPacket}]]
  /\ bufferCount \in [Channels -> 0..MaxWsaBuf]
  /\ reconnectList \in Seq(Channels) /\ snapshot \in Seq(Channels)
  /\ numOfReconnect \in 0..MaxReconnects
  /\ handed \in [Channels -> 0..MaxPackets]
  /\ wire \in [Channels -> Seq(Packets \cup {NoPacket})]
  /\ freed \in [Channels -> [Packets -> Nat]]
  /\ abandoned \in [Channels -> Nat]
  /\ unguarded \subseteq Channels /\ corrupted \in BOOLEAN

(* The threads that hold a reference of c: for the completion a worker     *)
(* handles, and for the operation a thread is about to post or to undo.    *)
Handles(c) ==
  {w \in Workers : /\ cur[w] = c
                   /\ pc[w] \in Labels \ {"release", "drain", "close", "invalidate", "push"}}
Posts(c) ==
  {t \in Threads : cur[t] = c /\ pc[t] \in {"WSARecv", "undoRecv", "WSASend", "undoSend"}}

(* ioCount is the number of operations in the kernel and of references     *)
(* held by threads, whatever fails and whoever sends: so the channel is    *)
(* released when, and only when, nothing of the old connection is left.    *)
RefCountExact ==
  \A c \in Channels :
    ioCount[c] = recvOps[c] + sendOps[c] + abandoned[c]
                   + Cardinality(Handles(c)) + Cardinality(Posts(c))

(* One thread at a time is between the won exchange and WSASend, and none  *)
(* while a send is in flight or its buffers are being freed, also across   *)
(* reconnections: bufStore has one user.                                   *)
Sending(c) ==
  {t \in Threads : /\ cur[t] = c
                   /\ pc[t] \in {"size", "reset", "dequeue", "sendCount", "WSASend",
                                 "undoSend", "sent", "resetMode"}}
SendsSerialized ==
  \A c \in Channels : sendOps[c] + Cardinality(Sending(c)) <= 1

(* A packet in the queue of a channel that is not sending is seen by a     *)
(* thread that is about to try.                                            *)
NoLostWakeup ==
  \A c \in Channels : sendQ[c] # <<>> /\ ioMode[c] = "NONSENDING" =>
    \E t \in Threads : cur[t] = c /\ pc[t] \in {"cas", "recheck"}

(* The OVERLAPPED and the ring of a channel have at most one receive.      *)
ReceivesSerialized ==
  \A c \in Channels \ unguarded :
    recvOps[c] + Cardinality({t \in Threads : cur[t] = c /\ pc[t] = "WSARecv"}) <= 1

(* The buffers of a send in flight have not been freed.                    *)
BuffersInFlightAlive ==
  \A c \in Channels \ unguarded : sendOps[c] > 0 =>
    \A i \in 1..bufferCount[c] : freed[c][bufStore[c][i]] = 0

(* DBServer gets a channel's packets in the order they were handed over    *)
(* and none twice, over all its connections.                               *)
SentInOrder ==
  \A c \in Channels \ unguarded :
    \A i, j \in DOMAIN wire[c] : i < j => wire[c][i] < wire[c][j]

(* A channel without references is being released, or waits in the list    *)
(* for the reconnecter, or the reconnecter is at it.                       *)
Releasing(t) == pc[t] \in {"release", "drain", "close", "invalidate", "push"}
DeadChannelsListed ==
  \A c \in Channels \ unguarded : ioCount[c] = 0 /\ ~corrupted =>
    \/ \E t \in Threads : cur[t] = c /\ Releasing(t)
    \/ \E i \in DOMAIN reconnectList : reconnectList[i] = c

(* The reconnecter gives a new socket only to a channel whose old          *)
(* connection is over.                                                     *)
ReconnectsDeadOnly ==
  \A c \in Channels \ unguarded :
    cur[Reconnecter] = c /\ pc[Reconnecter] \in {"socket", "connect", "bind", "recvCount"} =>
      ioCount[c] = 0

(* ReleaseSession returns the buffers "that SendPost moved but could not   *)
(* send" (MultiLanClient.cpp:195): each is returned once.                  *)
BuffersFreedOnce ==
  \A c \in Channels \ unguarded : \A p \in Packets : freed[c][p] <= 1

-----------------------------------------------------------------------------
(* Fairness: threads inside a call go on, connect succeeds in the end, the *)
(* kernel completes the operations of a dead connection, and workers take  *)
(* the completion with 0 bytes in the end.                                 *)
DequeueLastCompletion(c) ==
  \E w \in Workers : DequeueCompletion(w, c) /\ pc'[w] \in {"dec", "sent"}

FairSpec ==
  /\ Spec
  /\ \A t \in Threads : WF_vars(CallStep(t))
  /\ WF_vars(ReconnecterStep)
  /\ \A c \in Channels : SF_vars(DequeueLastCompletion(c))

(* A packet handed to a channel leaves its queue, unless a send of the     *)
(* channel failed or was abandoned: IOMode stays SENDING then, and nothing *)
(* resets it, not even a reconnection.                                     *)
SendStuck(c) == ioMode[c] = "SENDING" /\ sendOps[c] = 0 /\ Sending(c) = {}
PacketsLeaveQueue ==
  \A c \in Channels : sendQ[c] # <<>> ~> sendQ[c] = <<>> \/ SendStuck(c)

(* A lost channel is connected again, unless the reconnecter has ended or  *)
(* its list was corrupted, or SendPacket ran without a reference: on this  *)
(* channel, or on the one the reconnecter is at, whose new socket was then *)
(* closed by a send that failed.  connect fails for ever there, and all    *)
(* the channels behind it in the list wait.  (And unless the bound ends    *)
(* the reconnections.)                                                     *)
ReconnecterStuck == pc[Reconnecter] = "connect" /\ conn[cur[Reconnecter]] = "closed"
LostChannelsReconnect ==
  \A c \in Channels :
    conn[c] = "gone" ~> \/ conn[c] = "open" \/ c \in unguarded \/ corrupted
                       \/ pc[Reconnecter] = "ended" \/ ReconnecterStuck
                       \/ numOfReconnect = MaxReconnects
=============================================================================
