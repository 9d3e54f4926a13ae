----------------------- MODULE MultiLanClientInvariants -----------------------
(***************************************************************************)
(* The inductive invariants behind the safety properties of                *)
(* MultiLanClient.  Inv is their conjunction; MultiLanClientProofs shows   *)
(* that every step keeps it.                                               *)
(***************************************************************************)
EXTENDS MultiLanClient

(* Control flow: the labels each kind of thread can be at.  A thread that  *)
(* is in a call works on a channel.                                        *)
ReleaseLabels == {"release", "drain", "close", "invalidate", "push"}
SendLabels ==
  {"cas", "size", "reset", "recheck", "dequeue", "sendCount", "WSASend", "undoSend"}
AppLabels == {"idle"} \cup SendLabels \cup ReleaseLabels
WorkerLabels ==
  AppLabels \cup {"recvCount", "WSARecv", "undoRecv", "sent", "resetMode", "dec"}
ReconnecterLabels ==
  {"idle", "socket", "connect", "bind", "recvCount", "WSARecv", "undoRecv", "pop", "unlink",
   "ended"} \cup ReleaseLabels

LabelsOf(t) ==
  IF t \in Apps THEN AppLabels
  ELSE IF t \in Workers THEN WorkerLabels ELSE ReconnecterLabels

Control ==
  \A t \in Threads : /\ pc[t] \in LabelsOf(t)
                     /\ pc[t] = "idle" <=> cur[t] = NoChannel

(* Inside a loop a thread has at most what it is to dequeue, which fits    *)
(* into bufStore.                                                          *)
Loops ==
  \A t \in Threads :
    /\ pc[t] \in {"dequeue", "drain"} => got[t] <= want[t]
    /\ pc[t] = "dequeue" => want[t] \in Slots

(* The channel the reconnecter is at is the front of the list, which stays *)
(* in it until Unlink; the list only grows between PopFront and Unlink.    *)
ListFront ==
  /\ pc[Reconnecter] # "idle" => reconnectList # <<>>
  /\ pc[Reconnecter] \in {"socket", "connect", "bind", "recvCount"} =>
       cur[Reconnecter] = reconnectList[1]
  /\ pc[Reconnecter] \notin {"idle", "unlink"} => numOfReconnect < MaxReconnects
  /\ pc[Reconnecter] = "unlink" =>
       /\ snapshot # <<>> /\ Len(snapshot) <= Len(reconnectList)
       /\ \A i \in 1..Len(snapshot) : snapshot[i] = reconnectList[i]

(* ioMode says whether bufStore has a user, and it has one at most.        *)
SendExclusive ==
  \A c \in Channels :
    /\ sendOps[c] + Cardinality(Sending(c)) <= 1
    /\ ioMode[c] = "NONSENDING" => sendOps[c] + Cardinality(Sending(c)) = 0

(* Who sends on a channel without references has made it unguarded.        *)
Guarded == Channels \ unguarded
SendersGuarded == \A c \in Guarded : ioCount[c] = 0 => ~Unguarded(c)

-----------------------------------------------------------------------------
(* Places of the list whose channels wait to be connected: the front does  *)
(* not when the reconnecter has counted its first receive.                 *)
Reconnected == {"WSARecv", "undoRecv", "pop", "unlink"} \cup ReleaseLabels
Waiting(i) == i \in DOMAIN reconnectList /\ (i = 1 => pc[Reconnecter] \notin Reconnected)

(* A channel without references is in one place: with the one thread that  *)
(* releases it, or at one place of the list.                               *)
ReleasedAlone ==
  \A c \in Guarded : \A t \in Threads : cur[t] = c /\ Releasing(t) =>
    /\ ioCount[c] = 0
    /\ \A u \in Threads : cur[u] = c /\ Releasing(u) => u = t
    /\ \A i \in DOMAIN reconnectList : Waiting(i) => reconnectList[i] # c

WaitsOnce ==
  \A c \in Guarded : \A i \in DOMAIN reconnectList : Waiting(i) /\ reconnectList[i] = c =>
    /\ ioCount[c] = 0
    /\ \A j \in DOMAIN reconnectList : Waiting(j) /\ reconnectList[j] = c => i = j

DeadNotLost ==
  \A c \in Guarded : ioCount[c] = 0 /\ ~corrupted =>
    \/ \E t \in Threads : cur[t] = c /\ Releasing(t)
    \/ \E i \in DOMAIN reconnectList : Waiting(i) /\ reconnectList[i] = c

(* The ring of a channel has one user: a receive in flight, or a thread    *)
(* that is about to post one.                                              *)
Receiving(c) == {t \in Threads : cur[t] = c /\ pc[t] \in {"recvCount", "WSARecv"}}
ReceiveExclusive == \A c \in Guarded : recvOps[c] + Cardinality(Receiving(c)) <= 1

-----------------------------------------------------------------------------
(* The first n slots of bufStore hold packets for the next WSASend.        *)
Prepared(c, n) ==
  \E t \in Threads :
    /\ cur[t] = c
    /\ \/ pc[t] = "dequeue" /\ n = got[t]
       \/ pc[t] \in {"sendCount", "WSASend"} /\ n = bufferCount[c]

(* Packets DBServer was sent, or whose buffers were freed.                 *)
Gone(c) == {wire[c][i] : i \in DOMAIN wire[c]} \cup {p \in Packets : freed[c][p] # 0}

Increasing(s, n) == \A i, j \in 1..n : i < j => s[i] < s[j]

(* A packet passes sendQ, bufStore, and wire or freed in this order, and   *)
(* so do all packets in the order they were handed over.                   *)
QueueOrder(c) ==
  /\ Increasing(sendQ[c], Len(sendQ[c]))
  /\ \A i \in DOMAIN sendQ[c] : sendQ[c][i] <= handed[c]
StoreOrder(c) ==
  \A i \in Slots :
    /\ bufStore[c][i] <= handed[c]
    /\ \A j \in DOMAIN sendQ[c] : bufStore[c][i] < sendQ[c][j]
PreparedOrder(c) ==
  \A n \in 0..MaxWsaBuf : Prepared(c, n) =>
    /\ Increasing(bufStore[c], n)
    /\ \A i \in 1..n : bufStore[c][i] \in Packets
GoneOrder(c) ==
  \A p \in Gone(c) :
    /\ p <= handed[c]
    /\ \A j \in DOMAIN sendQ[c] : p < sendQ[c][j]
    /\ \A n \in 0..MaxWsaBuf : Prepared(c, n) => \A i \in 1..n : p < bufStore[c][i]
WireOrder(c) == Increasing(wire[c], Len(wire[c]))
InFlight(c) ==
  sendOps[c] > 0 =>
    \A i \in 1..bufferCount[c] : bufStore[c][i] \in Packets /\ freed[c][bufStore[c][i]] = 0

(* Nobody but the thread in the loop takes packets out of the queue.       *)
LoopsFed ==
  \A t \in Threads : cur[t] \in Guarded /\ pc[t] \in {"dequeue", "drain"} =>
    want[t] - got[t] <= Len(sendQ[cur[t]])

PacketOrder ==
  \A c \in Guarded :
    /\ QueueOrder(c) /\ StoreOrder(c) /\ PreparedOrder(c) /\ GoneOrder(c)
    /\ WireOrder(c) /\ InFlight(c)

-----------------------------------------------------------------------------
ThreadInv == TypeOK /\ Control /\ Loops /\ ListFront
ReferenceInv == RefCountExact /\ SendExclusive /\ SendersGuarded /\ NoLostWakeup
ReleaseInv == ReleasedAlone /\ WaitsOnce /\ DeadNotLost /\ ReceiveExclusive
OrderInv == LoopsFed /\ PacketOrder

Inv == ThreadInv /\ ReferenceInv /\ ReleaseInv /\ OrderInv
=============================================================================
