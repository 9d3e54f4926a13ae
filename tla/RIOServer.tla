------------------------------ MODULE RIOServer ------------------------------
(***************************************************************************)
(* Session lifecycle and send path of RIO_Core's RIOServer: the accepter   *)
(* thread, one worker thread per completion queue (a session belongs to    *)
(* the worker threadId for life), and any other threads ("Apps") that      *)
(* reach a session through GetSession and call SendPacket,                 *)
(* SendPacketAndDisconnect or Disconnect.                                  *)
(*                                                                         *)
(* A session lives while ioCount > 0.  One action is one access to memory  *)
(* that threads share: an interlocked operation, a critical section of     *)
(* sessionMapLock or of the Broadcaster's lock, a call of a RIO function.  *)
(* pc[t] is the next such access of thread t, cur[t] the session it works  *)
(* on, ret[t] where the running SendPost, RecvPost or ReleaseSession call  *)
(* returns to.                                                             *)
(*                                                                         *)
(* The kernel: recvOps and sendOps count the requests handed to RIO whose  *)
(* completion no worker has taken yet.  The completion order of different  *)
(* requests is the kernel's choice, so a worker may take any of its        *)
(* sessions' requests next; "data" stands for BytesTransferred > 0.        *)
(*                                                                         *)
(* Abstracted: packet contents and sizes other than against                *)
(* MAX_SEND_BUFFER_SIZE (a packet at least that large crashes the process  *)
(* in IsValidPacketSize, so none is enqueued); what MakeSendStream's       *)
(* overruns do to memory other than send buffers; the failed emplace       *)
(* branch of MakeNewSession, which EmplaceIsFresh shows to be dead.        *)
(*                                                                         *)
(* A definition named XWithout... or XBut... is X with a bug in it.  Next  *)
(* does not use it: it is there to see that the properties notice.         *)
(***************************************************************************)
EXTENDS Integers, Sequences, FiniteSets

CONSTANTS
  NumOfWorkerThread,   \* worker threads, and completion queues
  Apps,                \* threads that are neither accepter nor worker
  Accepter,            \* the accepter thread
  MaxClientCount,      \* option MAX_CLIENT_COUNT
  MaxSendBufferSize,   \* MAX_SEND_BUFFER_SIZE
  SizeOf,              \* size of the i-th packet handed to a session
  CountModulus,        \* 2^32 for the UINT counters; small in a model
  LastSessionId,       \* bound: the last session id that is given out
  MaxPackets           \* bound: packets handed to one session

Workers == 0..(NumOfWorkerThread - 1)
Threads == Workers \cup Apps \cup {Accepter}

NoSession == 0                        \* INVALID_SESSION_ID
FirstSessionId == NoSession + 2       \* nextSessionId starts at 1 and is incremented first
Sessions == FirstSessionId..LastSessionId
NoPacket == 0
Packets == 1..MaxPackets

ASSUME ConstantsAssumption ==
  /\ NumOfWorkerThread \in Nat \ {0}
  /\ Accepter \notin Workers \cup Apps
  /\ Workers \cap Apps = {}
  /\ IsFiniteSet(Apps)
  /\ MaxClientCount \in Nat \ {0}
  /\ MaxSendBufferSize \in Nat \ {0}
  /\ CountModulus \in Nat \ {0}
  /\ LastSessionId \in Nat
  /\ MaxPackets \in Nat
  /\ SizeOf \in [Packets -> 1..(MaxSendBufferSize - 1)]

VARIABLES
  pc, cur, ret,        \* the threads
  nextSessionId,
  threadId,            \* RIOSession::threadId
  conn,                \* the socket: "none", "open", "gone" (shut down or lost), "closed"
  ioCount,
  sessionMap,          \* ids in RIOServer::sessionMap
  sessionIdSet,        \* Broadcaster::sessionIdSet
  sessionCount,
  numOfSession,        \* numOfSessionInWorkerThread
  recvOps, sendOps,    \* requests in the kernel or in a completion queue
  ioMode,              \* SendItem::ioMode
  sendDisconnect,
  sendQueue,           \* SendItem::sendQueue
  reservedBuffer,      \* SendItem::reservedBuffer
  stream,              \* the stream a thread made: see MakeSendStream
  handed,              \* history: packets enqueued so far
  wire,                \* history: what each RIOSend gave to RIO, see OnWire
  released,            \* history: how often the buffers went back to the pools
  abandoned,           \* history: references nobody will ever give back
  irregular            \* history: see TakesReference and RecvCompleted

threadVars  == <<pc, cur, ret>>
idVars      == <<nextSessionId, threadId>>
mapVars     == <<sessionMap, sessionIdSet>>
countVars   == <<sessionCount, numOfSession>>
registryVars == <<idVars, mapVars, countVars>>
kernelVars  == <<conn, recvOps, sendOps>>
ioVars      == <<kernelVars, ioCount, ioMode>>
sendVars    == <<sendDisconnect, sendQueue, reservedBuffer, stream, handed, wire>>
ghostVars   == <<released, abandoned, irregular>>
vars == <<pc, cur, ret, nextSessionId, threadId, conn, ioCount, sessionMap,
          sessionIdSet, sessionCount, numOfSession, recvOps, sendOps, ioMode,
          sendDisconnect, sendQueue, reservedBuffer, stream, handed, wire,
          released, abandoned, irregular>>

NoStream == [first |-> NoPacket, copied |-> FALSE, stale |-> FALSE, tooLong |-> FALSE]

Init ==
  /\ pc  = [t \in Threads |-> "idle"]
  /\ cur = [t \in Threads |-> NoSession]
  /\ ret = [t \in Threads |-> "idle"]
  /\ nextSessionId = NoSession + 1
  /\ threadId = [s \in Sessions |-> 0]
  /\ conn = [s \in Sessions |-> "none"]
  /\ ioCount = [s \in Sessions |-> 0]
  /\ sessionMap = {}
  /\ sessionIdSet = {}
  /\ sessionCount = 0
  /\ numOfSession = [w \in Workers |-> 0]
  /\ recvOps = [s \in Sessions |-> 0]
  /\ sendOps = [s \in Sessions |-> 0]
  /\ ioMode = [s \in Sessions |-> "IO_NONE_SENDING"]
  /\ sendDisconnect = [s \in Sessions |-> FALSE]
  /\ sendQueue = [s \in Sessions |-> <<>>]
  /\ reservedBuffer = [s \in Sessions |-> NoPacket]
  /\ stream = [t \in Threads |-> NoStream]
  /\ handed = [s \in Sessions |-> 0]
  /\ wire = [s \in Sessions |-> <<>>]
  /\ released = [s \in Sessions |-> 0]
  /\ abandoned = [s \in Sessions |-> 0]
  /\ irregular = {}

-----------------------------------------------------------------------------
(* Threads.                                                                *)

Goto(t, label) ==
  /\ pc' = [pc EXCEPT ![t] = label]
  /\ UNCHANGED <<cur, ret>>

Call(t, s, label, returnTo) ==
  /\ pc'  = [pc EXCEPT ![t] = label]
  /\ cur' = [cur EXCEPT ![t] = s]
  /\ ret' = [ret EXCEPT ![t] = returnTo]

(* Where a thread goes once the call it returns to is over too: a release  *)
(* after a packet error is followed by Worker's own IOCountDecrement.      *)
Caller(t) ==
  IF ret[t] = "close" THEN "dec"
  ELSE IF t = Accepter THEN "enter" ELSE "idle"

Return(t) ==
  /\ pc'  = [pc EXCEPT ![t] = ret[t]]
  /\ ret' = [ret EXCEPT ![t] = Caller(t)]
  /\ cur' = IF ret[t] = "idle" THEN [cur EXCEPT ![t] = NoSession] ELSE cur

PlusWithoutWrap(c, d) == c + d
Plus(c, d) == (c + d) % CountModulus      \* InterlockedIncrement/Decrement of a UINT

(* A reference taken when the count is 0 no longer keeps anybody from      *)
(* releasing the session; such a session is recorded as irregular.         *)
TakesReference(s) ==
  /\ ioCount' = [ioCount EXCEPT ![s] = @ + 1]
  /\ irregular' = IF ioCount[s] = 0 THEN irregular \cup {s} ELSE irregular

-----------------------------------------------------------------------------
(* The accepter: Accepter, MakeNewSession.                                 *)

(* GetMinimumSessionThreadId: the first worker with the fewest sessions,   *)
(* among those below MaxClientCount; worker 0 when there is none.          *)
IsMinimumSessionThread(w) ==
  \/ /\ numOfSession[w] < MaxClientCount
     /\ \A v \in Workers : /\ numOfSession[w] <= numOfSession[v]
                           /\ numOfSession[v] = numOfSession[w] => w <= v
  \/ /\ w = 0
     /\ \A v \in Workers : numOfSession[v] >= MaxClientCount

(* accept returns and a session object with ioCount 1 is made.  When       *)
(* InitSession fails, the object is dropped and the socket closed; its     *)
(* buffers are not given back.                                             *)
AcceptSession ==
  /\ pc[Accepter] = "idle"
  /\ nextSessionId < LastSessionId
  /\ nextSessionId' = nextSessionId + 1
  /\ \E w \in Workers :
       /\ IsMinimumSessionThread(w)
       /\ threadId' = [threadId EXCEPT ![nextSessionId'] = w]
  /\ ioCount' = [ioCount EXCEPT ![nextSessionId'] = 1]
  /\ \/ /\ conn' = [conn EXCEPT ![nextSessionId'] = "open"]
        /\ Call(Accepter, nextSessionId', "publish", "dec")
        /\ UNCHANGED abandoned
     \/ /\ conn' = [conn EXCEPT ![nextSessionId'] = "closed"]
        /\ abandoned' = [abandoned EXCEPT ![nextSessionId'] = 1]
        /\ UNCHANGED threadVars
  /\ UNCHANGED <<countVars, sendVars, mapVars, recvOps, sendOps, ioMode, released,
                 irregular>>

(* The worker's session counter goes up, then the session is emplaced.     *)
Publish ==
  /\ pc[Accepter] = "publish"
  /\ LET s == cur[Accepter] IN
       /\ numOfSession' = [numOfSession EXCEPT ![threadId[s]] = Plus(@, 1)]
       /\ sessionMap' = sessionMap \cup {s}
  /\ Goto(Accepter, "RIOReceive")
  /\ UNCHANGED <<ioVars, sendVars, ghostVars, idVars, sessionIdSet, sessionCount>>

OnSessionEnteredWithoutInsert ==
  /\ pc[Accepter] = "enter"
  /\ Goto(Accepter, "count")
  /\ UNCHANGED <<registryVars, ioVars, sendVars, ghostVars>>

(* Broadcaster::OnSessionEntered, after RecvPost and IOCountDecrement.     *)
OnSessionEntered ==
  /\ pc[Accepter] = "enter"
  /\ sessionIdSet' = sessionIdSet \cup {cur[Accepter]}
  /\ Goto(Accepter, "count")
  /\ UNCHANGED <<ioVars, sendVars, ghostVars, countVars, idVars, sessionMap>>

(* Back in Accepter: only now is the session counted.                      *)
CountSession ==
  /\ pc[Accepter] = "count"
  /\ sessionCount' = Plus(sessionCount, 1)
  /\ Call(Accepter, NoSession, "idle", "idle")
  /\ UNCHANGED <<ioVars, sendVars, ghostVars, numOfSession, idVars, mapVars>>

-----------------------------------------------------------------------------
(* RecvPost: the request is handed to RIO before it is counted.            *)

RIOReceive(t) ==
  /\ pc[t] = "RIOReceive"
  /\ \/ /\ conn[cur[t]] # "closed"
        /\ recvOps' = [recvOps EXCEPT ![cur[t]] = @ + 1]
        /\ Goto(t, "recvCount")
     \/ /\ UNCHANGED recvOps                   \* FAILED_RECV_POST
        /\ Return(t)
  /\ UNCHANGED <<registryVars, sendVars, ghostVars, conn, ioCount, sendOps, ioMode>>

CountRecvWithoutReference(t) ==
  /\ pc[t] = "recvCount"
  /\ Return(t)
  /\ UNCHANGED <<registryVars, ioVars, sendVars, ghostVars>>

CountRecv(t) ==
  /\ pc[t] = "recvCount"
  /\ TakesReference(cur[t])
  /\ Return(t)
  /\ UNCHANGED <<registryVars, kernelVars, sendVars, ioMode, released, abandoned>>

-----------------------------------------------------------------------------
(* IOCountDecrement and ReleaseSession.                                    *)

IOCountDecrement(t) ==
  /\ pc[t] = "dec"
  /\ ioCount' = [ioCount EXCEPT ![cur[t]] = @ - 1]
  /\ IF ioCount'[cur[t]] = 0 THEN Goto(t, "leave") ELSE Return(t)
  /\ UNCHANGED <<registryVars, kernelVars, sendVars, ghostVars, ioMode>>

OnSessionLeaved(t) ==
  /\ pc[t] = "leave"
  /\ sessionIdSet' = sessionIdSet \ {cur[t]}
  /\ Goto(t, "close")
  /\ UNCHANGED <<ioVars, sendVars, ghostVars, countVars, idVars, sessionMap>>

CloseSocketWithoutCounting(t) ==
  /\ pc[t] = "close"
  /\ conn' = [conn EXCEPT ![cur[t]] = "closed"]
  /\ sessionCount' = Plus(sessionCount, -1)
  /\ Goto(t, "erase")
  /\ UNCHANGED <<sendVars, ghostVars, idVars, numOfSession, ioCount, mapVars, recvOps,
                 sendOps, ioMode>>

CloseSocket(t) ==
  /\ pc[t] = "close"
  /\ LET s == cur[t] IN
       /\ conn' = [conn EXCEPT ![s] = "closed"]
       /\ numOfSession' = [numOfSession EXCEPT ![threadId[s]] = Plus(@, -1)]
       /\ sessionCount' = Plus(sessionCount, -1)
  /\ Goto(t, "erase")
  /\ UNCHANGED <<sendVars, ghostVars, idVars, ioCount, mapVars, recvOps, sendOps,
                 ioMode>>

EraseSession(t) ==
  /\ pc[t] = "erase"
  /\ sessionMap' = sessionMap \ {cur[t]}
  /\ Goto(t, "free")
  /\ UNCHANGED <<ioVars, sendVars, ghostVars, countVars, idVars, sessionIdSet>>

(* OnSessionReleased: both buffers go back to their pools.                 *)
OnSessionReleased(t) ==
  /\ pc[t] = "free"
  /\ released' = [released EXCEPT ![cur[t]] = @ + 1]
  /\ Return(t)
  /\ UNCHANGED <<registryVars, ioVars, sendVars, abandoned, irregular>>

-----------------------------------------------------------------------------
(* The worker: GetIOCompletedContext, IOCompleted.                         *)

(* A worker takes the completion of a receive.  If the session has left    *)
(* the map the context is freed and its reference is never given back; 0   *)
(* bytes mean that the connection is over.                                 *)
DequeueRecv(w, s) ==
  /\ pc[w] = "idle" /\ threadId[s] = w /\ recvOps[s] > 0
  /\ recvOps' = [recvOps EXCEPT ![s] = @ - 1]
  /\ \/ /\ s \notin sessionMap
        /\ abandoned' = [abandoned EXCEPT ![s] = @ + 1]
        /\ UNCHANGED threadVars
     \/ /\ s \in sessionMap                                     \* data
        /\ Call(w, s, "recv", "idle")
        /\ UNCHANGED abandoned
     \/ /\ s \in sessionMap /\ conn[s] \in {"gone", "closed"}   \* 0 bytes
        /\ Call(w, s, "dec", "idle")
        /\ UNCHANGED abandoned
  /\ UNCHANGED <<registryVars, sendVars, conn, ioCount, sendOps, ioMode, released,
                 irregular>>

DequeueSend(w, s) ==
  /\ pc[w] = "idle" /\ threadId[s] = w /\ sendOps[s] > 0
  /\ sendOps' = [sendOps EXCEPT ![s] = @ - 1]
  /\ \/ /\ s \notin sessionMap
        /\ abandoned' = [abandoned EXCEPT ![s] = @ + 1]
        /\ UNCHANGED threadVars
     \/ /\ s \in sessionMap
        /\ Call(w, s, "sent", "idle")
        /\ UNCHANGED abandoned
     \/ /\ s \in sessionMap /\ conn[s] \in {"gone", "closed"}
        /\ Call(w, s, "dec", "idle")
        /\ UNCHANGED abandoned
  /\ UNCHANGED <<registryVars, sendVars, conn, ioCount, recvOps, ioMode, released,
                 irregular>>

(* The packets handed to s, those on their way to sendQueue included.      *)
CanHand(s) ==
  handed[s] + Cardinality({t \in Threads : /\ cur[t] = s
                                           /\ pc[t] \in {"sendDisconnect", "enqueue"}})
    < MaxPackets

(* RecvCompleted: the packets in the ring buffer are handled in turn; a    *)
(* handler may answer with SendPacket.  Then, whether or not a packet was  *)
(* bad, the next receive is posted; a bad packet releases the session      *)
(* after that, by ReleaseSession itself, with references still held.       *)
HandlerReplies(w) ==
  /\ pc[w] = "recv"
  /\ CanHand(cur[w])
  /\ Call(w, cur[w], "enqueue", "recv")
  /\ UNCHANGED <<registryVars, ioVars, sendVars, ghostVars>>

RecvCompletedButPostingFirst(w) ==
  /\ pc[w] = "recv"
  /\ Call(w, cur[w], "RIOReceive", "recv")
  /\ UNCHANGED <<registryVars, ioVars, sendVars, ghostVars>>

RecvCompleted(w) ==
  /\ pc[w] = "recv"
  /\ \/ /\ Call(w, cur[w], "RIOReceive", "dec")
        /\ UNCHANGED irregular
     \/ /\ Call(w, cur[w], "RIOReceive", "close")              \* packetError
        /\ irregular' = irregular \cup {cur[w]}
  /\ UNCHANGED <<registryVars, ioVars, sendVars, released, abandoned>>

(* SendIOCompleted.                                                        *)
SendIOCompleted(w) ==
  /\ pc[w] = "sent"
  /\ ioMode' = [ioMode EXCEPT ![cur[w]] = "IO_NONE_SENDING"]
  /\ Goto(w, "sendCompleted")
  /\ UNCHANGED <<registryVars, kernelVars, sendVars, ghostVars, ioCount>>

(* RIOServer::Disconnect: shutdown() of a socket that is still in the map. *)
Disconnect(s) ==
  conn' = IF s \in sessionMap /\ conn[s] = "open"
          THEN [conn EXCEPT ![s] = "gone"] ELSE conn

SendCompletedWithoutPost(w) ==
  /\ pc[w] = "sendCompleted"
  /\ IF sendDisconnect[cur[w]] THEN Disconnect(cur[w]) ELSE UNCHANGED conn
  /\ Call(w, cur[w], "dec", "idle")
  /\ UNCHANGED <<registryVars, sendVars, ghostVars, ioCount, recvOps, sendOps,
                 ioMode>>

SendCompletedButDecrementFirst(w) ==
  /\ pc[w] = "sendCompleted"
  /\ IF sendDisconnect[cur[w]]
     THEN Disconnect(cur[w]) /\ Call(w, cur[w], "dec", "idle")
     ELSE UNCHANGED conn /\ Call(w, cur[w], "dec", "cas")
  /\ UNCHANGED <<registryVars, sendVars, ghostVars, ioCount, recvOps, sendOps,
                 ioMode>>

SendCompleted(w) ==
  /\ pc[w] = "sendCompleted"
  /\ IF sendDisconnect[cur[w]]
     THEN Disconnect(cur[w]) /\ Call(w, cur[w], "dec", "idle")
     ELSE UNCHANGED conn /\ Call(w, cur[w], "cas", "dec")
  /\ UNCHANGED <<registryVars, sendVars, ghostVars, ioCount, recvOps, sendOps,
                 ioMode>>

-----------------------------------------------------------------------------
(* Other threads: GetSession, then a call on the session they got.         *)

AppSendPacket(a, s) ==
  /\ pc[a] = "idle" /\ s \in sessionMap /\ CanHand(s)
  /\ Call(a, s, "enqueue", "idle")
  /\ UNCHANGED <<registryVars, ioVars, sendVars, ghostVars>>

AppSendPacketAndDisconnect(a, s) ==
  /\ pc[a] = "idle" /\ s \in sessionMap /\ CanHand(s)
  /\ Call(a, s, "sendDisconnect", "idle")
  /\ UNCHANGED <<registryVars, ioVars, sendVars, ghostVars>>

SetSendDisconnect(a) ==
  /\ pc[a] = "sendDisconnect"
  /\ sendDisconnect' = [sendDisconnect EXCEPT ![cur[a]] = TRUE]
  /\ Goto(a, "enqueue")
  /\ UNCHANGED <<registryVars, ioVars, ghostVars, sendQueue, reservedBuffer, stream,
                 handed, wire>>

AppDisconnect(a, s) ==
  /\ pc[a] = "idle" /\ s \in sessionMap
  /\ Disconnect(s)
  /\ UNCHANGED <<registryVars, threadVars, sendVars, ghostVars, ioCount, recvOps,
                 sendOps, ioMode>>

(* The peer closes the connection, or it breaks.                           *)
ConnectionLost(s) ==
  /\ conn[s] = "open"
  /\ conn' = [conn EXCEPT ![s] = "gone"]
  /\ UNCHANGED <<registryVars, threadVars, sendVars, ghostVars, ioCount, recvOps,
                 sendOps, ioMode>>

-----------------------------------------------------------------------------
(* SendPacket, SendPost, MakeSendStream.                                   *)

Enqueue(t) ==
  /\ pc[t] = "enqueue"
  /\ LET s == cur[t] IN
       /\ handed' = [handed EXCEPT ![s] = @ + 1]
       /\ sendQueue' = [sendQueue EXCEPT ![s] = Append(@, handed'[s])]
  /\ Goto(t, "cas")
  /\ UNCHANGED <<registryVars, ioVars, ghostVars, sendDisconnect, reservedBuffer,
                 stream, wire>>

TrySendingWithoutTest(t) ==
  /\ pc[t] = "cas"
  /\ ioMode' = [ioMode EXCEPT ![cur[t]] = "IO_SENDING"]
  /\ Goto(t, "make")
  /\ UNCHANGED <<registryVars, kernelVars, sendVars, ghostVars, ioCount>>

(* InterlockedCompareExchange: the thread that turns NONE into SENDING     *)
(* goes on.  The test for an empty queue that follows in the source        *)
(* compares the address of an array with nullptr and never succeeds.       *)
TrySending(t) ==
  /\ pc[t] = "cas"
  /\ IF ioMode[cur[t]] = "IO_SENDING"
     THEN Return(t) /\ UNCHANGED ioMode
     ELSE Goto(t, "make") /\ ioMode' = [ioMode EXCEPT ![cur[t]] = "IO_SENDING"]
  /\ UNCHANGED <<registryVars, kernelVars, sendVars, ghostVars, ioCount>>

(* totalSendSize after the reserved packet and k queued ones.              *)
TotalSendSize(s, k) ==
  LET q == sendQueue[s]
      total[i \in 0..Len(q)] ==
        IF i = 0 THEN IF reservedBuffer[s] = NoPacket THEN 0 ELSE SizeOf[reservedBuffer[s]]
        ELSE total[i - 1] + SizeOf[q[i]]
  IN total[k]

Overflows(s, k) == k > 0 /\ TotalSendSize(s, k) >= MaxSendBufferSize

(* The packet that is kept for the next stream when k have been dequeued.  *)
NextReservedWithoutReset(s, k) ==
  IF Overflows(s, k) THEN sendQueue[s][k] ELSE reservedBuffer[s]
NextReserved(s, k) == IF Overflows(s, k) THEN sendQueue[s][k] ELSE NoPacket

(* The bound that memcpy_s gets for the first packet from the queue is the *)
(* buffer's size less twice the packet's.  A bound below the packet's size *)
(* makes memcpy_s refuse, a negative one is a huge size_t.                 *)
Fits(size) == MaxSendBufferSize - 2 * size \notin 0..(size - 1)

(* MakeSendStream dequeues packets up to the one that makes the total      *)
(* reach MAX_SEND_BUFFER_SIZE; that one is counted but kept for the next   *)
(* stream.  Only the first packet goes where RIOSend reads: the others'    *)
(* offsets count send buffers instead of bytes, so that they overwrite     *)
(* other elements of the pool.  The stream is                              *)
(*   first    the first packet,                                            *)
(*   copied   whether memcpy_s copied it (when it refuses, its handler     *)
(*            ends the process unless one was set; here it goes on),       *)
(*   stale    whether Length counts more packets: bytes of former streams  *)
(*            go out in their place,                                       *)
(*   tooLong  whether Length is more than the buffer.                      *)
(* An empty stream returns with ioMode still IO_SENDING.                   *)
MakeSendStream(t) ==
  /\ pc[t] = "make"
  /\ LET s == cur[t]
         q == sendQueue[s]
         r == reservedBuffer[s]
     IN \E k \in 0..Len(q) :
          /\ \A j \in 0..(k - 1) : ~Overflows(s, j)
          /\ k = Len(q) \/ Overflows(s, k)
          /\ sendQueue' = [sendQueue EXCEPT ![s] = SubSeq(q, k + 1, Len(q))]
          /\ reservedBuffer' = [reservedBuffer EXCEPT ![s] = NextReserved(s, k)]
          /\ IF k = 0 /\ r = NoPacket
             THEN Return(t) /\ UNCHANGED stream
             ELSE /\ Goto(t, "sendCount")
                  /\ stream' = [stream EXCEPT ![t] =
                       [first   |-> IF r = NoPacket THEN q[1] ELSE r,
                        copied  |-> r # NoPacket \/ Fits(SizeOf[q[1]]),
                        stale   |-> k > 1 \/ (k = 1 /\ r # NoPacket),
                        tooLong |-> TotalSendSize(s, k) > MaxSendBufferSize]]
  /\ UNCHANGED <<registryVars, ioVars, ghostVars, sendDisconnect, handed, wire>>

CountSendWithoutReference(t) ==
  /\ pc[t] = "sendCount"
  /\ Goto(t, "RIOSend")
  /\ UNCHANGED <<registryVars, ioVars, sendVars, ghostVars>>

CountSend(t) ==
  /\ pc[t] = "sendCount"
  /\ TakesReference(cur[t])
  /\ Goto(t, "RIOSend")
  /\ UNCHANGED <<registryVars, kernelVars, sendVars, ioMode, released, abandoned>>

(* After a failed RIOSend the reference is given back; ioMode stays        *)
(* IO_SENDING.                                                             *)
SendFailedWithoutDecrement(t) == Return(t)
SendFailed(t) == Goto(t, "dec")

(* What RIO finds in the buffer: the first packet, or none when it was not *)
(* copied or when another session's MakeSendStream has overwritten it; and *)
(* whether stale bytes follow.                                             *)
OnWire(t) ==
  [packet : {NoPacket} \cup (IF stream[t].copied THEN {stream[t].first} ELSE {}),
   stale  : {stream[t].stale}]

(* RIOSend fails at least when the socket is closed or the request is      *)
(* longer than the registered buffer.  After a success SendPost tries      *)
(* again.                                                                  *)
RIOSend(t) ==
  /\ pc[t] = "RIOSend"
  /\ stream' = [stream EXCEPT ![t] = NoStream]
  /\ \/ /\ conn[cur[t]] # "closed" /\ ~stream[t].tooLong
        /\ sendOps' = [sendOps EXCEPT ![cur[t]] = @ + 1]
        /\ \E d \in OnWire(t) : wire' = [wire EXCEPT ![cur[t]] = Append(@, d)]
        /\ Goto(t, "cas")
     \/ /\ UNCHANGED <<sendOps, wire>>
        /\ SendFailed(t)
  /\ UNCHANGED <<registryVars, ghostVars, conn, recvOps, ioCount, ioMode,
                 sendDisconnect, sendQueue, reservedBuffer, handed>>

-----------------------------------------------------------------------------
(* The steps of a call that has begun; a thread never stops inside one.    *)
CallStep(t) ==
  \/ RIOReceive(t) \/ CountRecv(t)
  \/ IOCountDecrement(t) \/ OnSessionLeaved(t)
  \/ CloseSocket(t) \/ EraseSession(t) \/ OnSessionReleased(t)
  \/ Enqueue(t) \/ TrySending(t) \/ MakeSendStream(t) \/ CountSend(t) \/ RIOSend(t)

AccepterStep == Publish \/ OnSessionEntered \/ CountSession

WorkerStep(w) ==
  HandlerReplies(w) \/ RecvCompleted(w) \/ SendIOCompleted(w) \/ SendCompleted(w)

DequeueCompletion(w, s) == DequeueRecv(w, s) \/ DequeueSend(w, s)

AppCall(a, s) ==
  AppSendPacket(a, s) \/ AppSendPacketAndDisconnect(a, s) \/ AppDisconnect(a, s)

Next ==
  \/ AcceptSession
  \/ AccepterStep
  \/ \E t \in Threads : CallStep(t)
  \/ \E w \in Workers : WorkerStep(w)
  \/ \E w \in Workers, s \in Sessions : DequeueCompletion(w, s)
  \/ \E a \in Apps : SetSendDisconnect(a)
  \/ \E a \in Apps, s \in Sessions : AppCall(a, s)
  \/ \E s \in Sessions : ConnectionLost(s)

Spec == Init /\ [][Next]_vars
=============================================================================
