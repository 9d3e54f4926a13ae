------------------------- MODULE RIOServerProperties -------------------------
(***************************************************************************)
(* What RIOServer.tla is checked for.                                      *)
(***************************************************************************)
EXTENDS RIOServer

Labels == {"idle", "publish", "enter", "count",              \* MakeNewSession, Accepter
           "RIOReceive", "recvCount",                        \* RecvPost
           "dec", "leave", "close", "erase", "free",         \* IOCountDecrement, ReleaseSession
           "recv", "sent", "sendCompleted",                  \* IOCompleted
           "sendDisconnect", "enqueue",                      \* SendPacket...
           "cas", "make", "sendCount", "RIOSend"}            \* SendPost

ThreadTypeOK ==
  /\ pc \in [Threads -> Labels]
  /\ cur \in [Threads -> Sessions \cup {NoSession}]
  /\ ret \in [Threads -> Labels]

RegistryTypeOK ==
  /\ nextSessionId \in Nat \ {0}
  /\ threadId \in [Sessions -> Workers]
  /\ sessionMap \in SUBSET Sessions
  /\ sessionIdSet \in SUBSET Sessions
  /\ sessionCount \in 0..(CountModulus - 1)
  /\ numOfSession \in [Workers -> 0..(CountModulus - 1)]

IoTypeOK ==
  /\ conn \in [Sessions -> {"none", "open", "gone", "closed"}]
  /\ ioCount \in [Sessions -> Int]
  /\ recvOps \in [Sessions -> Nat]
  /\ sendOps \in [Sessions -> Nat]
  /\ ioMode \in [Sessions -> {"IO_NONE_SENDING", "IO_SENDING"}]

SendTypeOK ==
  /\ sendDisconnect \in [Sessions -> BOOLEAN]
  /\ sendQueue \in [Sessions -> Seq(Nat)]
  /\ reservedBuffer \in [Sessions -> Nat]
  /\ stream \in [Threads -> [first : Nat, copied : BOOLEAN, stale : BOOLEAN,
                             tooLong : BOOLEAN]]
  /\ handed \in [Sessions -> Nat]
  /\ wire \in [Sessions -> Seq([packet : Nat, stale : BOOLEAN])]

HistoryTypeOK ==
  /\ released \in [Sessions -> Nat]
  /\ abandoned \in [Sessions -> Nat]
  /\ irregular \in SUBSET Sessions

(* Every variable holds a value of its type.                               *)
TypeOK ==
  ThreadTypeOK /\ RegistryTypeOK /\ IoTypeOK /\ SendTypeOK /\ HistoryTypeOK

-----------------------------------------------------------------------------
(* Who holds a reference.                                                  *)

Bit(b) == IF b THEN 1 ELSE 0

(* MakeNewSession's own reference, from the constructor to its decrement.  *)
AccepterHolds(s) ==
  cur[Accepter] = s /\ pc[Accepter] \in {"publish", "RIOReceive", "recvCount", "dec"}

(* Where a thread is inside SendPost, from the won exchange to RIOSend, or *)
(* about to undo the reference of a failed RIOSend.                        *)
UndoesSend(t) == pc[t] = "dec" /\ (t \in Apps \/ ret[t] \in {"dec", "recv"})
Sends(t, s) ==
  cur[t] = s /\ (pc[t] \in {"make", "sendCount", "RIOSend"} \/ UndoesSend(t))

(* The reference SendPost takes before RIOSend.                            *)
HoldsSend(t, s) == cur[t] = s /\ (pc[t] = "RIOSend" \/ UndoesSend(t))
SendHolds(s) == \E t \in Threads : HoldsSend(t, s)

(* A worker that handles a completion still has the reference that came    *)
(* with it, up to Worker's last IOCountDecrement.                          *)
Releasing == {"leave", "close", "erase", "free"}
Handles(w) ==
  \/ pc[w] \in {"recv", "RIOReceive", "recvCount", "sent", "sendCompleted", "enqueue",
                "cas", "make", "sendCount", "RIOSend", "dec"}
  \/ pc[w] \in Releasing /\ ret[w] # "idle"
WorkerHolds(s) == cur[threadId[s]] = s /\ Handles(threadId[s])

(* Receives posted and not counted yet.                                    *)
Uncounted(t, s) == cur[t] = s /\ pc[t] = "recvCount"

RefCount(s) ==
  ioCount[s] + Bit(Uncounted(Accepter, s)) + Bit(Uncounted(threadId[s], s))
    = Bit(AccepterHolds(s)) + Bit(WorkerHolds(s)) + Bit(SendHolds(s))
        + recvOps[s] + sendOps[s] + abandoned[s]

(* ioCount is exactly the references held: by the accepter, by the worker  *)
(* that handles a completion, by SendPost, by requests in RIO, and those   *)
(* that were lost; less the receives that RecvPost (RIOServer.cpp:726-733) *)
(* posted before counting them.                                            *)
RefCountExact == \A s \in Sessions : RefCount(s)

(* A worker never brings a session back from a count of 0, whatever was    *)
(* released by then: it still has the reference of the completion it       *)
(* handles when it counts a receive or a send (RIOServer.cpp:733, 771).    *)
(* Accepter and Apps have no reference of their own there.                 *)
WorkersReviveNobody ==
  \A w \in Workers : pc[w] \in {"recvCount", "sendCount"} => ioCount[cur[w]] # 0

(* The buffers of a session that never had a bad packet and whose count    *)
(* was never raised from 0 go back only when RIO has no request on them    *)
(* and its worker does not handle one of its completions: neither the      *)
(* kernel nor a packet handler touches a buffer another session may own.   *)
(* It says nothing of the accepter and of Apps, who may hold the session   *)
(* longer.                                                                 *)
NoUseAfterRelease ==
  \A s \in Sessions \ irregular :
    released[s] > 0 => /\ recvOps[s] = 0
                       /\ sendOps[s] = 0
                       /\ ~WorkerHolds(s)
                       /\ s \notin sessionMap

(* At most one receive per session is in RIO, and none while the worker    *)
(* reads the ring buffer it would write into.                              *)
ReceivesSerialized ==
  \A s \in Sessions :
    recvOps[s] + Bit(\E w \in Workers : cur[w] = s /\ pc[w] = "recv") <= 1

(* At most one send per session is in RIO, and no thread is in SendPost    *)
(* between the won exchange and RIOSend meanwhile: nobody rewrites a send  *)
(* buffer the kernel is reading.                                           *)
SendsSerialized ==
  \A s \in Sessions :
    /\ sendOps[s] <= 1
    /\ \A t \in Threads : Sends(t, s) =>
         sendOps[s] = 0 /\ \A u \in Threads : Sends(u, s) => u = t

(* MakeNewSession never meets its id in the map: the branch in which       *)
(* emplace fails would release the session under the lock it already holds.*)
EmplaceIsFresh ==
  pc[Accepter] = "publish" => cur[Accepter] \notin sessionMap

(* Broadcasts reach every session: one that is in the map, that MakeNew-   *)
(* Session is done with and nobody is releasing is in sessionIdSet.        *)
LiveSessionsRegistered ==
  \A s \in sessionMap :
    \/ cur[Accepter] = s
    \/ \E t \in Threads : cur[t] = s /\ pc[t] \in {"close", "erase"}
    \/ s \in sessionIdSet

(* When no call is running, sessionCount and the workers' counters are the *)
(* numbers of sessions in the map, unless some session was released twice. *)
CountersAgree ==
  (\A t \in Threads : pc[t] = "idle") /\ (\A s \in Sessions : released[s] <= 1) =>
    /\ sessionCount = Cardinality(sessionMap)
    /\ \A w \in Workers :
         numOfSession[w] = Cardinality({s \in sessionMap : threadId[s] = w})

(* Threads that will look at the send queue before they leave the session. *)
Responsible(t, s) ==
  cur[t] = s /\ pc[t] \in {"cas", "make", "sendCount", "RIOSend", "sendCompleted"}
Wakeup(s) ==
  sendQueue[s] # <<>> => \/ \E t \in Threads : Responsible(t, s)
                        \/ ioMode[s] = "IO_SENDING"
                        \/ sendDisconnect[s]

(* No lost wake-up in SendPost: a packet left in the queue of a session no *)
(* thread is sending for means that ioMode is IO_SENDING (so the thread    *)
(* that set it was responsible), or that the session is to be closed.      *)
NoLostWakeup == \A s \in Sessions : Wakeup(s)

-----------------------------------------------------------------------------
(* What SendPacket gives at most: between bytes that are no packet, those  *)
(* of every session's packets that RIO gets whole come in the order they   *)
(* were handed over, none twice; some never do.                            *)
Channel == INSTANCE LossyChannel
             WITH Channels <- Sessions, sent <- handed, received <- wire
ImplementsLossyChannel == Channel!Spec

-----------------------------------------------------------------------------
(* Fairness: threads that are inside a call go on, the scheduler sees to   *)
(* it; the kernel completes the requests of a dead connection, with 0      *)
(* bytes once the data that had arrived is used up, and workers poll their *)
(* queues in order, so that completion is not passed over for ever.        *)
DequeueLastCompletion(s) ==
  \E w \in Workers : DequeueCompletion(w, s) /\ pc'[w] # "recv" /\ pc'[w] # "sent"

FairSpec ==
  /\ Spec
  /\ WF_vars(AccepterStep)
  /\ \A t \in Threads : WF_vars(CallStep(t))
  /\ \A w \in Workers : WF_vars(WorkerStep(w))
  /\ \A a \in Apps : WF_vars(SetSendDisconnect(a))
  /\ \A s \in Sessions : SF_vars(DequeueLastCompletion(s))

(* A session whose connection is over leaves the map in the end.           *)
GoneSessionsLeave ==
  \A s \in Sessions : (s \in sessionMap /\ conn[s] = "gone") ~> s \notin sessionMap

=============================================================================
