------------------------- MODULE RIOServerInvariants -------------------------
(***************************************************************************)
(* The inductive invariants behind the safety properties of RIOServer.     *)
(* Inv is the conjunction of those that need one another; given Inv, the   *)
(* packets (HandedBounded, PacketInv) and the counters (LifeInv, CountInv) *)
(* have an invariant of their own each.  RIOServerStepProofs and           *)
(* RIOServerSafetyProofs show that every step keeps them.                  *)
(***************************************************************************)
EXTENDS RIOServerProperties

(* Control flow: the labels each kind of thread can be at, with where its  *)
(* call returns to; a thread that is in a call works on a session.         *)
SendLabels == {"cas", "make", "sendCount", "RIOSend"}

AccepterControl(t) ==
  \/ pc[t] \in {"idle", "count"}
  \/ pc[t] \in {"publish", "RIOReceive", "recvCount"} /\ ret[t] = "dec"
  \/ pc[t] \in {"dec", "enter"} \cup Releasing /\ ret[t] = "enter"

WorkerControl(t) ==
  \/ pc[t] \in {"idle", "recv", "sent", "sendCompleted"} /\ ret[t] = "idle"
  \/ pc[t] \in {"RIOReceive", "recvCount"} /\ ret[t] \in {"dec", "close"}
  \/ pc[t] = "enqueue" /\ ret[t] = "recv"
  \/ pc[t] \in SendLabels /\ ret[t] \in {"dec", "recv"}
  \/ pc[t] \in {"dec"} \cup Releasing /\ ret[t] \in {"idle", "dec", "recv"}

AppControl(t) ==
  /\ pc[t] \in {"idle", "sendDisconnect", "enqueue", "dec"} \cup SendLabels \cup Releasing
  /\ ret[t] = "idle"

ThreadControl(t) ==
  /\ t = Accepter => AccepterControl(t)
  /\ t \in Workers => WorkerControl(t)
  /\ t \in Apps => AppControl(t)
  /\ IF pc[t] = "idle" THEN cur[t] = NoSession ELSE cur[t] \in Sessions

Control == \A t \in Threads : ThreadControl(t)

-----------------------------------------------------------------------------
(* Sessions whose id has not been given out are untouched.                 *)
Untouched(s) ==
  /\ s \notin sessionMap \cup sessionIdSet \cup irregular
  /\ ioCount[s] = 0 /\ recvOps[s] = 0 /\ sendOps[s] = 0
  /\ released[s] = 0 /\ abandoned[s] = 0
  /\ \A t \in Threads : cur[t] # s

IdsInOrder == \A s \in Sessions : s > nextSessionId => Untouched(s)

(* Before its session is published, the accepter is alone with it.         *)
PublishesFresh ==
  pc[Accepter] = "publish" =>
    LET s == cur[Accepter] IN
      /\ s \notin sessionMap \cup sessionIdSet \cup irregular
      /\ ioCount[s] = 1 /\ recvOps[s] = 0 /\ sendOps[s] = 0
      /\ released[s] = 0 /\ abandoned[s] = 0
      /\ \A t \in Threads : cur[t] = s => t = Accepter

(* A worker handles its own sessions only.                                 *)
OwnWorker == \A w \in Workers : pc[w] # "idle" => threadId[cur[w]] = w

Identity == IdsInOrder /\ PublishesFresh /\ OwnWorker

-----------------------------------------------------------------------------
(* Whoever is between the won exchange and RIOSend, RIO, and the worker    *)
(* that is about to reset ioMode exclude each other.                       *)
SendMutex(s) ==
  /\ sendOps[s] <= 1
  /\ sendOps[s] = 1 => ioMode[s] = "IO_SENDING"
  /\ \A t \in Threads : Sends(t, s) =>
       /\ ioMode[s] = "IO_SENDING" /\ sendOps[s] = 0
       /\ \A u \in Threads : Sends(u, s) => u = t
  /\ \A w \in Workers : cur[w] = s /\ pc[w] = "sent" =>
       /\ ioMode[s] = "IO_SENDING" /\ sendOps[s] = 0
       /\ \A t \in Threads : ~Sends(t, s)

SendInv == \A s \in Sessions : SendMutex(s)

-----------------------------------------------------------------------------
(* The right to post the session's receive: in RIO as a posted one, with   *)
(* the accepter until it posts the first, or with the worker that handled  *)
(* the last.                                                               *)
AccepterPosts(s) == cur[Accepter] = s /\ pc[Accepter] \in {"publish", "RIOReceive"}
WorkerPosts(w, s) == cur[w] = s /\ (pc[w] \in {"recv", "RIOReceive"} \/ ret[w] = "recv")

OneReceive(s) ==
  recvOps[s] + Bit(AccepterPosts(s)) + Bit(WorkerPosts(threadId[s], s)) <= 1

ReceiveInv == \A s \in Sessions : OneReceive(s)

-----------------------------------------------------------------------------
(* Releases.                                                               *)
Releases(t, s) == cur[t] = s /\ pc[t] \in Releasing

(* The end of a regular session: its count is 0 for good, one thread       *)
(* releases it, once.                                                      *)
RegularRelease(s) ==
  /\ released[s] <= 1
  /\ released[s] = 1 => /\ ioCount[s] = 0 /\ s \notin sessionMap
                        /\ \A t \in Threads : ~Releases(t, s)
  /\ \A t \in Threads : Releases(t, s) =>
       /\ ioCount[s] = 0
       /\ pc[t] = "free" => s \notin sessionMap
       /\ \A u \in Threads : Releases(u, s) => u = t

(* A worker that posts a receive cannot take its completion before it has  *)
(* counted it; after a packet error the session is irregular.              *)
WorkerReceive(w) ==
  /\ pc[w] = "recvCount" => recvOps[cur[w]] >= 1
  /\ ret[w] = "close" => cur[w] \in irregular

ReleaseInv ==
  /\ \A s \in Sessions \ irregular : RegularRelease(s)
  /\ \A w \in Workers : WorkerReceive(w)

-----------------------------------------------------------------------------
(* The Broadcaster.                                                        *)
Leaving(s) == \E t \in Threads : cur[t] = s /\ pc[t] \in {"close", "erase"}

BroadcastInv ==
  /\ LiveSessionsRegistered
  /\ pc[Accepter] = "count" =>
       LET s == cur[Accepter] IN s \in sessionMap => Leaving(s) \/ s \in sessionIdSet

-----------------------------------------------------------------------------
Inv ==
  /\ TypeOK /\ Control /\ Identity
  /\ SendInv /\ ReceiveInv /\ RefCountExact /\ ReleaseInv /\ BroadcastInv
  /\ NoLostWakeup

-----------------------------------------------------------------------------
(* The packets of a session.                                               *)

(* Threads about to put a packet into the session's queue; MaxPackets      *)
(* bounds theirs too.                                                      *)
Handing(s) == {t \in Threads : cur[t] = s /\ pc[t] \in {"sendDisconnect", "enqueue"}}
HandedBounded == \A s \in Sessions : handed[s] + Cardinality(Handing(s)) <= MaxPackets

(* The packet was handed over, before all that are in the queue.           *)
Precedes(p, s) ==
  p <= handed[s] /\ \A i \in 1..Len(sendQueue[s]) : p < sendQueue[s][i]

(* The packet went out or is about to: what is reserved and what is in the *)
(* queue came after it.                                                    *)
GoesFirst(p, s) ==
  Precedes(p, s) /\ (reservedBuffer[s] # NoPacket => p < reservedBuffer[s])

Prepared(t, s) == cur[t] = s /\ pc[t] \in {"sendCount", "RIOSend"}

QueueSorted(s) ==
  /\ \A i \in 1..Len(sendQueue[s]) : sendQueue[s][i] \in 1..handed[s]
  /\ \A i, j \in 1..Len(sendQueue[s]) : i < j => sendQueue[s][i] < sendQueue[s][j]

(* A packet moves from the queue, perhaps by way of reservedBuffer, into   *)
(* a stream and from there to the wire; each place holds later packets     *)
(* than the next.  p is one that arrived.                                  *)
InOrderAfter(p, s) ==
  /\ QueueSorted(s)
  /\ Precedes(reservedBuffer[s], s)
  /\ GoesFirst(p, s)
  /\ \A t \in Threads : Prepared(t, s) =>
       GoesFirst(stream[t].first, s) /\ p < stream[t].first

PacketsInOrder(s) == \A p \in Channel!Arrived(s) : InOrderAfter(p, s)

PacketInv == \A s \in Sessions : PacketsInOrder(s)

-----------------------------------------------------------------------------
(* The counters.                                                           *)

(* The session has been in the map and left it.                            *)
Erased(s) == released[s] > 0 \/ \E t \in Threads : cur[t] = s /\ pc[t] = "free"

(* A session enters the map once, before anyone but the accepter works on  *)
(* it, and does not come back.                                             *)
LifeInv ==
  /\ \A s \in sessionMap : ~Erased(s)
  /\ \A t \in Threads : pc[t] \notin {"idle", "publish"} =>
       cur[t] \in sessionMap \/ Erased(cur[t])

(* CloseSocket has happened to the session at most once; each time is      *)
(* followed by OnSessionReleased.                                          *)
Closed(t, s) == cur[t] = s /\ pc[t] \in {"erase", "free"}
ClosedOnce(s) ==
  /\ released[s] <= 1
  /\ \A t \in Threads : Closed(t, s) =>
       released[s] = 0 /\ \A u \in Threads : Closed(u, s) => u = t

(* Sessions in the map that the workers' counters still count; the         *)
(* accepter counts its session in sessionCount later.                      *)
Open == {s \in sessionMap : \A t \in Threads : ~(cur[t] = s /\ pc[t] = "erase")}
OpenOf(w) == {s \in Open : threadId[s] = w}
AccepterCounts == pc[Accepter] \in {"idle", "publish"}

CountersExact ==
  /\ sessionCount = (Cardinality(Open) - Bit(~AccepterCounts)) % CountModulus
  /\ \A w \in Workers : numOfSession[w] = Cardinality(OpenOf(w)) % CountModulus

CountInv == (\A s \in Sessions : ClosedOnce(s)) => CountersExact
=============================================================================
