------------------------------- MODULE AuthServer -------------------------------
(***************************************************************************)
(* AuthServer: main opens the database and the two servers, game servers   *)
(* register over the LAN server, and AuthDBThreadManager has threads for   *)
(* DB jobs.                                                                *)
(*                                                                         *)
(* A session is one connection over the LAN.  AuthClient sends one         *)
(* registration when it is connected; the handler takes any number, and so *)
(* does the model.  CLanServer is a library outside the repository: it     *)
(* calls OnRecv of a session one packet at a time, and OnClientLeave once, *)
(* after OnRecv has returned.                                              *)
(* Clients' logins do nothing yet, so userInfoMap stays empty.             *)
(*                                                                         *)
(* InsertDBJob signals no event, and nothing else does: the workers only   *)
(* ever wake to stop, and no DB job is handled.                            *)
(***************************************************************************)
EXTENDS Naturals, FiniteSets

CONSTANTS
  Sessions, ServerIds,
  Workers,
  ConnectionPoolSize,   \* connectionPoolSize, or 1 for 0
  MaxJobs,              \* bound: DB jobs inserted
  NoId

ASSUME AuthAssumption ==
  /\ ConnectionPoolSize \in Nat \ {0} /\ MaxJobs \in Nat
  /\ NoId \notin ServerIds

VARIABLES
  main,          \* "connect", "start", "lan", "net", "running", "exiting", "exited", "crashed"
  pooled,        \* connectionList's size
  link,          \* per session: "new", "open", "broken", "left"
  request,       \* sessions whose registration is on its way
  gameServerMap, \* the id each session is registered with, or NoId
  answering,     \* sessions whose handler has not sent its answer yet
  isConnected,   \* the handler's last answer: "none", "yes", "no"
  accepted,      \* sessions the handler has answered yes
  reply,         \* <<session, answer>> on their way
  connectedAtClient, \* AuthClient::isConnected
  isStarted,
  worker,        \* "none", "waiting", "stopping", "ended"
  stopEvent,     \* STOP_EVENT_HANDLE: "unset", "set", "closed"
  stopping,      \* StopThreads is joining the threads
  dbJobList      \* its size

startVars    == <<main, pooled>>
registryVars == <<link, request, gameServerMap, answering, isConnected, accepted, reply,
                  connectedAtClient>>
threadVars   == <<isStarted, worker, stopEvent, stopping, dbJobList>>
vars == <<startVars, registryVars, threadVars>>

Init ==
  /\ main = "connect" /\ pooled = 0
  /\ link = [s \in Sessions |-> "new"]
  /\ request = {} /\ answering = {} /\ accepted = {} /\ reply = {} /\ connectedAtClient = {}
  /\ gameServerMap = [s \in Sessions |-> NoId]
  /\ isConnected = [s \in Sessions |-> "none"]
  /\ isStarted = FALSE
  /\ worker = [w \in Workers |-> "none"]
  /\ stopEvent = "unset" /\ stopping = FALSE
  /\ dbJobList = 0

-----------------------------------------------------------------------------
(* main.                                                                   *)

(* Connects the default connection, then fills the pool; a failure leaves  *)
(* what there is.  A default connection opened before is overwritten.      *)
ConnectDB(next) ==
  /\ \/ main' = "exiting" /\ UNCHANGED pooled
     \/ \E n \in 0..ConnectionPoolSize :
          /\ pooled' = pooled + n
          /\ main' = IF n = ConnectionPoolSize THEN next ELSE "exiting"
  /\ UNCHANGED <<registryVars, threadVars>>

MainConnectDB == main = "connect" /\ ConnectDB("start")

(* ConnectDB once more, to the same pool.                                  *)
StartAuthServer == main = "start" /\ ConnectDB("lan")

StartLanServer ==
  /\ main = "lan" /\ main' \in {"net", "exiting"}
  /\ UNCHANGED <<pooled, registryVars, threadVars>>

StartNetServer ==
  /\ main = "net" /\ main' \in {"running", "exiting"}
  /\ UNCHANGED <<pooled, registryVars, threadVars>>

(* The destructor of the pool runs Cleanup, which pops the list it         *)
(* iterates over: it may crash after any connection.                       *)
Cleanup ==
  /\ main = "exiting"
  /\ \/ main' = "exited" /\ pooled' = 0
     \/ \E n \in 1..pooled : main' = "crashed" /\ pooled' = pooled - n
  /\ UNCHANGED <<registryVars, threadVars>>

Up == main \in {"net", "running"}

-----------------------------------------------------------------------------
(* Registration of game servers.                                           *)

OnConnectionComplete(s) ==
  /\ Up /\ link[s] = "new"
  /\ link' = [link EXCEPT ![s] = "open"]
  /\ request' = request \cup {s}
  /\ UNCHANGED <<startVars, gameServerMap, answering, isConnected, accepted, reply,
                 connectedAtClient, threadVars>>

(* A registration after the first, which no client of the repository sends.*)
RegisterAgain(s) ==
  /\ link[s] = "open" /\ s \notin request
  /\ request' = request \cup {s}
  /\ UNCHANGED <<startVars, link, gameServerMap, answering, isConnected, accepted, reply,
                 connectedAtClient, threadVars>>

Taken(id) == \E t \in Sessions : gameServerMap[t] = id

Registered(s) == gameServerMap[s] # NoId

GameServerRegisterRequestWithoutTest(s, id) ==
  /\ s \in request \ answering /\ link[s] # "left"
  /\ request' = request \ {s} /\ answering' = answering \cup {s}
  /\ gameServerMap' = IF Registered(s) THEN gameServerMap ELSE [gameServerMap EXCEPT ![s] = id]
  /\ isConnected' = [isConnected EXCEPT ![s] = "yes"]
  /\ accepted' = accepted \cup {s}
  /\ UNCHANGED <<startVars, link, reply, connectedAtClient, threadVars>>

(* Under gameServerMapLock.  AuthClient sends no id: the one read from the *)
(* packet is whatever CSerializationBuf yields.  insert overwrites nothing:*)
(* a session that is registered keeps its id, whichever it is told it has. *)
GameServerRegisterRequest(s, id) ==
  /\ s \in request \ answering /\ link[s] # "left"
  /\ request' = request \ {s} /\ answering' = answering \cup {s}
  /\ gameServerMap' = IF Taken(id) \/ Registered(s)
                      THEN gameServerMap ELSE [gameServerMap EXCEPT ![s] = id]
  /\ isConnected' = [isConnected EXCEPT ![s] = IF Taken(id) THEN "no" ELSE "yes"]
  /\ accepted' = IF Taken(id) THEN accepted ELSE accepted \cup {s}
  /\ UNCHANGED <<startVars, link, reply, connectedAtClient, threadVars>>

(* After the unlock.                                                       *)
SendPacketToLanClient(s) ==
  /\ s \in answering
  /\ answering' = answering \ {s}
  /\ reply' = IF link[s] = "open" THEN reply \cup {<<s, isConnected[s]>>} ELSE reply
  /\ UNCHANGED <<startVars, link, request, gameServerMap, isConnected, accepted, connectedAtClient,
                 threadVars>>

RegisterReplyType == "Auth2Game_RegisterSuccess"

(* AuthClient looks for its answer under the type of its request.          *)
OnRecv(s) ==
  \E answer \in {"yes", "no"} :
    /\ <<s, answer>> \in reply /\ link[s] = "open"
    /\ reply' = reply \ {<<s, answer>>}
    /\ connectedAtClient' = IF RegisterReplyType = "Game2Auth_Register" /\ answer = "yes"
                            THEN connectedAtClient \cup {s} ELSE connectedAtClient
    /\ UNCHANGED <<startVars, link, request, gameServerMap, answering, isConnected, accepted,
                   threadVars>>

ConnectionLost(s) ==
  /\ link[s] = "open"
  /\ link' = [link EXCEPT ![s] = "broken"]
  /\ reply' = {r \in reply : r[1] # s}
  /\ UNCHANGED <<startVars, request, gameServerMap, answering, isConnected, accepted,
                 connectedAtClient, threadVars>>

(* OnClientLeave, and OnGameServerDisconnected.                            *)
OnClientLeave(s) ==
  /\ link[s] = "broken" /\ s \notin answering
  /\ link' = [link EXCEPT ![s] = "left"]
  /\ request' = request \ {s}
  /\ gameServerMap' = [gameServerMap EXCEPT ![s] = NoId]
  /\ UNCHANGED <<startVars, answering, isConnected, accepted, reply, connectedAtClient, threadVars>>

-----------------------------------------------------------------------------
(* AuthDBThreadManager.  Nothing in the repository calls it yet: any       *)
(* thread of the running server starts it, inserts jobs and stops it.      *)

StartThreads ==
  /\ main = "running" /\ ~isStarted
  /\ isStarted' = TRUE
  /\ worker' = [w \in Workers |-> "waiting"]
  /\ UNCHANGED <<startVars, registryVars, stopEvent, stopping, dbJobList>>

InsertDBJob ==
  /\ isStarted /\ dbJobList < MaxJobs
  /\ dbJobList' = dbJobList + 1
  /\ UNCHANGED <<startVars, registryVars, isStarted, worker, stopEvent, stopping>>

StopThreads ==
  /\ isStarted /\ ~stopping /\ stopEvent = "unset"
  /\ stopping' = TRUE
  /\ stopEvent' = "set"
  /\ UNCHANGED <<startVars, registryVars, isStarted, worker, dbJobList>>

(* The event is reset by the one thread it wakes.                          *)
WakeToStop(w) ==
  /\ worker[w] = "waiting" /\ stopEvent = "set"
  /\ worker' = [worker EXCEPT ![w] = "stopping"]
  /\ stopEvent' = "unset"
  /\ UNCHANGED <<startVars, registryVars, isStarted, stopping, dbJobList>>

PassStopOnWithoutSetEvent(w) ==
  /\ worker[w] = "stopping"
  /\ worker' = [worker EXCEPT ![w] = "ended"]
  /\ UNCHANGED <<startVars, registryVars, isStarted, stopEvent, stopping, dbJobList>>

PassStopOn(w) ==
  /\ worker[w] = "stopping"
  /\ worker' = [worker EXCEPT ![w] = "ended"]
  /\ stopEvent' = "set"
  /\ UNCHANGED <<startVars, registryVars, isStarted, stopping, dbJobList>>

FinishStopThreads ==
  /\ stopping /\ \A w \in Workers : worker[w] = "ended"
  /\ stopping' = FALSE
  /\ stopEvent' = "closed"
  /\ UNCHANGED <<startVars, registryVars, isStarted, worker, dbJobList>>

-----------------------------------------------------------------------------
Next ==
  \/ MainConnectDB \/ StartAuthServer \/ StartLanServer \/ StartNetServer \/ Cleanup
  \/ \E s \in Sessions :
       \/ OnConnectionComplete(s) \/ RegisterAgain(s) \/ SendPacketToLanClient(s)
       \/ OnRecv(s) \/ ConnectionLost(s) \/ OnClientLeave(s)
       \/ \E id \in ServerIds : GameServerRegisterRequest(s, id)
  \/ StartThreads \/ InsertDBJob \/ StopThreads \/ FinishStopThreads
  \/ \E w \in Workers : WakeToStop(w) \/ PassStopOn(w)

Spec == Init /\ [][Next]_vars

(* The threads of AuthDBThreadManager run, and so does who stops them.     *)
FairSpec ==
  /\ Spec
  /\ WF_vars(FinishStopThreads)
  /\ \A w \in Workers : WF_vars(WakeToStop(w)) /\ WF_vars(PassStopOn(w))

-----------------------------------------------------------------------------
(* Properties.                                                             *)

(* No two sessions are registered with one id, and a session is registered *)
(* if and only if one of its requests was answered yes and it has not left:*)
(* whatever the order in which a server that lost its connection leaves    *)
(* and comes again, and however often it asks.                             *)
(* AuthServer::GameServerRegisterRequest, OnGameServerDisconnected.        *)
RegistrationsTrue ==
  \A s \in Sessions :
    /\ Registered(s) <=> s \in accepted /\ link[s] # "left"
    /\ \A t \in Sessions \ {s} : Registered(s) => gameServerMap[t] # gameServerMap[s]

(* StopThreads reaches every worker and returns, though its event wakes    *)
(* one only.  AuthDBThreadManager::Worker, StopThreads.                    *)
StopReachesWorkers == stopping ~> ~stopping
=============================================================================
