---------------------------- MODULE AuthServerProofs -----------------------------
(***************************************************************************)
(* Proofs of AuthServer: the registrations of game servers.                *)
(***************************************************************************)
EXTENDS AuthServer, TLAPS

(* A session asks once it is connected, and is not accepted before.        *)
RegistryInv ==
  /\ link \in [Sessions -> {"new", "open", "broken", "left"}]
  /\ request \subseteq Sessions
  /\ accepted \subseteq Sessions
  /\ gameServerMap \in [Sessions -> ServerIds \cup {NoId}]
  /\ \A s \in request : link[s] # "new"

Inv == RegistryInv /\ RegistrationsTrue

(* The invariant holds when the server starts.                             *)
LEMMA InitInv == Init => Inv
BY AuthAssumption DEF Init, Inv, RegistryInv, RegistrationsTrue, Registered

-----------------------------------------------------------------------------
(* The handler registers its session where no session has the id, and does *)
(* so once.                                                                *)
LEMMA RegisterStep ==
  ASSUME Inv, NEW s \in Sessions, NEW id \in ServerIds, GameServerRegisterRequest(s, id)
  PROVE  Inv'
<1>1. link[s] # "left" /\ link' = link /\ request' = request \ {s} /\ id # NoId
  BY AuthAssumption DEF GameServerRegisterRequest
<1>2. CASE Taken(id)
  <2>1. gameServerMap' = gameServerMap /\ accepted' = accepted
    BY <1>2 DEF GameServerRegisterRequest
  <2> QED
    BY <1>1, <2>1 DEF Inv, RegistryInv, RegistrationsTrue, Registered
<1>3. CASE ~Taken(id) /\ Registered(s)
  <2>1. gameServerMap' = gameServerMap /\ accepted' = accepted \cup {s}
    BY <1>3 DEF GameServerRegisterRequest
  <2>2. s \in accepted
    BY <1>3 DEF Inv, RegistrationsTrue
  <2> QED
    BY <1>1, <2>1, <2>2 DEF Inv, RegistryInv, RegistrationsTrue, Registered
<1>4. CASE ~Taken(id) /\ ~Registered(s)
  <2>1. /\ gameServerMap' = [gameServerMap EXCEPT ![s] = id]
        /\ accepted' = accepted \cup {s}
    BY <1>4 DEF GameServerRegisterRequest
  <2>2. \A t \in Sessions : gameServerMap[t] # id
    BY <1>4 DEF Taken
  <2>3. RegistryInv'
    BY <1>1, <2>1 DEF Inv, RegistryInv
  <2>4. RegistrationsTrue'
    BY <1>1, <2>1, <2>2 DEF Inv, RegistryInv, RegistrationsTrue, Registered
  <2> QED
    BY <2>3, <2>4 DEF Inv
<1> QED
  BY <1>2, <1>3, <1>4

(* A session that leaves is no longer registered.                          *)
LEMMA LeaveStep ==
  ASSUME Inv, NEW s \in Sessions, OnClientLeave(s)
  PROVE  Inv'
<1>1. /\ link' = [link EXCEPT ![s] = "left"]
      /\ gameServerMap' = [gameServerMap EXCEPT ![s] = NoId]
      /\ request' = request \ {s} /\ accepted' = accepted
  BY DEF OnClientLeave
<1>2. RegistryInv'
  BY <1>1 DEF Inv, RegistryInv
<1>3. RegistrationsTrue'
  BY <1>1 DEF Inv, RegistryInv, RegistrationsTrue, Registered
<1> QED
  BY <1>2, <1>3 DEF Inv

(* The connection comes, asks and goes, and registers nobody.              *)
LEMMA LinkStep ==
  ASSUME Inv, NEW s \in Sessions,
         OnConnectionComplete(s) \/ RegisterAgain(s) \/ ConnectionLost(s)
  PROVE  Inv'
BY DEF Inv, RegistryInv, RegistrationsTrue, Registered, OnConnectionComplete, RegisterAgain,
     ConnectionLost

(* What leaves the connections and the map alone.                          *)
LEMMA FrameStep ==
  ASSUME Inv, UNCHANGED <<link, request, gameServerMap, accepted>>
  PROVE  Inv'
BY DEF Inv, RegistryInv, RegistrationsTrue, Registered

(* Inv is preserved.                                                       *)
LEMMA NextInv ==
  ASSUME Inv, [Next]_vars
  PROVE  Inv'
<1> USE DEF registryVars
<1>1. CASE MainConnectDB \/ StartAuthServer \/ StartLanServer \/ StartNetServer \/ Cleanup
  BY <1>1, FrameStep DEF MainConnectDB, StartAuthServer, ConnectDB, StartLanServer,
       StartNetServer, Cleanup
<1>2. CASE StartThreads \/ InsertDBJob \/ StopThreads \/ FinishStopThreads
  BY <1>2, FrameStep DEF StartThreads, InsertDBJob, StopThreads, FinishStopThreads
<1>3. CASE \E w \in Workers : WakeToStop(w) \/ PassStopOn(w)
  BY <1>3, FrameStep DEF WakeToStop, PassStopOn
<1>4. CASE \E s \in Sessions : SendPacketToLanClient(s) \/ OnRecv(s)
  BY <1>4, FrameStep DEF SendPacketToLanClient, OnRecv
<1>5. CASE UNCHANGED vars
  BY <1>5, FrameStep DEF vars
<1> QED
  BY <1>1, <1>2, <1>3, <1>4, <1>5, LinkStep, LeaveStep, RegisterStep DEF Next

-----------------------------------------------------------------------------
(* Registrations are true, for any number of sessions and ids and whatever *)
(* the order in which connections are lost, left and made again.           *)
THEOREM RegistrationsTrueCorrect == Spec => []RegistrationsTrue
<1>1. Inv => RegistrationsTrue
  BY DEF Inv
<1> QED
  BY InitInv, NextInv, <1>1, PTL DEF Spec
=============================================================================
