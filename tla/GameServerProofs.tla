---------------------------- MODULE GameServerProofs -----------------------------
(***************************************************************************)
(* Proofs of GameServer: players, and the keys of batches.                 *)
(***************************************************************************)
EXTENDS GameServer, TLAPS

PlayersType ==
  /\ session \in [Sessions -> {"new", "open", "shutdown", "over"}]
  /\ pcId \in [Sessions -> PCIds \cup {NoPC}]
  /\ entry \in [Sessions -> Entries]
  /\ sessionIdToPCMap \subseteq Sessions
  /\ pcIdToPCMap \in [PCIds -> Sessions \cup {NoSession}]

(* What the entries of the two maps and the calls at work say of a player. *)
EntriesInv ==
  /\ \A s \in Sessions :
       /\ session[s] = "new" => entry[s] = "none"
       /\ entry[s] # "none" => pcId[s] \in PCIds
       /\ s \in sessionIdToPCMap => entry[s] \in {"inserting", "inserted"}
       /\ <<"id", s>> \in erasing => session[s] = "over" /\ entry[s] # "none"
       /\ <<"session", s>> \in erasing =>
            entry[s] = "inserted" /\ pcIdToPCMap[pcId[s]] # s
  /\ \A id \in PCIds, s \in Sessions :
       pcIdToPCMap[id] = s => pcId[s] = id /\ entry[s] = "inserted"

(* A session that stayed until InsertPC returned has both its entries, or  *)
(* somebody is taking out the one that is left.                            *)
StayedInv ==
  \A s \in Sessions \ early :
    /\ session[s] = "over" => entry[s] = "inserted" /\ s \notin sessionIdToPCMap
    /\ entry[s] = "inserting" => s \in sessionIdToPCMap
    /\ \A id \in PCIds :
         pcIdToPCMap[id] = s => s \in sessionIdToPCMap \/ <<"id", s>> \in erasing

PlayersInv == PlayersType /\ EntriesInv /\ StayedInv /\ PlayersFoundById

(* Keys grow, and every key given out is below the next one.               *)
KeysInv ==
  /\ jobKey \in Nat \ {0}
  /\ ownKey \in [Batches -> Nat]
  /\ \A b \in Batches : ownKey[b] < jobKey /\ ownKey[b] \notin DOMAIN jobMap
  /\ \A k \in DOMAIN jobMap : k \in Nat /\ k < jobKey
  /\ \A b, c \in Batches : b # c /\ ownKey[b] # TempDBJobKey => ownKey[c] # ownKey[b]

Inv == PlayersInv /\ KeysInv

(* The invariant holds when the server starts.                             *)
LEMMA InitInv == Init => Inv
<1> SUFFICES ASSUME Init PROVE Inv
  OBVIOUS
<1> USE DEF Init, PlayersInit, JobsInit
<1>1. PlayersInv
  BY PlayersAssumption DEF PlayersInv, PlayersType, EntriesInv, StayedInv, PlayersFoundById,
    Playing, Entries
<1>2. KeysInv
  BY DEF KeysInv, TempDBJobKey
<1> QED
  BY <1>1, <1>2 DEF Inv

-----------------------------------------------------------------------------
(* Players.                                                                *)

(* What comes before a player's entries.                                   *)
LEMMA LoadingStep ==
  ASSUME PlayersInv, NEW s \in Sessions,
         \/ Connect(s) \/ InsertBySession(s) \/ \E id \in PCIds : LoadFromDB(s, id)
  PROVE  PlayersInv'
<1> USE DEF PlayersInv, Entries
<1>1. CASE Connect(s)
  <2> USE <1>1 DEF Connect
  <2>1. PlayersType' /\ EntriesInv'
    BY DEF PlayersType, EntriesInv
  <2>2. StayedInv'
    BY DEF PlayersType, StayedInv
  <2>3. PlayersFoundById'
    BY DEF PlayersType, EntriesInv, PlayersFoundById, Playing
  <2> QED
    BY <2>1, <2>2, <2>3
<1>2. CASE InsertBySession(s)
  BY <1>2 DEF InsertBySession, PlayersType, EntriesInv, StayedInv, PlayersFoundById, Playing
<1>3. ASSUME NEW id \in PCIds, LoadFromDB(s, id) PROVE PlayersInv'
  BY <1>3 DEF LoadFromDB, PlayersType, EntriesInv, StayedInv, PlayersFoundById, Playing
<1> QED
  BY <1>1, <1>2, <1>3

(* A refused duplicate is not connected any more.                          *)
LEMMA RefuseStep ==
  ASSUME PlayersInv, NEW s \in Sessions, RefuseDuplicate(s)
  PROVE  PlayersInv'
<1> USE DEF PlayersInv, Entries
<1>1. /\ session' \in [Sessions -> {"new", "open", "shutdown", "over"}]
      /\ \A t \in Sessions : session'[t] = session[t] \/ (session[t] = "open" /\ session'[t] = "shutdown")
      /\ session'[s] # "open"
  BY DEF RefuseDuplicate, Disconnected, PlayersType
<1>2. /\ entry' = [entry EXCEPT ![s] = "inserted"] /\ entry[s] = "inserting"
      /\ UNCHANGED <<pcId, sessionIdToPCMap, pcIdToPCMap, erasing, robbed, early>>
  BY DEF RefuseDuplicate
<1>3. PlayersType'
  BY <1>1, <1>2 DEF PlayersType
<1>4. EntriesInv'
  BY <1>1, <1>2 DEF PlayersType, EntriesInv
<1>5. StayedInv'
  BY <1>1, <1>2 DEF PlayersType, EntriesInv, StayedInv
<1>6. PlayersFoundById'
  BY <1>1, <1>2 DEF PlayersType, PlayersFoundById, Playing
<1> QED
  BY <1>3, <1>4, <1>5, <1>6

(* The id was free.                                                        *)
LEMMA InsertByIdStep ==
  ASSUME PlayersInv, NEW s \in Sessions, InsertById(s)
  PROVE  PlayersInv'
<1> USE DEF PlayersInv, Entries, InsertById
<1>1. pcId[s] \in PCIds
  BY DEF EntriesInv
<1>2. PlayersType'
  BY <1>1 DEF PlayersType
<1>3. EntriesInv'
  BY <1>1, PlayersAssumption DEF PlayersType, EntriesInv
<1>4. StayedInv'
  BY <1>1 DEF PlayersType, EntriesInv, StayedInv
<1>5. PlayersFoundById'
  BY <1>1, PlayersAssumption DEF PlayersType, PlayersFoundById, Playing
<1> QED
  BY <1>2, <1>3, <1>4, <1>5

(* A session is over; its entry by id goes next.                           *)
LEMMA LeaveStep ==
  ASSUME PlayersInv, NEW s \in Sessions, Leave(s)
  PROVE  PlayersInv'
<1> USE DEF PlayersInv, Entries, Leave
<1>1. \A kind, t : <<kind, t>> \in erasing' => <<kind, t>> \in erasing \/ (kind = "id" /\ t = s)
  OBVIOUS
<1>2. erasing \subseteq erasing'
  OBVIOUS
<1>3. PlayersType' /\ EntriesInv'
  BY <1>1 DEF PlayersType, EntriesInv
<1>4. StayedInv'
  <2> SUFFICES ASSUME NEW t \in Sessions \ early' PROVE StayedInv!(t)'
    BY DEF StayedInv
  <2>1. CASE t = s
    <3>1. entry[s] = "inserted" /\ s \notin early
      BY <2>1
    <3>2. s \in sessionIdToPCMap => <<"id", s>> \in erasing'
      OBVIOUS
    <3> QED
      BY <1>2, <2>1, <3>1, <3>2 DEF PlayersType, StayedInv
  <2>2. CASE t # s
    BY <1>2, <2>2 DEF PlayersType, StayedInv
  <2> QED
    BY <2>1, <2>2
<1>5. PlayersFoundById'
  BY <1>2 DEF PlayersType, PlayersFoundById, Playing
<1> QED
  BY <1>3, <1>4, <1>5

(* Whoever loses its entry by id was leaving, or was robbed of it.         *)
LEMMA EraseIdStep ==
  ASSUME PlayersInv, NEW s \in Sessions, EraseId(s)
  PROVE  PlayersInv'
<1> USE DEF PlayersInv, Entries, EraseId
<1>1. pcId[s] \in PCIds /\ session[s] = "over"
  BY DEF EntriesInv
<1>2. PlayersType'
  BY DEF PlayersType
<1>3. EntriesInv'
  BY <1>1, PlayersAssumption DEF PlayersType, EntriesInv
<1>4. StayedInv'
  <2>1. \A t \in Sessions \ {s} : <<"id", t>> \in erasing' <=> <<"id", t>> \in erasing
    OBVIOUS
  <2>2. \A id \in PCIds : pcIdToPCMap'[id] # s
    BY <1>1, PlayersAssumption DEF PlayersType, EntriesInv
  <2>3. \A id \in PCIds, t \in Sessions : pcIdToPCMap'[id] = t => pcIdToPCMap[id] = t
    BY <1>1, PlayersAssumption DEF PlayersType
  <2> QED
    BY <2>1, <2>2, <2>3 DEF StayedInv
<1>5. PlayersFoundById'
  BY <1>1, PlayersAssumption DEF PlayersType, PlayersFoundById, Playing
<1> QED
  BY <1>2, <1>3, <1>4, <1>5

(* ErasePCByPCId, both its steps.                                          *)
LEMMA EraseByPCIdStep ==
  ASSUME PlayersInv,
         \/ \E id \in PCIds : ErasePCByPCId(id)
         \/ \E s \in Sessions : EraseSession(s)
  PROVE  PlayersInv'
<1> USE DEF PlayersInv, Entries
<1>1. ASSUME NEW id \in PCIds, ErasePCByPCId(id) PROVE PlayersInv'
  <2> DEFINE s == pcIdToPCMap[id]
  <2>1. /\ s \in Sessions /\ pcId[s] = id /\ entry[s] = "inserted"
        /\ pcIdToPCMap' = [pcIdToPCMap EXCEPT ![id] = NoSession]
        /\ erasing' = erasing \cup {<<"session", s>>}
        /\ UNCHANGED <<session, pcId, entry, sessionIdToPCMap, robbed, early>>
    BY <1>1 DEF ErasePCByPCId, PlayersType, EntriesInv
  <2> HIDE DEF s
  <2>2. PlayersType' /\ EntriesInv'
    BY <2>1, PlayersAssumption DEF PlayersType, EntriesInv
  <2>3. StayedInv'
    <3>1. \A t \in Sessions : <<"id", t>> \in erasing => <<"id", t>> \in erasing'
      BY <2>1
    <3>2. \A i \in PCIds, t \in Sessions : pcIdToPCMap'[i] = t => pcIdToPCMap[i] = t
      BY <2>1, PlayersAssumption DEF PlayersType
    <3> QED
      BY ZenonT(60), <2>1, <3>1, <3>2 DEF StayedInv
  <2>4. PlayersFoundById'
    BY <2>1, PlayersAssumption DEF PlayersType, EntriesInv, PlayersFoundById, Playing, s
  <2> QED
    BY <2>2, <2>3, <2>4
<1>2. ASSUME NEW s \in Sessions, EraseSession(s) PROVE PlayersInv'
  <2> USE <1>2 DEF EraseSession
  <2>1. PlayersType' /\ EntriesInv'
    BY DEF PlayersType, EntriesInv
  <2>2. StayedInv'
    <3>1. \A t \in Sessions : <<"id", t>> \in erasing => <<"id", t>> \in erasing'
      OBVIOUS
    <3>2. entry[s] = "inserted" /\ pcIdToPCMap[pcId[s]] # s
      BY DEF EntriesInv
    <3>3. \A id \in PCIds : pcIdToPCMap[id] = s => pcId[s] = id
      BY DEF EntriesInv
    <3> QED
      BY <3>1, <3>2, <3>3 DEF StayedInv
  <2>3. PlayersFoundById'
    <3>1. \A t \in Sessions \ {s} : <<"session", t>> \in erasing' <=> <<"session", t>> \in erasing
      OBVIOUS
    <3> QED
      BY <3>1 DEF PlayersFoundById, Playing
  <2> QED
    BY <2>1, <2>2, <2>3
<1> QED
  BY <1>1, <1>2

(* Players are changed by PlayersNext only.                                *)
LEMMA PlayersStep ==
  ASSUME Inv, [Next]_vars
  PROVE  PlayersInv'
<1> USE DEF Inv
<1>1. CASE PlayersNext
  BY <1>1, LoadingStep, RefuseStep, InsertByIdStep, LeaveStep, EraseIdStep, EraseByPCIdStep
     DEF PlayersNext
<1>2. CASE UNCHANGED playerVars
  BY <1>2 DEF playerVars, PlayersInv, PlayersType, EntriesInv, StayedInv, PlayersFoundById, Playing
<1> QED
  BY <1>1, <1>2 DEF Next, vars

-----------------------------------------------------------------------------
(* Keys are changed by these only.                                         *)
JobsStep ==
  \/ \E s \in Owners :
       \/ UpdateByPing(s) \/ CopyTop(s) \/ Fire(s) \/ FinishPing(s)
       \/ \E b \in Batches : MakeBatch(b, s)
  \/ \E b \in Batches :
       \/ RegisterDBJob(b) \/ AddDBJob(b)
       \/ \E begin, delay \in Times : DBJobLazyRunnerPush(b, begin, delay)
  \/ Tick \/ SendPacketToFixedChannel
  \/ \E packet \in ReplyHandlers, ok \in BOOLEAN : SPReplyHandle(packet, ok)
  \/ UNCHANGED jobVars

(* JobsStep covers every step of the composed system.                      *)
LEMMA NextJobsStep == [Next]_vars => JobsStep
BY DEF Next, vars, JobsStep, Ping

(* A batch's own key and the one it is registered under are both new.      *)
LEMMA KeysStep ==
  ASSUME KeysInv, JobsStep
  PROVE  KeysInv'
<1>1. ASSUME NEW b \in Batches, NEW s \in Owners, MakeBatch(b, s) PROVE KeysInv'
  BY <1>1 DEF MakeBatch, KeysInv, TempDBJobKey
<1>2. ASSUME NEW b \in Batches, RegisterDBJob(b) PROVE KeysInv'
  <2>1. /\ DOMAIN jobMap' = DOMAIN jobMap \cup {jobKey}
        /\ jobKey' = jobKey + 1 /\ ownKey' = ownKey
    BY <1>2 DEF RegisterDBJob
  <2> QED
    BY <2>1 DEF KeysInv
<1>3. CASE UNCHANGED <<jobKey, jobMap, ownKey>>
  BY <1>3 DEF KeysInv
<1> QED
  BY <1>1, <1>2, <1>3
  DEF JobsStep, UpdateByPing, CopyTop, Fire, FinishPing, AddDBJob, DBJobLazyRunnerPush, Tick,
      SendPacketToFixedChannel, SPReplyHandle, batchVars, jobVars

-----------------------------------------------------------------------------
(* The invariant of the game server.                                       *)
THEOREM InvCorrect == Spec => []Inv
<1>1. Inv /\ [Next]_vars => Inv'
  BY PlayersStep, NextJobsStep, KeysStep DEF Inv
<1> QED
  BY InitInv, <1>1, PTL DEF Spec

(* Whoever plays is found by PC id, for any number of sessions and PCs.    *)
THEOREM PlayersFoundByIdCorrect == Spec => []PlayersFoundById
<1>1. Inv => PlayersFoundById
  BY DEF Inv, PlayersInv
<1> QED
  BY InvCorrect, <1>1, PTL

(* A session that was inserted and is over is in no map.                   *)
THEOREM LeftNothingBehindCorrect == Spec => []LeftNothingBehind
<1>1. Inv => LeftNothingBehind
  BY DEF Inv, PlayersInv, StayedInv, LeftNothingBehind
<1> QED
  BY InvCorrect, <1>1, PTL

(* No batch has another's key, for any number of batches.                  *)
THEOREM KeysNeverSharedCorrect == Spec => []KeysNeverShared
<1>1. Inv => KeysNeverShared
  BY DEF Inv, KeysInv, KeysNeverShared
<1> QED
  BY InvCorrect, <1>1, PTL
=============================================================================
