------------------------------- MODULE PCManager -------------------------------
(***************************************************************************)
(* PCManager of GameServer: the players ("PCs") in the world, found by     *)
(* session and by PC id.  The two maps have a lock each, and InsertPC,     *)
(* ErasePCBySessionId and ErasePCByPCId hold one after the other: a call   *)
(* is two steps, and any other call may come between them.                 *)
(*                                                                         *)
(* Nothing in the repository calls these operations yet, so any thread     *)
(* may: a session loads its PC and enters once, it may be over at any      *)
(* moment, and then ErasePCBySessionId is called once for it.  A PC is its *)
(* session here, for InsertPC makes one PC for each.                       *)
(***************************************************************************)
EXTENDS Naturals, FiniteSets

CONSTANTS
  Sessions, PCIds,
  NoSession, NoPC

ASSUME PlayersAssumption == NoSession \notin Sessions /\ NoPC \notin PCIds

VARIABLES
  session,          \* RIOServer's side: "new", "open", "shutdown" (Disconnect), "over"
  pcId,             \* pcDBID
  entry,            \* how far the session's entry is: see Entries
  sessionIdToPCMap, \* the sessions that have an entry
  pcIdToPCMap,
  erasing,          \* calls whose second step is to come: <<"id", s>>, <<"session", s>>
  robbed,           \* history: entries of pcIdToPCMap erased by another session's call
  early             \* history: sessions that were over before InsertPC returned

playerVars == <<session, pcId, entry, sessionIdToPCMap, pcIdToPCMap, erasing, robbed, early>>

Entries == {"none", "loaded", "inserting", "inserted"}

PlayersInit ==
  /\ session = [s \in Sessions |-> "new"]
  /\ pcId = [s \in Sessions |-> NoPC]
  /\ entry = [s \in Sessions |-> "none"]
  /\ sessionIdToPCMap = {}
  /\ pcIdToPCMap = [id \in PCIds |-> NoSession]
  /\ erasing = {} /\ robbed = {} /\ early = {}

Connect(s) ==
  /\ session[s] = "new"
  /\ session' = [session EXCEPT ![s] = "open"]
  /\ UNCHANGED <<pcId, entry, sessionIdToPCMap, pcIdToPCMap, erasing, robbed, early>>

(* totalDBLoadCount and totalDBFinalizeLoadCount are 0: LoadFromDB runs    *)
(* through to OnFinalizeLoadFromDB.                                        *)
LoadFromDB(s, id) ==
  /\ session[s] # "new" /\ entry[s] = "none"
  /\ pcId' = [pcId EXCEPT ![s] = id]
  /\ entry' = [entry EXCEPT ![s] = "loaded"]
  /\ UNCHANGED <<session, sessionIdToPCMap, pcIdToPCMap, erasing, robbed, early>>

-----------------------------------------------------------------------------
(* InsertPC, called by OnDBLoadCompleted.                                  *)

InsertBySession(s) ==
  /\ entry[s] = "loaded"
  /\ entry' = [entry EXCEPT ![s] = "inserting"]
  /\ sessionIdToPCMap' = sessionIdToPCMap \cup {s}
  /\ UNCHANGED <<session, pcId, pcIdToPCMap, erasing, robbed, early>>

(* PC::Disconnect shuts the socket down if the session is registered.      *)
Disconnected(ended) ==
  [s \in Sessions |-> IF s \in ended /\ session[s] = "open" THEN "shutdown" ELSE session[s]]

(* The id is taken: both players must go, and the session's entry stays.   *)
RefuseDuplicateWithoutEndingBoth(s) ==
  /\ entry[s] = "inserting" /\ pcIdToPCMap[pcId[s]] # NoSession
  /\ session' = Disconnected({pcIdToPCMap[pcId[s]]})
  /\ entry' = [entry EXCEPT ![s] = "inserted"]
  /\ UNCHANGED <<pcId, sessionIdToPCMap, pcIdToPCMap, erasing, robbed, early>>

RefuseDuplicate(s) ==
  /\ entry[s] = "inserting" /\ pcIdToPCMap[pcId[s]] # NoSession
  /\ session' = Disconnected({s, pcIdToPCMap[pcId[s]]})
  /\ entry' = [entry EXCEPT ![s] = "inserted"]
  /\ UNCHANGED <<pcId, sessionIdToPCMap, pcIdToPCMap, erasing, robbed, early>>

InsertById(s) ==
  /\ entry[s] = "inserting" /\ pcIdToPCMap[pcId[s]] = NoSession
  /\ pcIdToPCMap' = [pcIdToPCMap EXCEPT ![pcId[s]] = s]
  /\ entry' = [entry EXCEPT ![s] = "inserted"]
  /\ UNCHANGED <<session, pcId, sessionIdToPCMap, erasing, robbed, early>>

-----------------------------------------------------------------------------
(* The session is over, and ErasePCBySessionId is called.                  *)
Leave(s) ==
  /\ session[s] \in {"open", "shutdown"}
  /\ session' = [session EXCEPT ![s] = "over"]
  /\ sessionIdToPCMap' = sessionIdToPCMap \ {s}
  /\ erasing' = IF s \in sessionIdToPCMap THEN erasing \cup {<<"id", s>>} ELSE erasing
  /\ early' = IF entry[s] = "inserted" THEN early ELSE early \cup {s}
  /\ UNCHANGED <<pcId, entry, pcIdToPCMap, robbed>>

EraseIdWithoutErase(s) ==
  /\ <<"id", s>> \in erasing
  /\ erasing' = erasing \ {<<"id", s>>}
  /\ UNCHANGED <<session, pcId, entry, sessionIdToPCMap, pcIdToPCMap, robbed, early>>

(* Whoever has the id by now loses its entry.                              *)
EraseId(s) ==
  /\ <<"id", s>> \in erasing
  /\ erasing' = erasing \ {<<"id", s>>}
  /\ pcIdToPCMap' = [pcIdToPCMap EXCEPT ![pcId[s]] = NoSession]
  /\ robbed' = robbed \cup ({pcIdToPCMap[pcId[s]]} \ {s, NoSession})
  /\ UNCHANGED <<session, pcId, entry, sessionIdToPCMap, early>>

ErasePCByPCId(id) ==
  /\ pcIdToPCMap[id] # NoSession
  /\ pcIdToPCMap' = [pcIdToPCMap EXCEPT ![id] = NoSession]
  /\ erasing' = erasing \cup {<<"session", pcIdToPCMap[id]>>}
  /\ UNCHANGED <<session, pcId, entry, sessionIdToPCMap, robbed, early>>

EraseSession(s) ==
  /\ <<"session", s>> \in erasing
  /\ erasing' = erasing \ {<<"session", s>>}
  /\ sessionIdToPCMap' = sessionIdToPCMap \ {s}
  /\ UNCHANGED <<session, pcId, entry, pcIdToPCMap, robbed, early>>

PlayersNext ==
  \/ \E s \in Sessions :
       \/ Connect(s) \/ \E id \in PCIds : LoadFromDB(s, id)
       \/ InsertBySession(s) \/ RefuseDuplicate(s) \/ InsertById(s)
       \/ Leave(s) \/ EraseId(s) \/ EraseSession(s)
  \/ \E id \in PCIds : ErasePCByPCId(id)

-----------------------------------------------------------------------------
(* Properties.                                                             *)

(* In the world: entered, connected, and nobody is taking the player out.  *)
Playing(s) ==
  /\ entry[s] = "inserted" /\ session[s] = "open" /\ s \in sessionIdToPCMap
  /\ <<"session", s>> \notin erasing

(* Whoever plays is found by PC id, and so no two sessions play one PC,    *)
(* unless another session's leaving took the entry away: that happens when *)
(* a refused duplicate leaves, whose id is somebody else's by then.        *)
(* PCManager::InsertPC, ErasePCBySessionId.                                *)
PlayersFoundById == \A s \in Sessions \ robbed : Playing(s) => pcIdToPCMap[pcId[s]] = s

(* A session that is over is in no map once no call is at work on it, so   *)
(* InsertPC never disconnects a session that has ceased to exist; the      *)
(* exception are sessions that were over before InsertPC returned, which   *)
(* nobody erases.  PCManager::ErasePCBySessionId, InsertPC.                *)
LeftNothingBehind ==
  \A s \in Sessions \ early :
    session[s] = "over" /\ <<"id", s>> \notin erasing =>
      s \notin sessionIdToPCMap /\ \A id \in PCIds : pcIdToPCMap[id] # s
=============================================================================
