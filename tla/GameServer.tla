------------------------------- MODULE GameServer -------------------------------
(***************************************************************************)
(* GameServer: players (PCManager) and their DB jobs (DBJobs).  A session  *)
(* owns batches; its pings find its player, whose lazy runners fire.       *)
(***************************************************************************)
EXTENDS PCManager, DBJobs

vars == <<playerVars, jobVars>>

CONSTANT MaxBusySessions  \* bound: sessions that connect once there is a batch

ASSUME OwnersAssumption == Owners \subseteq Sessions /\ MaxBusySessions \in Nat

Init == PlayersInit /\ JobsInit

(* HandlePacket(Ping): without a player, nothing happens.                  *)
Ping(s) ==
  /\ session[s] \in {"open", "shutdown"} /\ s \in sessionIdToPCMap
  /\ UpdateByPing(s)

WithinBound ==
  (\E b \in Batches : owner[b] # NoOwner) =>
    Cardinality({s \in Sessions : session[s] # "new"}) <= MaxBusySessions

Next ==
  \/ PlayersNext /\ UNCHANGED jobVars /\ WithinBound'
  \/ /\ \/ \E s \in Owners :
             \/ Ping(s) \/ CopyTop(s) \/ Fire(s) \/ FinishPing(s)
             \/ \E b \in Batches : session[s] = "open" /\ MakeBatch(b, s)
        \/ \E b \in Batches :
             \/ RegisterDBJob(b) \/ AddDBJob(b)
             \/ \E begin, delay \in Times : DBJobLazyRunnerPush(b, begin, delay)
        \/ Tick \/ SendPacketToFixedChannel
        \/ \E packet \in ReplyHandlers, ok \in BOOLEAN : SPReplyHandle(packet, ok)
     /\ UNCHANGED playerVars /\ WithinBound'

Spec == Init /\ [][Next]_vars
=============================================================================
