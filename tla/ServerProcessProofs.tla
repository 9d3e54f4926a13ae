--------------------------- MODULE ServerProcessProofs ---------------------------
(***************************************************************************)
(* Proofs of ServerProcess: the accepter finds the workers' queues.        *)
(***************************************************************************)
EXTENDS ServerProcess, TLAPS

TypeInv ==
  /\ workerOnList \in [Workers -> BOOLEAN]
  /\ rioCQList \in [Workers -> {"none", "open", "invalid", "closed"}]
  /\ worker \in [Workers -> {"none", "starting", "created", "looping", "ended"}]

BeforeThreads == {"load", "options", "socket", "socketOptions", "rio", "threads"}

(* A worker reports itself when it has written its entry, the accepter     *)
(* starts when all have, and queues are closed when the server has stopped.*)
QueuesInv ==
  /\ main \in BeforeThreads =>
       accepter = "none" /\ \A w \in Workers : worker[w] = "none" /\ ~workerOnList[w]
  /\ main \in {"joining", "ending"} => serverStop
  /\ \A w \in Workers :
       /\ worker[w] \in {"created", "looping", "ended"} =>
            rioCQList[w] \in {"open", "invalid"} \/ serverStop
       /\ workerOnList[w] => worker[w] \in {"looping", "ended"}
  /\ accepter # "none" => \A w \in Workers : workerOnList[w]

Inv == TypeInv /\ QueuesInv

(* The invariant holds when main begins.                                   *)
LEMMA InitInv == Init => Inv
BY DEF Init, Inv, TypeInv, QueuesInv, BeforeThreads

(* Every step preserves it.                                                *)
LEMMA NextInv ==
  ASSUME Inv, [Next]_vars
  PROVE  Inv'
<1> USE DEF Inv, TypeInv, QueuesInv, BeforeThreads, mainVars, threadVars, Alive
<1>1. CASE LoadAllDataScript
  BY <1>1 DEF LoadAllDataScript
<1>2. CASE ServerOptionParsing
  BY <1>2 DEF ServerOptionParsing
<1>3. CASE OpenListenSocket
  BY <1>3 DEF OpenListenSocket
<1>4. CASE SetSocketOption
  BY <1>4 DEF SetSocketOption
<1>5. CASE InitializeRIO
  BY <1>5 DEF InitializeRIO
<1>6. CASE StartWorkers
  BY <1>6 DEF StartWorkers
<1>7. CASE StartAccepter
  BY <1>7 DEF StartAccepter
<1>8. ASSUME NEW w \in Workers, CreateCompletionQueue(w) PROVE Inv'
  BY <1>8 DEF CreateCompletionQueue
<1>9. ASSUME NEW w \in Workers, WorkerOn(w) PROVE Inv'
  BY <1>9 DEF WorkerOn
<1>10. ASSUME NEW w \in Workers, DequeueFromInvalidQueue(w) PROVE Inv'
  BY <1>10 DEF DequeueFromInvalidQueue
<1>11. ASSUME NEW w \in Workers, Leave(w) PROVE Inv'
  BY <1>11 DEF Leave
<1>12. CASE Accept
  BY <1>12 DEF Accept
<1>13. CASE MakeNewSession
  BY <1>13 DEF MakeNewSession
<1>14. CASE AcceptInterrupted
  BY <1>14 DEF AcceptInterrupted
<1>15. CASE StopServer
  BY <1>15 DEF StopServer
<1>16. CASE CloseCompletionQueues
  BY <1>16 DEF CloseCompletionQueues
<1>17. CASE StopServerAgain
  BY <1>17 DEF StopServerAgain
<1>18. CASE UNCHANGED vars
  BY <1>18 DEF vars
<1> QED
  BY <1>1, <1>2, <1>3, <1>4, <1>5, <1>6, <1>7, <1>8, <1>9,
     <1>10, <1>11, <1>12, <1>13, <1>14, <1>15, <1>16, <1>17, <1>18
  DEF Next

(* Until the server stops, the accepter uses the entries of rioCQList that *)
(* their workers have written, for any number of workers.                  *)
THEOREM AccepterFindsQueuesCorrect == Spec => []AccepterFindsQueues
<1>1. Inv => AccepterFindsQueues
  BY DEF Inv, TypeInv, QueuesInv, AccepterFindsQueues
<1> QED
  BY InitInv, NextInv, <1>1, PTL DEF Spec
=============================================================================
