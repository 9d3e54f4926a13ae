------------------------------ MODULE ServerProcess ------------------------------
(***************************************************************************)
(* The process of a game server: main starts and stops RIOServer, whose    *)
(* worker threads and accepter run beside it.  What the threads do with    *)
(* sessions is RIOServer's module.                                         *)
(*                                                                         *)
(* The workers' calls of DeadlockChecker do nothing: its code is under     *)
(* USE_DEDALOCK_CHECKER, which BuildConfig.h defines, but                  *)
(* DeadlockChecker.cpp does not include BuildConfig.h.                     *)
(***************************************************************************)

CONSTANTS Workers

VARIABLES
  main,          \* see MainSteps
  hasThreads,    \* numOfWorkerThread is not 0
  listenSocket,  \* "none", "open", "closed"
  serverStop,
  worker,        \* "none", "starting", "created", "looping", "ended"
  workerOnList,
  rioCQList,     \* completion queues: "none", "open", "invalid", "closed"
  accepter       \* "none", "accepting", "making" (a session), "ended"

mainVars   == <<main, hasThreads, listenSocket, serverStop>>
threadVars == <<worker, workerOnList, rioCQList, accepter>>
vars       == <<mainVars, threadVars>>

MainSteps == {"load", "options", "socket", "socketOptions", "rio", "threads", "waiting",
              "running", "joining", "ending", "exited", "crashed"}

Init ==
  /\ main = "load" /\ hasThreads = FALSE /\ listenSocket = "none" /\ serverStop = FALSE
  /\ worker = [w \in Workers |-> "none"]
  /\ workerOnList = [w \in Workers |-> FALSE]
  /\ rioCQList = [w \in Workers |-> "none"]
  /\ accepter = "none"

Alive == main \notin {"exited", "crashed"}

-----------------------------------------------------------------------------
(* StartServer.  main ignores its result: where it fails, main goes on to  *)
(* "running" without threads.                                              *)

(* Without its data main returns; without its channels DBClient crashes.   *)
LoadAllDataScript ==
  /\ main = "load" /\ main' \in {"options", "exited", "crashed"}
  /\ UNCHANGED <<hasThreads, listenSocket, serverStop, threadVars>>

ServerOptionParsing ==
  /\ main = "options"
  /\ \/ main' = "socket" /\ hasThreads' = TRUE
     \/ main' = "running" /\ hasThreads' \in BOOLEAN
  /\ UNCHANGED <<listenSocket, serverStop, threadVars>>

OpenListenSocket ==
  /\ main = "socket"
  /\ \/ main' = "socketOptions" /\ listenSocket' = "open"
     \/ main' = "running" /\ listenSocket' \in {"none", "open"}
  /\ UNCHANGED <<hasThreads, serverStop, threadVars>>

SetSocketOption ==
  /\ main = "socketOptions" /\ main' \in {"rio", "running"}
  /\ UNCHANGED <<hasThreads, listenSocket, serverStop, threadVars>>

InitializeRIO ==
  /\ main = "rio" /\ main' \in {"threads", "running"}
  /\ UNCHANGED <<hasThreads, listenSocket, serverStop, threadVars>>

(* A thread that has not run yet is one that was not started yet.          *)
StartWorkers ==
  /\ main = "threads" /\ main' = "waiting"
  /\ worker' = [w \in Workers |-> "starting"]
  /\ UNCHANGED <<hasThreads, listenSocket, serverStop, workerOnList, rioCQList, accepter>>

StartAccepterWithoutWaiting ==
  /\ main = "waiting"
  /\ main' = "running" /\ accepter' = "accepting"
  /\ UNCHANGED <<hasThreads, listenSocket, serverStop, worker, workerOnList, rioCQList>>

StartAccepter ==
  /\ main = "waiting" /\ \A w \in Workers : workerOnList[w]
  /\ main' = "running" /\ accepter' = "accepting"
  /\ UNCHANGED <<hasThreads, listenSocket, serverStop, worker, workerOnList, rioCQList>>

-----------------------------------------------------------------------------
(* Worker.                                                                 *)

(* RIOCreateCompletionQueue may refuse; nobody looks at what it returned.  *)
CreateCompletionQueue(w) ==
  /\ Alive /\ worker[w] = "starting"
  /\ worker' = [worker EXCEPT ![w] = "created"]
  /\ \E queue \in {"open", "invalid"} : rioCQList' = [rioCQList EXCEPT ![w] = queue]
  /\ UNCHANGED <<mainVars, workerOnList, accepter>>

WorkerOn(w) ==
  /\ Alive /\ worker[w] = "created"
  /\ worker' = [worker EXCEPT ![w] = "looping"]
  /\ workerOnList' = [workerOnList EXCEPT ![w] = TRUE]
  /\ UNCHANGED <<mainVars, rioCQList, accepter>>

(* A pass of the loop over a queue that was refused: RIODequeueCompletion  *)
(* crashes, or RIO_CORRUPT_CQ is taken for the number of its results.      *)
DequeueFromInvalidQueue(w) ==
  /\ Alive /\ worker[w] = "looping" /\ ~serverStop /\ rioCQList[w] = "invalid"
  /\ main' = "crashed"
  /\ UNCHANGED <<hasThreads, listenSocket, serverStop, threadVars>>

Leave(w) ==
  /\ Alive /\ worker[w] = "looping" /\ serverStop
  /\ worker' = [worker EXCEPT ![w] = "ended"]
  /\ UNCHANGED <<mainVars, workerOnList, rioCQList, accepter>>

-----------------------------------------------------------------------------
(* Accepter.                                                               *)

Accept ==
  /\ Alive /\ accepter = "accepting" /\ listenSocket = "open"
  /\ accepter' = "making"
  /\ UNCHANGED <<mainVars, worker, workerOnList, rioCQList>>

(* A request queue on the completion queue of the worker with the fewest   *)
(* sessions is created, or not: it is not if that queue is invalid.        *)
MakeNewSession ==
  /\ Alive /\ accepter = "making"
  /\ accepter' = "accepting"
  /\ UNCHANGED <<mainVars, worker, workerOnList, rioCQList>>

(* An accept that was waiting fails with WSAEINTR.  One that comes later   *)
(* fails in another way, and is called again and again.                    *)
AcceptInterrupted ==
  /\ Alive /\ accepter = "accepting" /\ listenSocket = "closed"
  /\ accepter' = "ended"
  /\ UNCHANGED <<mainVars, worker, workerOnList, rioCQList>>

-----------------------------------------------------------------------------
(* StopServer, and the second StopServer of main.                          *)

StopServer ==
  /\ main = "running" /\ main' = "joining"
  /\ listenSocket' = "closed"
  /\ serverStop' = TRUE
  /\ UNCHANGED <<hasThreads, threadVars>>

(* The accepter is not waited for.  Where StartServer failed there are no  *)
(* queues to close, nor a function to close them with.                     *)
CloseCompletionQueues ==
  /\ main = "joining" /\ \A w \in Workers : worker[w] \in {"none", "ended"}
  /\ main' = IF hasThreads /\ \E w \in Workers : worker[w] = "none" THEN "crashed" ELSE "ending"
  /\ rioCQList' = [w \in Workers |-> IF rioCQList[w] = "none" THEN "none" ELSE "closed"]
  /\ UNCHANGED <<hasThreads, listenSocket, serverStop, worker, workerOnList, accepter>>

(* A thread that was joined cannot be joined again: the process ends.      *)
StopServerAgain ==
  /\ main = "ending"
  /\ main' = IF \E w \in Workers : worker[w] = "ended" THEN "crashed" ELSE "exited"
  /\ UNCHANGED <<hasThreads, listenSocket, serverStop, threadVars>>

-----------------------------------------------------------------------------
Next ==
  \/ LoadAllDataScript \/ ServerOptionParsing \/ OpenListenSocket \/ SetSocketOption
  \/ InitializeRIO \/ StartWorkers \/ StartAccepter
  \/ \E w \in Workers :
       \/ CreateCompletionQueue(w) \/ WorkerOn(w)
       \/ DequeueFromInvalidQueue(w) \/ Leave(w)
  \/ Accept \/ MakeNewSession \/ AcceptInterrupted
  \/ StopServer \/ CloseCompletionQueues \/ StopServerAgain

Spec == Init /\ [][Next]_vars

-----------------------------------------------------------------------------
(* Properties.                                                             *)

(* The accepter uses no entry of rioCQList before its worker has written   *)
(* it, until the server stops: then the queues are closed under it.  (An   *)
(* entry may be RIO_INVALID_CQ: its worker reports itself all the same.)   *)
(* RIOServer::RunThreads, Worker, Accepter, StopServer.                    *)
AccepterFindsQueues ==
  accepter = "making" => serverStop \/ \A w \in Workers : rioCQList[w] \in {"open", "invalid"}
=============================================================================
