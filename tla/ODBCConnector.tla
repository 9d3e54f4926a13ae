------------------------------ MODULE ODBCConnector ------------------------------
(***************************************************************************)
(* ODBCConnector of DBServer, from main's first call to its last: the      *)
(* default connection and the pool are opened, the catalog of stored       *)
(* procedures is read from the database over the default connection        *)
(* (ODBCMetaData), handlers call procedures over pooled connections, and   *)
(* all connections are closed.                                             *)
(*                                                                         *)
(* Main is alone until it serves.  Any ODBC call may fail, and what main   *)
(* and the handlers then do is the model's control.  Connection 0 is the   *)
(* default one.  Procedures are numbers, in the order of std::set.  The    *)
(* handlers are those that DBServer's dispatch leaves to be filled in:     *)
(* they take a connection, call a procedure, fetch its result if it has    *)
(* one, and give the connection back.                                      *)
(***************************************************************************)
EXTENDS Naturals, Sequences

CONSTANTS
  PoolSize,      \* connectionPoolSize, or 1 for 0
  NumProcedures,
  Parameters,    \* [procedure -> sequence of TRUE (GetDefaultValue knows the type) or FALSE]
  HasResult,     \* the procedures that answer with a result set
  Handlers,
  NoConnection

Procedures == 1..NumProcedures
Connections == 0..PoolSize
Garbage == PoolSize + 1   \* a copy of handles that are none

ASSUME ConnectorAssumption ==
  /\ PoolSize \in Nat \ {0} /\ NumProcedures \in Nat
  /\ Parameters \in [Procedures -> Seq(BOOLEAN)]
  /\ HasResult \subseteq Procedures
  /\ NoConnection \notin Connections \cup {Garbage}

VARIABLES
  main,          \* what main does next: see MainSteps
  dbc, stmt,     \* handles: "none", "allocated", "connected"; "none", "allocated"
  pool,          \* connectionList
  cursor,        \* statements whose cursor is open
  names,         \* procedureNameList, those still to be handled; empty outside InitDB
  boundParams,   \* how many parameters are bound to the default statement
  catalog,       \* procedureInfoMap; NoCatalog while metaData is null
  pending,       \* procedures called in the default connection's open transaction
  applied,       \* history: pending calls that were committed
  keptOpen,      \* history: SQLEndTran failed to roll back
  held,          \* the connection of each handler
  toFetch,       \* the handlers whose procedure has answered with a result set
  unfetched,     \* history: statements whose result a handler did not get
  refused        \* history: statements called while their cursor was open

connVars    == <<dbc, stmt, pool>>
catalogVars == <<names, boundParams, catalog, pending, applied, keptOpen>>
serveVars   == <<held, toFetch, unfetched>>
vars == <<main, connVars, cursor, catalogVars, serveVars, refused>>

NoCatalog == {0}
MainSteps == {"migrate", "connect", "names", "manual", "input", "execute", "output",
              "serve", "disconnect", "exited", "crashed"}

Init ==
  /\ main = "migrate"
  /\ dbc = [c \in Connections |-> "none"] /\ stmt = [c \in Connections |-> "none"]
  /\ pool = <<>>
  /\ cursor = {}
  /\ names = {} /\ boundParams = 0 /\ catalog = NoCatalog
  /\ pending = {} /\ applied = {} /\ keptOpen = FALSE
  /\ held = [h \in Handlers |-> NoConnection]
  /\ toFetch = {} /\ unfetched = {} /\ refused = {}

-----------------------------------------------------------------------------
(* main, up to the catalog.                                                *)

TryDBMigration ==
  /\ main = "migrate"
  /\ main' \in {"connect", "exited"}
  /\ UNCHANGED <<connVars, cursor, catalogVars, serveVars, refused>>

(* Connections below n are opened, and connection n fails with its dbc     *)
(* handle in that state: options or environment wrong or no dbc handle     *)
(* ("none"), SQLDriverConnect failed ("allocated"), no statement handle    *)
(* ("connected").  Nothing is undone, and the server runs nevertheless.    *)
ConnectDB ==
  /\ main = "connect"
  /\ \E n \in 0..PoolSize + 1, failedDbc \in {"none", "allocated", "connected"} :
       /\ dbc' = [c \in Connections |-> IF c < n THEN "connected"
                                        ELSE IF c = n THEN failedDbc ELSE "none"]
       /\ stmt' = [c \in Connections |-> IF c < n THEN "allocated" ELSE "none"]
       /\ pool' = IF n = 0 THEN <<>> ELSE [i \in 1..n - 1 |-> i]
       /\ main' = IF n > PoolSize THEN "names" ELSE "serve"
  /\ UNCHANGED <<cursor, catalogVars, serveVars, refused>>

(* A statement whose cursor is open refuses the next call.                 *)
CallOn(c) == refused' = IF c \in cursor THEN refused \cup {c} ELSE refused

(* InitDB fails: everything stays as it is, and the server runs.           *)
InitDBFails == main' = "serve" /\ names' = {}

(* The rows end with SQL_NO_DATA or with an error: nobody looks.           *)
GetProcedureNameFromDB ==
  /\ main = "names"
  /\ CallOn(0)
  /\ catalog' = {}
  /\ \/ /\ main' = "manual" /\ names' \in SUBSET Procedures
        /\ cursor' = cursor \ {0}
     \/ InitDBFails /\ cursor' \in {cursor, cursor \cup {0}}
  /\ UNCHANGED <<connVars, boundParams, pending, applied, keptOpen, serveVars>>

-----------------------------------------------------------------------------
(* MakeProcedureColumnInfoFromDB.                                          *)

SetAutocommitOff ==
  /\ main = "manual"
  /\ \/ main' = "input" /\ UNCHANGED names
     \/ InitDBFails
  /\ UNCHANGED <<connVars, cursor, boundParams, catalog, pending, applied, keptOpen, serveVars,
                 refused>>

Current == CHOOSE p \in names : \A q \in names : p <= q

MakeInputColumnToProcedureInfo ==
  /\ main = "input" /\ names # {}
  /\ CallOn(0)
  /\ \/ main' = "execute" /\ cursor' = cursor \ {0} /\ UNCHANGED names
     \/ InitDBFails /\ cursor' \in {cursor, cursor \cup {0}}
  /\ UNCHANGED <<connVars, boundParams, catalog, pending, applied, keptOpen, serveVars>>

(* Parameters are bound up to the first of a type that has no default, or  *)
(* the first that SQLBindParameter refuses; those bound for an earlier     *)
(* procedure stay bound.                                                   *)
SettingDefaultSPMaker(p) ==
  \E n \in 0..Len(Parameters[p]) :
    /\ \A i \in 1..n : Parameters[p][i]
    /\ boundParams' = IF n > boundParams THEN n ELSE boundParams

(* SQLPrepare and SQLExecute.  An execution that fails may have had        *)
(* effects already; with a parameter that is not bound it always fails.    *)
ExecuteProcedure ==
  /\ main = "execute"
  /\ SettingDefaultSPMaker(Current)
  /\ CallOn(0)
  /\ \/ /\ boundParams' >= Len(Parameters[Current])
        /\ main' = "output" /\ UNCHANGED names
        /\ pending' = pending \cup {Current}
        /\ cursor' = IF Current \in HasResult THEN cursor \cup {0} ELSE cursor
     \/ /\ InitDBFails /\ UNCHANGED cursor
        /\ pending' \in {pending, pending \cup {Current}}
  /\ UNCHANGED <<connVars, catalog, applied, keptOpen, serveVars>>

(* The result of SQLEndTran is not looked at.                              *)
RollbackWithoutEndTran == UNCHANGED <<pending, keptOpen>>
Rollback ==
  \/ pending' = {} /\ UNCHANGED keptOpen
  \/ keptOpen' = TRUE /\ UNCHANGED pending

MakeOutputColumnToProcedureInfo ==
  /\ main = "output"
  /\ \/ /\ main' = "input" /\ names' = names \ {Current}
        /\ cursor' = cursor \ {0}
        /\ Rollback
        /\ catalog' = catalog \cup {Current}
     \/ InitDBFails /\ UNCHANGED <<cursor, pending, keptOpen, catalog>>
  /\ UNCHANGED <<connVars, boundParams, applied, serveVars, refused>>

(* Setting autocommit on commits the transaction that is open.             *)
SetAutocommitOn ==
  /\ main = "input" /\ names = {}
  /\ main' = "serve"
  /\ \/ applied' = applied \cup pending /\ pending' = {}
     \/ UNCHANGED <<applied, pending>>
  /\ UNCHANGED <<connVars, cursor, names, boundParams, catalog, keptOpen, serveVars, refused>>

-----------------------------------------------------------------------------
(* Handlers.                                                               *)

(* The node is popped, then copied: the copy may be garbage, and the       *)
(* connection that was in the node is lost then.                           *)
GetConnection(h) ==
  /\ main = "serve" /\ held[h] = NoConnection /\ pool # <<>>
  /\ \E copied \in {Head(pool), Garbage} : held' = [held EXCEPT ![h] = copied]
  /\ pool' = Tail(pool)
  /\ UNCHANGED <<main, dbc, stmt, cursor, catalogVars, toFetch, unfetched, refused>>

GetProcedureInfo(p) == p \in catalog

(* CallStoredProcedure, CallSPDirect and CallSPDirectWithSPObject, which   *)
(* differ in how they bind and send.  Without a catalog, or with garbage   *)
(* for a statement, the process may crash.  The call is not made if the    *)
(* catalog has no such procedure or a parameter is not bound.  One that is *)
(* made fails or opens the cursor of its result.  CallStoredProcedure      *)
(* (DBSendQuery) takes SQL_SUCCESS_WITH_INFO for a failure: its caller     *)
(* leaves the result where it is.                                          *)
CallSP(h, p) ==
  LET c == held[h] IN
  /\ main = "serve" /\ c # NoConnection /\ h \notin toFetch
  /\ \/ /\ catalog = NoCatalog \/ (c = Garbage /\ GetProcedureInfo(p))
        /\ main' = "crashed"
        /\ UNCHANGED <<cursor, toFetch, unfetched, refused>>
     \/ /\ catalog # NoCatalog
        /\ UNCHANGED <<main, cursor, toFetch, unfetched, refused>>
     \/ /\ GetProcedureInfo(p) /\ c # Garbage
        /\ CallOn(c)
        /\ \/ UNCHANGED <<cursor, toFetch, unfetched>>
           \/ /\ c \notin cursor /\ p \in HasResult
              /\ cursor' = cursor \cup {c}
              /\ \/ toFetch' = toFetch \cup {h} /\ UNCHANGED unfetched
                 \/ unfetched' = unfetched \cup {c} /\ UNCHANGED toFetch
        /\ UNCHANGED main
  /\ UNCHANGED <<connVars, catalogVars, held>>

GetSPResultWithoutCloseCursor(h) ==
  /\ main = "serve" /\ h \in toFetch
  /\ toFetch' = toFetch \ {h}
  /\ \/ UNCHANGED unfetched
     \/ unfetched' = unfetched \cup {held[h]}
  /\ UNCHANGED <<main, connVars, cursor, catalogVars, held, refused>>

(* SQLGetData fails: no result, and the cursor stays open.                 *)
GetSPResult(h) ==
  /\ main = "serve" /\ h \in toFetch
  /\ toFetch' = toFetch \ {h}
  /\ \/ cursor' = cursor \ {held[h]} /\ UNCHANGED unfetched
     \/ unfetched' = unfetched \cup {held[h]} /\ UNCHANGED cursor
  /\ UNCHANGED <<main, connVars, catalogVars, held, refused>>

FreeConnection(h) ==
  /\ main = "serve" /\ held[h] # NoConnection /\ h \notin toFetch
  /\ pool' = Append(pool, held[h])
  /\ held' = [held EXCEPT ![h] = NoConnection]
  /\ UNCHANGED <<main, dbc, stmt, cursor, catalogVars, toFetch, unfetched, refused>>

-----------------------------------------------------------------------------
(* The end: DBServer has stopped, and its handlers with it.                *)

StopServer ==
  /\ main = "serve" /\ \A h \in Handlers : held[h] = NoConnection
  /\ main' = "disconnect"
  /\ UNCHANGED <<connVars, cursor, catalogVars, serveVars, refused>>

Closed(handles, closed) == [c \in Connections |-> IF c \in closed THEN "none" ELSE handles[c]]

(* Cleanup pops the list it iterates over: the next iterator is read from  *)
(* a node that is freed.  It may go well or crash at any node but none.    *)
(* A connection with an open transaction is not disconnected.              *)
DisconnectDB ==
  /\ main = "disconnect"
  /\ \/ LET all == {pool[i] : i \in DOMAIN pool}
            default == IF stmt[0] = "none" THEN {} ELSE {0}
        IN /\ main' = "exited" /\ pool' = <<>>
           /\ stmt' = Closed(stmt, all \cup default)
           /\ dbc' = Closed(dbc, all \cup IF pending = {} THEN default ELSE {})
     \/ \E n \in 1..Len(pool) :
          /\ main' = "crashed" /\ pool' = SubSeq(pool, n + 1, Len(pool))
          /\ stmt' = Closed(stmt, {pool[i] : i \in 1..n})
          /\ dbc' = Closed(dbc, {pool[i] : i \in 1..n})
  /\ UNCHANGED <<cursor, catalogVars, serveVars, refused>>

Next ==
  \/ TryDBMigration \/ ConnectDB
  \/ GetProcedureNameFromDB \/ SetAutocommitOff \/ MakeInputColumnToProcedureInfo
  \/ ExecuteProcedure \/ MakeOutputColumnToProcedureInfo \/ SetAutocommitOn
  \/ \E h \in Handlers :
       \/ GetConnection(h) \/ GetSPResult(h) \/ FreeConnection(h)
       \/ \E p \in Procedures : CallSP(h, p)
  \/ StopServer \/ DisconnectDB

Spec == Init /\ [][Next]_vars

-----------------------------------------------------------------------------
(* Properties.                                                             *)

(* Reading the catalog calls every procedure, and what it did is never     *)
(* committed, unless the database failed to roll it back: then nobody      *)
(* notices, and setting autocommit on again commits it.                    *)
(* ODBCMetaData::MakeProcedureColumnInfoFromDB.                            *)
CatalogCallsRolledBack == ~keptOpen => applied = {}

(* A statement is called over the open cursor of an earlier call only if   *)
(* the earlier caller could not fetch its result: GetSPResult failed, or   *)
(* CallStoredProcedure said that the call had failed when it had not.      *)
(* Such a connection refuses the procedures of every later handler; no     *)
(* other does, nor does the default one while the catalog is read.         *)
(* ODBCConnector::GetSPResult, ODBCMetaData.                               *)
CursorsClosedForNextCall == refused \subseteq unfetched
=============================================================================
