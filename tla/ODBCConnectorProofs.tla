--------------------------- MODULE ODBCConnectorProofs ---------------------------
(***************************************************************************)
(* Proofs of ODBCConnector: the calls that read the catalog are rolled     *)
(* back, and statements are called with their cursors closed.              *)
(***************************************************************************)
EXTENDS ODBCConnector, TLAPS

Pooled == 1..PoolSize
Ended == {"exited", "crashed"}

(* Each pooled connection is in the pool once or held by one handler, if   *)
(* it was not lost; only garbage may be there more than once.              *)
PoolInv ==
  main \notin Ended =>
    /\ pool \in Seq(Pooled \cup {Garbage})
    /\ held \in [Handlers -> Pooled \cup {Garbage, NoConnection}]
    /\ \A i, j \in 1..Len(pool) : pool[i] = pool[j] /\ pool[i] # Garbage => i = j
    /\ \A i \in 1..Len(pool), h \in Handlers : held[h] = pool[i] => pool[i] = Garbage
    /\ \A g, h \in Handlers : held[g] = held[h] /\ held[g] \in Pooled => g = h
    /\ main # "serve" => \A h \in Handlers : held[h] = NoConnection

(* Main opens the default cursor between a call and its result only, and   *)
(* a handler that of the connection it holds.                              *)
CursorInv ==
  main \notin Ended =>
    /\ toFetch \subseteq Handlers
    /\ \A h \in toFetch : held[h] \in Pooled
    /\ 0 \in cursor => main \in {"output", "serve", "disconnect"}
    /\ \A c \in cursor \ {0} : c \in unfetched \/ \E h \in toFetch : held[h] = c

(* Between two procedures nothing is pending.                              *)
CatalogInv ==
  ~keptOpen =>
    /\ applied = {}
    /\ main \in {"migrate", "connect", "names", "manual", "input", "execute"} => pending = {}

Inv == PoolInv /\ CursorInv /\ CatalogInv /\ CursorsClosedForNextCall

(* The invariant holds before ConnectDB.                                   *)
LEMMA InitInv == Init => Inv
BY ConnectorAssumption
DEF Init, Inv, PoolInv, CursorInv, CatalogInv, CursorsClosedForNextCall, Pooled, Connections,
    Garbage

-----------------------------------------------------------------------------
(* main, while it is alone.                                                *)

(* The pool is filled with connections, each once.                         *)
LEMMA ConnectStep ==
  ASSUME Inv, ConnectDB
  PROVE  Inv'
<1> USE DEF ConnectDB
<1>1. PICK n \in 0..PoolSize + 1 : pool' = IF n = 0 THEN <<>> ELSE [i \in 1..n - 1 |-> i]
  OBVIOUS
<1>2. /\ pool' \in Seq(Pooled \cup {Garbage})
      /\ \A i \in 1..Len(pool') : pool'[i] = i
  <2>1. CASE n = 0
    BY <1>1, <2>1
  <2>2. CASE n # 0
    <3>1. n - 1 \in Nat /\ pool' = [i \in 1..n - 1 |-> i] /\ \A i \in 1..n - 1 : i \in Pooled \cup {Garbage}
      BY <1>1, <2>2, ConnectorAssumption DEF Pooled
    <3> QED
      BY <3>1
  <2> QED
    BY <2>1, <2>2
<1>3. \A h \in Handlers : held[h] = NoConnection
  BY DEF Inv, PoolInv, Ended
<1>4. PoolInv'
  BY <1>2, <1>3, ConnectorAssumption DEF Inv, PoolInv, Ended, serveVars, Connections, Pooled
<1>5. CursorInv' /\ CatalogInv' /\ CursorsClosedForNextCall'
  BY DEF Inv, CursorInv, CatalogInv, CursorsClosedForNextCall, Ended, serveVars, catalogVars
<1> QED
  BY <1>4, <1>5 DEF Inv

CatalogStep ==
  \/ GetProcedureNameFromDB \/ SetAutocommitOff \/ MakeInputColumnToProcedureInfo
  \/ ExecuteProcedure \/ MakeOutputColumnToProcedureInfo \/ SetAutocommitOn

(* The catalog is read with the default connection's statement.            *)
LEMMA CatalogStepInv ==
  ASSUME Inv, CatalogStep
  PROVE  Inv'
<1> USE DEF CatalogStep, GetProcedureNameFromDB, SetAutocommitOff,
      MakeInputColumnToProcedureInfo, ExecuteProcedure, MakeOutputColumnToProcedureInfo,
      SetAutocommitOn, InitDBFails, connVars, serveVars
<1>1. PoolInv'
  BY DEF Inv, PoolInv, Ended
<1>2. CursorInv'
  BY DEF Inv, CursorInv, Ended
<1>3. CatalogInv'
  BY DEF Inv, CatalogInv, Rollback
<1>4. CursorsClosedForNextCall'
  BY DEF Inv, CursorInv, CursorsClosedForNextCall, CallOn, Ended
<1> QED
  BY <1>1, <1>2, <1>3, <1>4 DEF Inv

-----------------------------------------------------------------------------
(* Handlers.                                                               *)

(* A handler takes the first connection of the pool.                       *)
LEMMA GetStep ==
  ASSUME Inv, NEW h \in Handlers, GetConnection(h)
  PROVE  Inv'
<1> USE DEF GetConnection
<1>1. /\ pool \in Seq(Pooled \cup {Garbage}) /\ pool # <<>>
      /\ held \in [Handlers -> Pooled \cup {Garbage, NoConnection}]
  BY DEF Inv, PoolInv, Ended
<1>2. /\ Tail(pool) \in Seq(Pooled \cup {Garbage})
      /\ Head(pool) = pool[1] /\ Head(pool) \in Pooled \cup {Garbage}
      /\ 1 \in 1..Len(pool) /\ Len(Tail(pool)) = Len(pool) - 1
      /\ \A i \in 1..Len(Tail(pool)) : Tail(pool)[i] = pool[i + 1] /\ i + 1 \in 1..Len(pool)
  BY <1>1
<1>3. /\ \A i, j \in 1..Len(pool) : pool[i] = pool[j] /\ pool[i] # Garbage => i = j
      /\ \A i \in 1..Len(pool), g \in Handlers : held[g] = pool[i] => pool[i] = Garbage
      /\ \A f, g \in Handlers : held[f] = held[g] /\ held[f] \in Pooled => f = g
  BY DEF Inv, PoolInv, Ended
<1>4. \A i \in 1..Len(Tail(pool)) : Tail(pool)[i] = Head(pool) => Head(pool) = Garbage
  BY <1>2, <1>3
<1>5. PICK copied \in {Head(pool), Garbage} : held' = [held EXCEPT ![h] = copied]
  OBVIOUS
<1>6. copied \in Pooled \cup {Garbage} /\ (copied \in Pooled => copied = Head(pool))
  BY <1>2, <1>5, ConnectorAssumption DEF Garbage, Pooled
<1>7. PoolInv'
  <2>1. /\ pool' \in Seq(Pooled \cup {Garbage})
        /\ held' \in [Handlers -> Pooled \cup {Garbage, NoConnection}]
    BY <1>1, <1>2, <1>5, <1>6
  <2>2. \A i, j \in 1..Len(pool') : pool'[i] = pool'[j] /\ pool'[i] # Garbage => i = j
    <3> SUFFICES ASSUME NEW i \in 1..Len(Tail(pool)), NEW j \in 1..Len(Tail(pool)),
                        Tail(pool)[i] = Tail(pool)[j], Tail(pool)[i] # Garbage
                 PROVE  i = j
      OBVIOUS
    <3>1. i + 1 = j + 1
      BY <1>2, <1>3
    <3> QED
      BY <3>1
  <2>3. \A i \in 1..Len(pool'), g \in Handlers : held'[g] = pool'[i] => pool'[i] = Garbage
    <3> SUFFICES ASSUME NEW i \in 1..Len(Tail(pool)), NEW g \in Handlers,
                        held'[g] = Tail(pool)[i]
                 PROVE  Tail(pool)[i] = Garbage
      OBVIOUS
    <3>1. CASE g = h
      BY <3>1, <1>1, <1>4, <1>5
    <3>2. CASE g # h
      BY <3>2, <1>1, <1>2, <1>3, <1>5
    <3> QED
      BY <3>1, <3>2
  <2>4. \A f, g \in Handlers : held'[f] = held'[g] /\ held'[f] \in Pooled => f = g
    <3>1. \A g \in Handlers : held[g] = Head(pool) => Head(pool) = Garbage
      BY <1>2, <1>3
    <3>2. Garbage \notin Pooled
      BY ConnectorAssumption DEF Garbage, Pooled
    <3> QED
      BY <1>1, <1>3, <1>5, <1>6, <3>1, <3>2
  <2> QED
    BY <2>1, <2>2, <2>3, <2>4 DEF PoolInv
<1>8. CursorInv'
  <2>1. \A g \in Handlers : held[g] # NoConnection => g # h /\ held'[g] = held[g]
    BY <1>5
  <2>2. \A g \in toFetch : g \in Handlers /\ held[g] \in Pooled
    BY DEF Inv, CursorInv, Ended
  <2>3. NoConnection \notin Pooled
    BY ConnectorAssumption DEF Pooled, Connections
  <2> QED
    BY <2>1, <2>2, <2>3 DEF Inv, CursorInv, Ended
<1>9. CatalogInv' /\ CursorsClosedForNextCall'
  BY DEF Inv, CatalogInv, CursorsClosedForNextCall, catalogVars
<1> QED
  BY <1>7, <1>8, <1>9 DEF Inv

(* A cursor that is open on a handler's connection was left behind.        *)
LEMMA CallStep ==
  ASSUME Inv, NEW h \in Handlers, NEW p \in Procedures, CallSP(h, p)
  PROVE  Inv'
<1> USE DEF CallSP
<1>1. CASE held[h] = Garbage
  BY <1>1, ConnectorAssumption DEF Inv, PoolInv, CursorInv, CatalogInv,
    CursorsClosedForNextCall, Ended, connVars, catalogVars
<1>2. CASE held[h] # Garbage
  <2>1. /\ main = "serve" /\ h \notin toFetch /\ held[h] \in Pooled
    BY <1>2 DEF Inv, PoolInv, Ended
  <2>2. \A g \in toFetch : held[g] # held[h]
    BY <2>1 DEF Inv, PoolInv, CursorInv, Ended
  <2>3. held[h] \in cursor => held[h] \in unfetched
    BY <2>1, <2>2 DEF Inv, CursorInv, Ended, Pooled
  <2>4. PoolInv'
    BY DEF Inv, PoolInv, Ended, connVars
  <2>5. CursorInv'
    BY <2>1 DEF Inv, CursorInv, Ended, Pooled
  <2>6. CatalogInv'
    BY DEF Inv, CatalogInv, catalogVars
  <2>7. CursorsClosedForNextCall'
    BY <2>3 DEF Inv, CursorsClosedForNextCall, CallOn
  <2> QED
    BY <2>4, <2>5, <2>6, <2>7 DEF Inv
<1> QED
  BY <1>1, <1>2

(* The result is fetched, and the cursor closed with it or left open.      *)
LEMMA ResultStep ==
  ASSUME Inv, NEW h \in Handlers, GetSPResult(h)
  PROVE  Inv'
<1> USE DEF GetSPResult
<1>1. PoolInv'
  BY DEF Inv, PoolInv, Ended, connVars
<1>2. CursorInv'
  BY DEF Inv, PoolInv, CursorInv, Ended
<1>3. CatalogInv' /\ CursorsClosedForNextCall'
  BY DEF Inv, CatalogInv, CursorsClosedForNextCall, catalogVars
<1> QED
  BY <1>1, <1>2, <1>3 DEF Inv

(* A connection comes back to the end of the pool.                         *)
LEMMA FreeStep ==
  ASSUME Inv, NEW h \in Handlers, FreeConnection(h)
  PROVE  Inv'
<1> USE DEF FreeConnection
<1>1. /\ pool \in Seq(Pooled \cup {Garbage})
      /\ held \in [Handlers -> Pooled \cup {Garbage, NoConnection}]
      /\ held[h] \in Pooled \cup {Garbage}
  BY DEF Inv, PoolInv, Ended
<1>2. /\ pool' \in Seq(Pooled \cup {Garbage}) /\ Len(pool') = Len(pool) + 1 /\ Len(pool) \in Nat
      /\ pool'[Len(pool) + 1] = held[h]
      /\ \A i \in 1..Len(pool) : pool'[i] = pool[i]
  BY <1>1
<1>3. \A i \in 1..Len(pool) + 1 : i \in 1..Len(pool) \/ i = Len(pool) + 1
  BY <1>1
<1>4. PoolInv'
  BY <1>1, <1>2, <1>3, ConnectorAssumption DEF Inv, PoolInv, Ended, Pooled, Connections, Garbage
<1>5. CursorInv'
  BY <1>1 DEF Inv, CursorInv, Ended
<1>6. CatalogInv' /\ CursorsClosedForNextCall'
  BY DEF Inv, CatalogInv, CursorsClosedForNextCall, catalogVars
<1> QED
  BY <1>4, <1>5, <1>6 DEF Inv

-----------------------------------------------------------------------------
(* Inv is preserved.                                                       *)
LEMMA NextInv ==
  ASSUME Inv, [Next]_vars
  PROVE  Inv'
<1>1. CASE TryDBMigration
  BY <1>1 DEF TryDBMigration, Inv, PoolInv, CursorInv, CatalogInv, CursorsClosedForNextCall,
       Ended, connVars, catalogVars, serveVars
<1>2. CASE StopServer
  BY <1>2 DEF StopServer, Inv, PoolInv, CursorInv, CatalogInv, CursorsClosedForNextCall,
       Ended, connVars, catalogVars, serveVars
<1>3. CASE DisconnectDB
  BY <1>3 DEF DisconnectDB, Inv, PoolInv, CursorInv, CatalogInv, CursorsClosedForNextCall,
       Ended, catalogVars, serveVars
<1>4. CASE UNCHANGED vars
  BY <1>4 DEF vars, Inv, PoolInv, CursorInv, CatalogInv, CursorsClosedForNextCall,
       connVars, catalogVars, serveVars
<1> QED
  BY <1>1, <1>2, <1>3, <1>4, ConnectStep, CatalogStepInv, GetStep, CallStep, ResultStep,
     FreeStep DEF Next, CatalogStep

(* What the calls that read the catalog did is never committed where the   *)
(* database rolls back, for any number of procedures.                      *)
THEOREM CatalogCallsRolledBackCorrect == Spec => []CatalogCallsRolledBack
<1>1. Inv => CatalogCallsRolledBack
  BY DEF Inv, CatalogInv, CatalogCallsRolledBack
<1> QED
  BY InitInv, NextInv, <1>1, PTL DEF Spec

(* A statement that is called while its cursor is open is one whose result *)
(* was not fetched, for any pool and any number of handlers.               *)
THEOREM CursorsClosedForNextCallCorrect == Spec => []CursorsClosedForNextCall
<1>1. Inv => CursorsClosedForNextCall
  BY DEF Inv
<1> QED
  BY InitInv, NextInv, <1>1, PTL DEF Spec
=============================================================================
