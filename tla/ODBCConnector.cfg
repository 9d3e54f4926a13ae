SPECIFICATION Spec
CONSTANTS
  PoolSize = 2
  NumProcedures = 3
  Parameters <- MCParameters
  HasResult <- MCHasResult
  Handlers = {h1, h2}
  NoConnection = NoConnection
SYMMETRY Symmetric
INVARIANTS
  CatalogCallsRolledBack
  CursorsClosedForNextCall
CHECK_DEADLOCK FALSE
