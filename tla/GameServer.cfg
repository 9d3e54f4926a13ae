SPECIFICATION Spec
CONSTANTS
  Sessions = {s1, s2, s3}
  Owners = {s1}
  PCIds = {p1, p2}
  NoSession = NoSession
  NoPC = NoPC
  NoOwner = NoOwner
  Batches = {b1, b2}
  MaximumBatchedDBJobSize = 1
  MaxTime = 2
  MaxCalls = 1
  MaxBusySessions = 1
SYMMETRY Symmetric
INVARIANTS
  PlayersFoundById
  LeftNothingBehind
  KeysNeverShared
CHECK_DEADLOCK FALSE
