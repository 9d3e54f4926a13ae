SPECIFICATION Spec
CONSTANTS
  Workers = {w1, w2, w3}
  Channels = {c1, c2, c3}
  NoChannel = NoChannel
  Keys = {0, 1}
  PoolSize = 3
  BatchSizes = {1, 2, 3, 4}
  SizeModulus = 3
  MaxBatches = 2
  MaxPackets = 5
SYMMETRY Symmetric
INVARIANTS
  TypeOK
  PoolConserved
  NeverRefused
  ConnectionExclusive
  BatchExclusive
  TransactionsIsolated
  AnswersAreCommitted
CHECK_DEADLOCK FALSE
