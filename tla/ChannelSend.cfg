SPECIFICATION Spec
CONSTANTS
  Workers = {w1, w2}
  Apps = {a1, a2}
  Reconnecter = reconnecter
  Channels = {c1}
  NoChannel = NoChannel
  MaxWsaBuf = 2
  MaxPackets = 2
  Addressed = {c1}
  MaxLosses = 1
  MaxReconnects = 1
SYMMETRY Symmetric
INVARIANTS
  TypeOK
  RefCountExact
  SendsSerialized
  NoLostWakeup
  SentInOrder
  ReceivesSerialized
  BuffersInFlightAlive
CHECK_DEADLOCK FALSE
