SPECIFICATION Spec
CONSTANTS
  Workers = {w1}
  Apps = {a1}
  Reconnecter = reconnecter
  Channels = {c1}
  NoChannel = NoChannel
  MaxWsaBuf = 2
  MaxPackets = 1
  Addressed = {c1}
  MaxLosses = 2
  MaxReconnects = 2
SYMMETRY Symmetric
INVARIANTS
  BuffersFreedOnce
CHECK_DEADLOCK FALSE
