SPECIFICATION FairSpec
CONSTANTS
  Workers = {w1}
  Apps = {a1}
  Reconnecter = reconnecter
  Channels = {c1}
  NoChannel = NoChannel
  MaxWsaBuf = 2
  MaxPackets = 2
  Addressed = {c1}
  MaxLosses = 1
  MaxReconnects = 1
PROPERTIES
  PacketsLeaveQueue
CHECK_DEADLOCK FALSE
