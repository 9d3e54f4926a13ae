SPECIFICATION FairSpec
CONSTANTS
  Workers = {w1}
  Apps = {a1}
  Reconnecter = reconnecter
  Channels = {c1, c2}
  NoChannel = NoChannel
  MaxWsaBuf = 1
  MaxPackets = 1
  Addressed = {c1}
  MaxLosses = 1
  MaxReconnects = 3
INVARIANTS
  DeadChannelsListed
  ReconnectsDeadOnly
PROPERTIES
  LostChannelsReconnect
CHECK_DEADLOCK FALSE
