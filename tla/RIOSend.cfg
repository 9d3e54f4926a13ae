SPECIFICATION Spec
CONSTANTS
  NumOfWorkerThread = 1
  Apps = {a1, a2}
  Accepter = accepter
  MaxClientCount = 2
  MaxSendBufferSize = 6
  SizeOf <- Sizes
  CountModulus = 8
  LastSessionId = 2
  MaxPackets = 3
INVARIANTS
  TypeOK
  RefCountExact
  WorkersReviveNobody
  NoUseAfterRelease
  SendsSerialized
  NoLostWakeup
PROPERTIES
  ImplementsLossyChannel
CHECK_DEADLOCK FALSE
