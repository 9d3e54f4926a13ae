SPECIFICATION Spec
CONSTANTS
  NumOfWorkerThread = 2
  Apps = {a1}
  Accepter = accepter
  MaxClientCount = 2
  MaxSendBufferSize = 6
  SizeOf <- Sizes
  CountModulus = 8
  LastSessionId = 4
  MaxPackets = 0
INVARIANTS
  ReceivesSerialized
  LiveSessionsRegistered
  CountersAgree
CHECK_DEADLOCK FALSE
