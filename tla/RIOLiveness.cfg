SPECIFICATION FairSpec
CONSTANTS
  NumOfWorkerThread = 1
  Apps = {a1}
  Accepter = accepter
  MaxClientCount = 2
  MaxSendBufferSize = 6
  SizeOf <- Sizes
  CountModulus = 8
  LastSessionId = 2
  MaxPackets = 2
PROPERTIES
  GoneSessionsLeave
CHECK_DEADLOCK FALSE
