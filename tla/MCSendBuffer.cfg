SPECIFICATION Spec
CONSTANTS
  udpSendPacketSize = 1
  udpResendCount = 0
  confirmationResendCount = 1
  MaxSentCount = 1
  ReceiveWindow = 6
  INT_MAX = 100
  ClientBytes = 5
  ServerBytes = 0
  StreamLen <- MCStreamLen
  Closing = {}
  FaultyTcp = {}
  FaultyUdp = {}
  MaxConnections = 1
INVARIANTS
  SendBufferIsBounded
