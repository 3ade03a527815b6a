SPECIFICATION Spec
CONSTANTS
  udpSendPacketSize = 1
  udpResendCount = 0
  confirmationResendCount = 1
  MaxSentCount = 1
  ReceiveWindow = 3
  INT_MAX = 100
  ClientBytes = 0
  ServerBytes = 2
  StreamLen <- MCStreamLen
  Closing = {}
  FaultyTcp = {}
  FaultyUdp = {}
  MaxConnections = 2
INVARIANTS
  StreamIsWhole
