SPECIFICATION FairSpec
CONSTANTS
  udpSendPacketSize = 1
  udpResendCount = 1
  confirmationResendCount = 1
  MaxSentCount = 1
  ReceiveWindow = 3
  INT_MAX = 100
  ClientBytes = 1
  ServerBytes = 0
  StreamLen <- MCStreamLen
  Closing = {}
  FaultyTcp = {}
  FaultyUdp = {}
  MaxConnections = 1
PROPERTIES
  ReadIsWritten
