SPECIFICATION Spec
CONSTANTS
  udpSendPacketSize = 1
  udpResendCount = 0
  confirmationResendCount = 1
  MaxSentCount = 1
  ReceiveWindow = 3
  INT_MAX = 100
  ClientBytes = 0
  ServerBytes = 0
  StreamLen <- MCStreamLen
  Closing = {"client"}
  FaultyTcp = {"client"}
  FaultyUdp = {"server"}
  MaxConnections = 1
INVARIANTS
  FinishedIsReceived
