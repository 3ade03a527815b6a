SPECIFICATION Spec
CONSTANTS
  udpSendPacketSize = 1
  udpResendCount = 0
  confirmationResendCount = 1
  MaxSentCount = 1
  ReceiveWindow = 2
  INT_MAX = 100
  ClientBytes = 2
  ServerBytes = 0
  StreamLen <- MCStreamLen
  Closing = {"client"}
  FaultyTcp = {}
  FaultyUdp = {}
  MaxConnections = 1
CONSTRAINT FewDatagrams
INVARIANTS
  TypeOK
  InOrderDelivery
  ConfirmedIsReceived
PROPERTIES
  ImplementsByteStream
