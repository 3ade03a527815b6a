SPECIFICATION Spec
CONSTANTS
  udpSendPacketSize = 2
  udpResendCount = 1
  confirmationResendCount = 1
  MaxSentCount = 1
  ReceiveWindow = 1
  INT_MAX = 100
  StreamLen = 2
  MaxIndex = 2
  Datagrams <- MCDatagrams
INVARIANTS
  TypeOK
  UnsentCounted
  LeftoverIsPartial
  ReceivedKept
  FinalIsMaster
  NoLostWakeup
PROPERTIES
  NothingAfterFinal
