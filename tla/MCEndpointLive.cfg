SPECIFICATION LiveSpec
CONSTANTS
  udpSendPacketSize = 2
  udpResendCount = 1
  confirmationResendCount = 1
  MaxSentCount = 1
  ReceiveWindow = 3
  INT_MAX = 100
  StreamLen = 0
  MaxIndex = 1
  Datagrams <- MCFewDatagrams
PROPERTIES
  ClosedIsDeleted
  GivenUpIsFlushed
