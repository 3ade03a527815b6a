SPECIFICATION FairSpec
CONSTANTS
  udpInitialSendIntervalUs = 1
  udpResendUs = 60
  udpResendCount = 1
  udpMaxSendLossPercent = 30
  udpMaxSentMeasureSize = 3
  udpMaxSentMeasureUs = 10
  Others <- MCOthers
  Delays <- MCDelays
  Sizes = {1, 3}
  MaxPackets = 3
INVARIANTS
  TypeOK
  AnsweredWereSent
  ZeroOnlyIfFast
  EvaluatedInOrder
  EvaluatedIsAnswered
  LossNeverAmplifies
PROPERTIES
  MeasureIsEvaluated
