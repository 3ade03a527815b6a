SPECIFICATION LiveSpec
CONSTANTS
  reader = reader
  closer = closer
  timer = timer
  writer = writer
  forRead = forRead
  forWrite = forWrite
  NoSource = NoSource
  NoEvent = NoEvent
  Event = {reader, writer, closer, timer}
  Source = {forRead, forWrite}
  source <- MCSource
  priority <- MCPriority
  MaxDelay = 2
INVARIANTS
  TypeOK
  RaisedAreReady
  ListIsExact
  OncePerRound
  
PROPERTIES
  DueIsRaised
