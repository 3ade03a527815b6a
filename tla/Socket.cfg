SPECIFICATION FairSpec
CONSTANTS
  MaxQueue = 2
  MaxSpace = 3
  MinSpace = 2
INVARIANTS
  TypeOK
  NoLostReadiness
  ReadBeforeClosed
PROPERTIES
  HangupCloses
