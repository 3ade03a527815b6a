SPECIFICATION Spec
CONSTANTS
  IntBits = 5
  GroupBits = 2
  MaxGroups = 3
  MaxIndex = 14
  Sizes = {3, 6}
INVARIANTS
  TypeOK
  ConfirmsOnlyReceived
  AllConfirmed
  NeverMalformed
