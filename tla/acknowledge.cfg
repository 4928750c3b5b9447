CONSTANTS
  Numbers <- FewNumbers
  MaxLen = 4
  MaxRecords = 3
  RangeCap = 3
  ListCap = 5

SPECIFICATION Spec

INVARIANTS
  TypeOK
  NoneInvented
  RunHeadsArrive
  DecodedBounded
CHECK_DEADLOCK FALSE
