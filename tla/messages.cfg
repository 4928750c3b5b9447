CONSTANTS
  Longs = {1, 2}
  Shorts = {400, 1492}
  Names = {3, 5}
  MultiByte = {5}
  Ports = {0, 19132}
  Hosts <- TwoHosts
  Versions = {4, 5, 6}
  EmptyData = 0
  SystemAddresses = 2
  MaxDatagrams = 2

SPECIFICATION Spec

INVARIANTS
  TypeOK
  FieldsSurvive
  OnlyThePortSurvives
  LastAddressDecides

CHECK_DEADLOCK FALSE
