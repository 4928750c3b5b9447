CONSTANTS
  p1 = p1
  p2 = p2
  Ports <- TwoPorts
  MaxCalls = 3

SPECIFICATION Spec

INVARIANTS
  TypeOK
  ReadyTogether
  CallerFindsReady
  OverlappingCallsInitialiseTheLast

PROPERTIES
  CallsResume
  SocketsSettle

CHECK_DEADLOCK FALSE
