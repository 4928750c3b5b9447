CONSTANTS
  p1 = p1
  p2 = p2
  Ports <- TwoPorts
  MaxCalls = 2

SPECIFICATION Spec

INVARIANT BindFailureIsReported

CHECK_DEADLOCK FALSE
