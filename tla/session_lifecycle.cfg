CONSTANTS
  ip1 = ip1
  ip2 = ip2
  ip3 = ip3
  Ips <- ThreeIps
  SessionLimit = 1
  IdModulus = 2
  Timeout = 0
  MaxSessions = 3
  MaxCommands = 3
  MaxTime = 1

SPECIFICATION Spec
SYMMETRY IpSymmetry
CHECK_DEADLOCK FALSE
INVARIANTS
  TypeOK
  TablesAgree
  ListedIsManaged
  ClosedNoticeOncePerSession
PROPERTY ActiveLeavesOnlyByCommand ShutdownLeavesNobody RefinesSessionRegistry
