CONSTANTS
  c1 = c1
  c2 = c2
  c3 = c3
  i1 = i1
  i2 = i2
  i3 = i3
  g1 = g1
  g2 = g2
  Undefined = Undefined
  Clients <- NatClients
  Ips = {i1, i2, i3}
  IpOf <- NatIpOf
  GuidOf <- NatGuidOf
  SocketVersion = 4
  Datagrams <- Connecting
  Commands <- OneCommand
  ProtocolVersion = 9
  MaxMtuSize = 1429
  SessionLimit = 2
  IdModulus = 8
  PacketsPerTick = 3
  MaskBits = {2}
  TickPeriod = 4
  MaxArrivals = 3
  MaxCommands = 2

SPECIFICATION Spec

PROPERTY UnconnectedPingAnswered
