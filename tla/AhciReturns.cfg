SPECIFICATION FairClientSpec
CONSTANTS
  Ports <- MCPorts
  PacketPorts = {}
  NCS = 2
  Bases <- MCBases
  Misaligned <- MCMisaligned
  Buffers <- MCBuffers
  LBAs <- MCLBAs
  Sectors <- MCOneSector
  PollLimit = 1
PROPERTY DriverReturns
