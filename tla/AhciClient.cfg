SPECIFICATION ClientSpec
CONSTANTS
  Ports <- MCPorts
  PacketPorts = {}
  NCS = 2
  Bases <- MCBases
  Misaligned <- MCMisaligned
  Buffers <- MCBuffers
  LBAs <- MCLBAs
  Sectors <- MCSectors
  PollLimit = 1
INVARIANTS
  AInv
  CommandsIntact
  TrueMeansData
  TrueMeansOver
PROPERTY BasesMoveStopped
