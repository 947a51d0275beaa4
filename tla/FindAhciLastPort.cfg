SPECIFICATION Spec
CONSTANTS
  Ports <- MCPorts
  NP = 2
  NCS = 1
  Bases <- MCFrames
  Misaligned = {}
  Buffers <- MCFrames
  LBAs <- MCZero
  Sectors <- MCOne
  PollLimit = 0
  AreaFrames = 2
  FISPage = 1
  TablesPage = 0
  PagesPerTable = 4
  TableSets <- MCTableSets
  Machines <- MCMachines
  FreeSets <- MCAmple
INVARIANT EveryDriveFound
CHECK_DEADLOCK FALSE
