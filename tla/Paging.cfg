SPECIFICATION Spec
CONSTANTS
  Levels = 4
  Radix = 2
  Frames <- MCFrames
  Root = 1
  HHDM_Offset = 100
  VAs <- MCVAs
  PAs <- MCPAs
  Counts <- MCCounts
  Flags <- MCFlags
  Watched <- MCWatched
INVARIANTS
  TablesApart
  MapsExactly
  FailureIsPrefix
  StaleOnlyIfTorn
