SPECIFICATION Spec
CONSTANTS
  HeaderSize = 2
  PageSize = 8
  InitialSize = 24
  UsizeRange = 256
  Bases <- MCBases
  Counts <- MCCounts
  MaxLive = 3
INVARIANT BlocksApart
