SPECIFICATION Spec
CONSTANTS
  HeaderSize = 2
  PageSize = 8
  InitialSize = 16
  UsizeRange = 256
  Bases <- MCBases
  BackBuffers <- MCBackBuffers
  RendererSize = 3
INVARIANTS
  ListSound
  BlocksApart
  InsideRegions
  ExtensionsSuffice
CHECK_DEADLOCK FALSE
