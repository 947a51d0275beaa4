SPECIFICATION FairSpec
CONSTANTS
  PageCount = 9
  Requests <- MCRequests
INVARIANTS
  IInv
  Exclusive
PROPERTIES
  PoolSpec
  CallReturns
