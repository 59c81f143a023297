SPECIFICATION FairSpec
CONSTANTS
  MaxCalls = 3
  HighWater = 2
INVARIANTS
  SuspendHolds
PROPERTIES
  ImplementsChannel
  GetterReturns
