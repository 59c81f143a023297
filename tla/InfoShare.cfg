SPECIFICATION FairSpec
CONSTANTS
  NUM_PLAYERS = 3
  FieldOrder <- ShortOrder
  SetupIds = {1}
  Datagrams <- MC_Datagrams
  MaxAccepted = 2
INVARIANTS
  ReadsAreWhole
  DataNotNewerThanRecvTime
  IdleTableIsLatest
PROPERTIES
  ReadsMoveForward
  ImplementsRegisters
  QuietAfterJoin
  TerminateReturns
CHECK_DEADLOCK FALSE
