SPECIFICATION Spec
CONSTANTS
  NUM_PLAYERS = 2
  FieldOrder <- SourceFieldOrder
  SetupIds = {1}
  Datagrams <- PairDatagrams
  MaxAccepted = 1
PROPERTIES
  TerminateStops
CHECK_DEADLOCK FALSE
