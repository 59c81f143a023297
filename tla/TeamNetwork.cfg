SPECIFICATION FairSpec
CONSTANTS
  a = a
  b = b
  c = c
  home = home
  Processes = {a, b, c}
  IdOf <- ThreeProcesses
  NetworkOf <- OneNetwork
  ip_address <- Addresses
  Dotless = Dotless
  NUM_PLAYERS = 2
  Modes = {"broadcast", "unicast"}
  MaxInFlight = 2
  FairPairs <- OnePair
  NoRow = NoRow
INVARIANTS
  RowsAreOthers
  OneStrangerAtMost
PROPERTIES
  TeamMatesHearEachOther
