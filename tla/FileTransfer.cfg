SPECIFICATION FairTransferSpec
CONSTANTS
  Name <- inoue_satoshi
  Email <- s19c1012
  Old <- MC_Old
  Rounds = 10
  Readings = 4
INVARIANTS
  ShowsOneRecord
  PersonLaws
PROPERTIES
  LastRecordIsShown
CHECK_DEADLOCK FALSE
