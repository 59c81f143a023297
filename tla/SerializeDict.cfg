SPECIFICATION FairSpec
CONSTANTS
  SCHAR_MAX = 127
  Dictionaries <- MC_Dictionaries
  Texts <- MC_Texts
INVARIANTS
  EncodesGreedily
  RoundTrip
PROPERTIES
  Terminates
CHECK_DEADLOCK FALSE
