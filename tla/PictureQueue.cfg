SPECIFICATION FairSpec
CONSTANTS
  Pictures <- MC_Pictures
  Capacity = 2
  max_len_message = 14
  MaxStarts = 2
  MaxSends = 4
INVARIANTS
  ShownIsSent
  PictureLaws
PROPERTIES
  ImplementsChannel
  AllArrive
CHECK_DEADLOCK FALSE
