SPECIFICATION FairSpec
CONSTANTS
  Sends = 3
  MessageSize = 2
  Window = 3
  buffer_size_ = 3
INVARIANTS
  StreamArrives
  OnlyLaterBytes
  EmptyMeansGone
PROPERTIES
  QuietAfterJoin
  ServerTerminates
  ArrivedIsHandled
CHECK_DEADLOCK FALSE
