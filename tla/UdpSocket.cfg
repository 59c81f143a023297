SPECIFICATION FairSpec
CONSTANTS
  Sends = 4
  SendBuffer = 2
  ReceiveBuffer = 2
INVARIANTS
  DeliveredAsSent
  
  DeafOnlyByError
  NothingOutlivesServer
PROPERTIES
  ImplementsChannel
  ServerTerminates
  ArrivedIsHandled
CHECK_DEADLOCK FALSE
