SPECIFICATION Spec
CONSTANTS
  Sends = 3
  SendBuffer = 1
  ReceiveBuffer = 2
INVARIANTS
  AllArrivedMeansEqual
CHECK_DEADLOCK FALSE
