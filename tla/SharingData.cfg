SPECIFICATION DataSpec
CONSTANTS
  Calls <- MC_Calls
  buffer_size_ = 1024
  PoseSize = 16
INVARIANTS
  RowIsOneCall
PROPERTIES
  CutDatagramsAreDropped
