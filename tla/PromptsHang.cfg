SPECIFICATION Spec
CONSTANTS
  N = 2
  Kinds = {read, write}
  Keys = {k1}
CHECK_DEADLOCK FALSE
PROPERTIES
  ConcurrentCallsDoNotHang
