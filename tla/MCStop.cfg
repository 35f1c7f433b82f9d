SPECIFICATION MCSpec
CONSTANTS
  Timeout = 60
  MinTimeout = 6
  IOInterval = 2
  EDUInterval = 1
  N = 3
  Missing = Missing
INVARIANTS Bounded StartStopSound
PROPERTIES  ShutdownEnds
CHECK_DEADLOCK FALSE
