SPECIFICATION FairSpec
CONSTANTS
  CB = {c1, c2}
  Main = Main
  Monitor = Monitor
  NoCB = NoCB
  Type = {"user", "iosvc"}
  MaxPooled = 2
  IdleLow = 0
  ThreadFails = TRUE
PROPERTY StopEnds
CHECK_DEADLOCK FALSE
