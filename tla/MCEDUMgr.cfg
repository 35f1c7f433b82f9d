SPECIFICATION Spec
CONSTANTS
  CB = {c1, c2}
  Main = Main
  Monitor = Monitor
  NoCB = NoCB
  Type = {"user", "system", "iosvc"}
  MaxPooled = 2
  IdleLow = 1
  ThreadFails = FALSE
SYMMETRY Perms
INVARIANTS PoolSound ResumePending NoOrphan
CHECK_DEADLOCK FALSE
