CONSTANTS
  Thread = {t1, t2, t3}
  ReadTimeout = 2
  WriteTimeout = 1
  Millisec <- MCMillisec
SPECIFICATION MCSpec
INVARIANTS LockExact
PROPERTIES IsRWLock LockDrains
