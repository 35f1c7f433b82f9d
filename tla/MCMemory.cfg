CONSTANTS
  t1 = t1  t2 = t2  NoThread = NoThread
  Thread <- MCThread
  M = 1  P = 2  Delta = 2  Share = 1  Small <- MCSmall
  MaxSizes <- MCSizes
  MaxHeld = 2  MaxShrink = 1  MaxSet = 1
SPECIFICATION MCSpec
INVARIANTS PoolExact 
PROPERTIES CallsReturn
