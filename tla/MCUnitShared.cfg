CONSTANTS
  s1 = s1 s2 = s2 s3 = s3 c1 = c1
  NoSession = NoSession
  Session = {s1, s2, s3}
  Collection = {c1}
  CollOf <- SameCollection
  SegPages = 1
  MaxSeg = 2
  MaxCrash = 0
  Power = FALSE
SPECIFICATION StrongSpec
CHECK_DEADLOCK FALSE
PROPERTY FreelyCreate
