CONSTANTS
  s1 = s1 s2 = s2 s3 = s3 c1 = c1
  NoSession = NoSession
  Session = {s1, s2}
  Collection = {c1}
  CollOf <- SameCollection
  SegPages = 1
  MaxSeg = 3
  MaxCrash = 2
  Power = TRUE
SPECIFICATION Spec
SYMMETRY SessionSymmetry
CHECK_DEADLOCK FALSE
INVARIANTS  DataInsideFile OffersOnlyFree RefusedOnlyIfTorn
