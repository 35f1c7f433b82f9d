CONSTANTS
  s1 = s1 s2 = s2
  Session = {s1, s2}
  SegPages = 3
  MaxSeg = 2
  InitSeg = 2
SPECIFICATION Spec
SYMMETRY SessionSymmetry
INVARIANTS Books FreeListExact NoSharedPage NoHiddenSpace
PROPERTIES AllocatorSpec
CHECK_DEADLOCK FALSE
