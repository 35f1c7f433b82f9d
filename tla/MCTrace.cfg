CONSTANTS
  t1 = t1  t2 = t2  o1 = o1  o2 = o2
  Tracer <- MCTracer
  Oper <- MCOper
  C = 2  Sizes <- MCSizes  Prompt = TRUE
  MaxPos = 3  MaxStart = 2
SPECIFICATION MCSpec
INVARIANTS  DumpExact
PROPERTIES CallsEnd
CHECK_DEADLOCK FALSE
