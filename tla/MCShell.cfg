CONSTANTS
  f1 = f1  f2 = f2  f3 = f3  s1 = s1  s2 = s2  char = char  space = space
  Nova = {f1, f2, f3}  Back = {k1, k2}  Shell = {s1, s2}  None = none
  ShellOf <- TwoShells  Quit = {f2}  Long = {f1}  PidPrefix <- Prefix21
  Overlap = TRUE  FrontDies = TRUE  BackDies = FALSE
SPECIFICATION MCSpec
INVARIANTS PipesTidy AnswersExact
 
CHECK_DEADLOCK FALSE
