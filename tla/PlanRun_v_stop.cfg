SPECIFICATION FairSpec
CONSTANTS
  p1 = p1  p2 = p2
  Proc = {p1}
  Tasks = 3
  After <- ThirdAfterFirst
  Resources <- Database
  Sequential = FALSE
  MaxConcurrency = 2
  Policies <- Both
  NoRun = NoRun
  CrashAt <- Nowhere
  StopAt <- Nowhere
  FailAt <- Nowhere
PROPERTIES HaltEnds
CHECK_DEADLOCK FALSE
