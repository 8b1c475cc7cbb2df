SPECIFICATION FairSpec
CONSTANTS
  p1 = p1  p2 = p2
  Proc = {p1, p2}
  Tasks = 3
  After <- ThirdAfterFirst
  Resources <- Database
  Sequential = FALSE
  MaxConcurrency = 2
  Policies <- Both
  NoRun = NoRun
  CrashAt <- InTasks
  StopAt <- WhileNodesRun
  FailAt <- Skips
INVARIANTS TypeOK OneExecutor ResourceExclusive DependenciesOnFile
PROPERTIES DecisionsStay DoneIsDecided Drained
CHECK_DEADLOCK FALSE
