SPECIFICATION FairSpec
CONSTANTS
  p1 = p1  p2 = p2  p3 = p3  a1 = a1  a2 = a2
  Human = Human
  NoOne = NoOne
  None = None
  Proc = {p1, p2}
  Agent = {a1}
  Kinds = {"merge", "resolve", "promote"}
  MaxWork = 1
  MaxTarget = 2
  MaxHuman = 1
  GateRetries = 1
  SemanticMerge = TRUE
  MaxSemanticFailures = 2
  BreakFrozen = FALSE
  CrashAt <- Deaths
  FreezeAt <- Nowhere
  FailAt <- Late
  Quiet <- Windows
INVARIANTS AnswersTrue
PROPERTIES TestedPromoted HumanCommitsStay ManualOnFailures DebrisCleared
CHECK_DEADLOCK FALSE
