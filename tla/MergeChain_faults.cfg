SPECIFICATION Spec
CONSTANTS
  p1 = p1  p2 = p2  p3 = p3  a1 = a1  a2 = a2
  Human = Human
  NoOne = NoOne
  None = None
  Proc = {p1, p2}
  Agent = {a1}
  Kinds = {"merge", "rollback", "reserve"}
  MaxWork = 1
  MaxTarget = 2
  MaxHuman = 2
  GateRetries = 0
  SemanticMerge = TRUE
  MaxSemanticFailures = 1
  BreakFrozen = TRUE
  CrashAt <- Nowhere
  FreezeAt <- Long
  FailAt <- Orphans
  Quiet <- Windows
SYMMETRY Symmetry
PROPERTIES OnlyTestedLands OwnMergesOnly NoticedKept SessionRespected HumanCommitsStay
CHECK_DEADLOCK FALSE
