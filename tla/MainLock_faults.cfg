SPECIFICATION Spec
CONSTANTS
  p1 = p1  p2 = p2  p3 = p3  g1 = g1  g2 = g2  g3 = g3
  Nobody = Nobody
  NoFile = NoFile
  Empty = Empty
  Proc = {p1, p2, g1, g2, g3}
  Ghost = {g1, g2, g3}
  CrashAt <- CrashOutside
  FreezeAt <- FreezeOutside
  FailAt <- FailOutside
  BreakFrozen = FALSE
  MayGiveUp = TRUE
SYMMETRY Symmetry
INVARIANTS TypeOK MutualExclusion OneBreaker RemovedMeansGone
PROPERTIES BrokenOnProof ImplementsLock
CHECK_DEADLOCK FALSE
