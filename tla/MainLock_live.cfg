SPECIFICATION FairSpec
CONSTANTS
  p1 = p1  p2 = p2  p3 = p3  g1 = g1  g2 = g2  g3 = g3
  Nobody = Nobody
  NoFile = NoFile
  Empty = Empty
  Proc = {p1, p2, g1, g2}
  Ghost = {g1, g2}
  CrashAt <- CrashAnywhere
  FreezeAt <- InSection
  FailAt <- Nowhere
  BreakFrozen = TRUE
  MayGiveUp = FALSE
PROPERTIES Progress FrozenBroken
CHECK_DEADLOCK FALSE
