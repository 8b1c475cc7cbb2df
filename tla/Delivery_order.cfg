SPECIFICATION FairSpec
CONSTANTS
  p1 = p1  p2 = p2
  a = a  b = b  c = c
  NoOne = NoOne
  Proc = {p1, p2}
  Op = {a, b, c}
  Home <- TwoAndOne
  MaxForeign = 1
  CrashAt <- Anywhere
  FailAt <- Commands
  Overlapping = FALSE
INVARIANTS PublishedNotUndone ReportsTrue
PROPERTIES Answered ImplementsPublication
CHECK_DEADLOCK FALSE
