SPECIFICATION Spec
CONSTANTS
  p1 = p1  p2 = p2  p3 = p3
  Proc = {p1, p2, p3}
  Nobody = Nobody
  NoTicket = NoTicket
  MaxNumber = 3
  MaxArrivals = 2
  MaxFreezes = 0
  TicketMaxAttempts = 2
  CrashAt <- CrashSome
  FreezeAt <- Nowhere
  FailAt <- FailSome
SYMMETRY Symmetry
INVARIANTS TypeOK Visible
PROPERTIES NoOvertaking
CHECK_DEADLOCK FALSE
