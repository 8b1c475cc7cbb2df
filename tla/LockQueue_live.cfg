SPECIFICATION FairSpec
CONSTANTS
  p1 = p1  p2 = p2  p3 = p3
  Proc = {p1, p2, p3}
  Nobody = Nobody
  NoTicket = NoTicket
  MaxNumber = 6
  MaxArrivals = 1
  MaxFreezes = 1
  TicketMaxAttempts = 3
  CrashAt <- CrashWaiting
  FreezeAt <- FreezeWaiting
  FailAt <- FailUnlink
PROPERTIES NoStarvation
CHECK_DEADLOCK FALSE
