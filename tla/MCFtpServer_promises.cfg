SPECIFICATION Spec
CONSTANTS
  InputThread = 9
  TimerThread = 6
  Pcbs = {p1, p2, p3}
  Listen = Listen
  Rounds = 2
  Window = 4
  Commands <- MCLogin
  Faults = 1
INVARIANTS TypeOK DataConnectionClosed WindowReturned ListingComplete
PROPERTIES CloseIsNoCommand
CHECK_DEADLOCK FALSE
