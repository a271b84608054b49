SPECIFICATION FairSpec
CONSTANTS
  InputThread = 6
  TimerThread = 6
  Pcbs = {p1, p2, p3}
  Listen = Listen
  Rounds = 2
  Window = 3
  Commands <- MCLogin
  Faults = 0
PROPERTIES EveryListCompletes
CHECK_DEADLOCK FALSE
