SPECIFICATION FairSpec
CONSTANTS
  Client = c
  Server = s
  Mss = 2
  TcpWnd = 4
  TcpSndBuf = 6
  MaxRtx = 2
  SeqSpace = 32
  Iss <- MCIss
  Settings <- MCAll
INVARIANTS NothingForgotten AckedIsReceived WindowGranted
PROPERTIES ImplementsStream WindowNotShrunk DataArrives CloseCompletes
CHECK_DEADLOCK FALSE
