SPECIFICATION Spec
CONSTANTS
  Client = c
  Server = s
  Mss = 2
  TcpWnd = 4
  TcpSndBuf = 6
  MaxRtx = 2
  SeqSpace = 32
  Iss <- MCIss
  Settings <- MCUnsent
PROPERTIES UnsentIsSent
CHECK_DEADLOCK FALSE
