SPECIFICATION FairSpec
CONSTANTS
  Client = c
  Server = s
  Mss = 1
  TcpWnd = 4
  TcpSndBuf = 6
  MaxRtx = 2
  SeqSpace = 32
  Iss <- MCIssWrap
  Settings <- MCWrap
PROPERTIES DataArrives
CHECK_DEADLOCK FALSE
