SPECIFICATION FairSpec
CONSTANTS
  Hosts = {gw, h1, h2}
  Outside = {o}
  Gateway = gw
  Silent = {h2}
  None = None
  ARP_TABLE_SIZE = 2
  ARP_MAXAGE = 3
  ARP_AGE_REREQUEST_USED = 1
  ARP_MAXPENDING = 2
  Byte = 2
  Statics = {h1}
  MaxLost = 1
  Preempts = FALSE
INVARIANTS RightHost
PROPERTIES QueueKept KeptWhileUsed PendingEnds
