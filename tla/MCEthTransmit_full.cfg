SPECIFICATION Spec
CONSTANTS
  Senders <- MCFlyEthernet
  Frames = {f1, f2}
  TooLong = {}
  NoFrame = NoFrame
  TxFrag = 3
PROPERTIES OkMeansQueued
