SPECIFICATION Spec
CONSTANTS
  Senders <- MCBoth
  Frames = {f1, f2}
  TooLong = {}
  NoFrame = NoFrame
  TxFrag = 3
PROPERTIES PacketQueued
