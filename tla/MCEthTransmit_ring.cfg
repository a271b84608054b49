SPECIFICATION Spec
CONSTANTS
  Senders <- MCFlyEthernet
  Frames = {f1, f2, f3}
  TooLong = {f3}
  NoFrame = NoFrame
  TxFrag = 3
INVARIANTS ReadableFragmentsWhole
PROPERTIES ImplementsQueue
