SPECIFICATION Spec
CONSTANTS
  Frames = {f1, f2}
  NoFrame = NoFrame
  RxFrag = 4
  MaxCnt = 8
INVARIANTS ReadyFrameSignalled
