SPECIFICATION Spec
CONSTANTS
  Tasks <- MCTasks
  Idle <- MCIdle
  Events = {e1}
  e1 = e1
  NoEvent = NoEvent
  MaxTicks = 2
  MaxLock = 0
  Suspendable <- MCNone
  Preempts <- MCTick
  MaxCnt = 1
  IrqPosts = {}
INVARIANT CurrentTaskAgrees
