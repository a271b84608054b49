SPECIFICATION Spec
CONSTANTS
  Tasks <- MCTasks
  Idle <- MCIdle
  Events = {e1}
  e1 = e1
  NoEvent = NoEvent
  MaxTicks = 2
  MaxLock = 0
  Suspendable <- MCApp
  Preempts <- MCNone
  MaxCnt = 1
  IrqPosts = {}
INVARIANTS TypeOK TimedPendEnds
PROPERTIES DeletionNoticed
