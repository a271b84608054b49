SPECIFICATION Spec
CONSTANTS
  Tasks <- MCTasks
  Idle <- MCIdle
  Events = {e1}
  e1 = e1
  NoEvent = NoEvent
  MaxTicks = 1
  MaxLock = 0
  Suspendable <- MCApp
  Preempts <- MCBoth
  Msgs = {m1, m2}
  NoMsg = NoMsg
  OSQSize = 2
  IrqPosts = {e1}
INVARIANTS NoMessageWhileWaiting
PROPERTIES ImplementsService
