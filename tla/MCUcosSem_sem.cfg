SPECIFICATION FairSpec
CONSTANTS
  Tasks <- MCTasks
  Idle <- MCIdle
  Events = {e1}
  e1 = e1
  NoEvent = NoEvent
  MaxTicks = 2
  MaxLock = 1
  Suspendable <- MCSecond
  Preempts <- MCNone
  MaxCnt = 2
  IrqPosts = {e1}
INVARIANTS WaitListsAgree NoCountWhileWaiting SuspendedNotReady CurrentTaskAgrees HighestPriorityRuns
PROPERTIES ImplementsService TimedPendWakes FirstTaskReturns
