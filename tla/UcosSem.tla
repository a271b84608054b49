------------------------------- MODULE UcosSem --------------------------------
(***************************************************************************)
(* The counting semaphores of uC/OS-II (OS_SEM.C) over the scheduling core *)
(* of UcosCore, used by any tasks and by an interrupt handler that posts,  *)
(* as ENET_IRQHandler does.  OSSemPend is three steps: the critical        *)
(* section that takes the semaphore or joins the waiting list, OS_Sched,   *)
(* and, when the task runs again, the critical section that finds out      *)
(* whether it was given the semaphore or has timed out.                    *)
(***************************************************************************)
EXTENDS UcosCore

CONSTANTS
  MaxCnt,    \* bound: the largest count of a semaphore (65535 in the code)
  IrqPosts   \* the event control blocks that the interrupt handler posts

ASSUME SemAssumption == MaxCnt \in Nat /\ IrqPosts \subseteq Events

VARIABLES
  OSEventType,  \* per event control block: "unused" (free) or "sem"
  OSEventCnt,   \* per event control block: the count of the semaphore
  err           \* per task: what its last pend returned in *err

semVars == <<OSEventType, OSEventCnt, err>>
vars == <<coreVars, semVars>>

Live(e) == OSEventType[e] = "sem"

TypeOK ==
  /\ CoreTypeOK
  /\ OSEventType \in [Events -> {"unused", "sem"}]
  /\ OSEventCnt \in [Events -> 0 .. MaxCnt]
  /\ err \in [Tasks -> {"none", "OS_NO_ERR", "OS_TIMEOUT"}]

-----------------------------------------------------------------------------
(* The services.                                                            *)

\* A free event control block becomes a semaphore that nobody waits for.
OSSemCreate(t, e, count) ==
  /\ Calls(t)
  /\ OSEventType[e] = "unused"
  /\ OSEventType' = [OSEventType EXCEPT ![e] = "sem"]
  /\ OSEventCnt' = [OSEventCnt EXCEPT ![e] = count]
  /\ OSEventTbl' = [OSEventTbl EXCEPT ![e] = {}]
  /\ UNCHANGED <<readyVars, OSTCBEventPtr, cpuVars, OSLockNesting, pc,
                 frameVars, err>>

\* OS_DEL_NO_PEND: refused while a task is on the waiting list.
OSSemDelNoPend(t, e) ==
  /\ Calls(t)
  /\ Live(e)
  /\ OSEventTbl[e] = {}
  /\ OSEventType' = [OSEventType EXCEPT ![e] = "unused"]
  /\ UNCHANGED <<coreVars, OSEventCnt, err>>

\* OS_DEL_ALWAYS: every waiting task is readied, as if it had been given the
\* semaphore.
OSSemDelAlways(t, e) ==
  /\ Calls(t)
  /\ Live(e)
  /\ OSEventType' = [OSEventType EXCEPT ![e] = "unused"]
  /\ OS_EventTaskRdy(e, OSEventTbl[e], "sem")
  /\ Goto(t, IF OSEventTbl[e] # {} THEN "sched" ELSE "app")
  /\ UNCHANGED <<cpuVars, OSLockNesting, frameVars, OSEventCnt, err>>

OSSemAccept(t, e) ==
  /\ Calls(t)
  /\ Live(e)
  /\ OSEventCnt[e] > 0
  /\ OSEventCnt' = [OSEventCnt EXCEPT ![e] = @ - 1]
  /\ UNCHANGED <<coreVars, OSEventType, err>>

\* OSSemPend when the semaphore is available.
OSSemPendTake(t, e) ==
  /\ CallsBlocking(t)
  /\ Live(e)
  /\ OSEventCnt[e] > 0
  /\ OSEventCnt' = [OSEventCnt EXCEPT ![e] = @ - 1]
  /\ err' = [err EXCEPT ![t] = "OS_NO_ERR"]
  /\ UNCHANGED <<coreVars, OSEventType>>

\* OSSemPend up to its call of OS_Sched, when it is not.
OSSemPendWait(t, e, n) ==
  /\ CallsBlocking(t)
  /\ Live(e)
  /\ OSEventCnt[e] = 0
  /\ OS_EventTaskWait(t, e, "sem", n)
  /\ pevent' = [pevent EXCEPT ![t] = e]
  /\ timeout' = [timeout EXCEPT ![t] = n]
  /\ err' = [err EXCEPT ![t] = "none"]
  /\ Goto(t, "pendSched")
  /\ UNCHANGED <<cpuVars, OSLockNesting, OSEventType, OSEventCnt>>

\* Mutant: a timeout is told by the ticks, not by the status bit.
OSSemPendWakeByTicks(t) ==
  /\ Runs(t)
  /\ pc[t] = "pendWake"
  /\ IF timeout[t] > 0 /\ OSTCBDly[t] = 0
     THEN /\ OS_EventTO(t, pevent[t])
          /\ err' = [err EXCEPT ![t] = "OS_TIMEOUT"]
     ELSE /\ OSTCBEventPtr' = [OSTCBEventPtr EXCEPT ![t] = NoEvent]
          /\ err' = [err EXCEPT ![t] = "OS_NO_ERR"]
          /\ UNCHANGED <<OSTCBStat, OSEventTbl>>
  /\ pevent' = [pevent EXCEPT ![t] = NoEvent]
  /\ timeout' = [timeout EXCEPT ![t] = 0]
  /\ Goto(t, "app")
  /\ UNCHANGED <<OSRdyTbl, OSTCBDly, cpuVars, OSLockNesting, OSEventType,
                 OSEventCnt>>

\* The rest of OSSemPend: the bit OS_STAT_SEM still set means a timeout.
OSSemPendWake(t) ==
  /\ Runs(t)
  /\ pc[t] = "pendWake"
  /\ IF "sem" \in OSTCBStat[t]
     THEN /\ OS_EventTO(t, pevent[t])
          /\ err' = [err EXCEPT ![t] = "OS_TIMEOUT"]
     ELSE /\ OSTCBEventPtr' = [OSTCBEventPtr EXCEPT ![t] = NoEvent]
          /\ err' = [err EXCEPT ![t] = "OS_NO_ERR"]
          /\ UNCHANGED <<OSTCBStat, OSEventTbl>>
  /\ pevent' = [pevent EXCEPT ![t] = NoEvent]
  /\ timeout' = [timeout EXCEPT ![t] = 0]
  /\ Goto(t, "app")
  /\ UNCHANGED <<OSRdyTbl, OSTCBDly, cpuVars, OSLockNesting, OSEventType,
                 OSEventCnt>>

\* Mutant: an event that is handed to a waiting task is counted as well.
SemPostTwice(e) ==
  /\ OSEventCnt' = IF OSEventCnt[e] < MaxCnt
                   THEN [OSEventCnt EXCEPT ![e] = @ + 1]
                   ELSE OSEventCnt
  /\ IF OSEventTbl[e] # {}
     THEN OS_EventTaskRdy(e, {HighestOf(OSEventTbl[e])}, "sem")
     ELSE UNCHANGED <<readyVars, eventVars>>

\* The critical section of OSSemPost: the event goes to the waiting task of
\* the highest priority, or is counted, or is lost when the count is full
\* (OS_SEM_OVF).
SemPost(e) ==
  IF OSEventTbl[e] # {}
  THEN /\ OS_EventTaskRdy(e, {HighestOf(OSEventTbl[e])}, "sem")
       /\ UNCHANGED OSEventCnt
  ELSE /\ OSEventCnt' = IF OSEventCnt[e] < MaxCnt
                        THEN [OSEventCnt EXCEPT ![e] = @ + 1]
                        ELSE OSEventCnt
       /\ UNCHANGED <<readyVars, eventVars>>

OSSemPost(t, e) ==
  /\ Calls(t)
  /\ Live(e)
  /\ SemPost(e)
  /\ Goto(t, IF OSEventTbl[e] # {} THEN "sched" ELSE "app")
  /\ UNCHANGED <<cpuVars, OSLockNesting, frameVars, OSEventType, err>>

\* OSSemPost from an interrupt handler, its OS_Sched included.
IrqSemPost(e) ==
  /\ CanInterrupt("irq")
  /\ Live(e)
  /\ SemPost(e)
  /\ IF OSEventTbl[e] # {} THEN OS_Sched(OSRdyTbl') ELSE UNCHANGED switchVars
  /\ UNCHANGED <<OSTCBCur, OSPrioCur, OSLockNesting, pc, frameVars,
                 OSEventType, err>>

-----------------------------------------------------------------------------
\* TaskInit has created the semaphores before OSStart.
Init ==
  /\ CoreInit
  /\ OSEventType \in [Events -> {"unused", "sem"}]
  /\ OSEventCnt \in [Events -> {0}]
  /\ err = [t \in Tasks |-> "none"]

TaskNext(t) ==
  \/ \E e \in Events, count \in 0 .. MaxCnt : OSSemCreate(t, e, count)
  \/ \E e \in Events : OSSemDelNoPend(t, e)
  \/ \E e \in Events : OSSemDelAlways(t, e)
  \/ \E e \in Events : OSSemAccept(t, e)
  \/ \E e \in Events : OSSemPendTake(t, e)
  \/ \E e \in Events, n \in 0 .. MaxTicks : OSSemPendWait(t, e, n)
  \/ OSSemPendWake(t)
  \/ \E e \in Events : OSSemPost(t, e)

Next ==
  \/ CoreNext /\ UNCHANGED semVars
  \/ \E t \in AppTasks : TaskNext(t)
  \/ \E e \in IrqPosts : IrqSemPost(e)

Spec == Init /\ [][Next]_vars

\* The tick is latched: one that comes while it cannot be taken is taken as
\* soon as it can.  A pending PendSV is taken, and the processor does not stop
\* in the middle of a service.  A task that locks the scheduler unlocks it:
\* "You MUST invoke OSSchedLock() and OSSchedUnlock() in pair".
FairSpec ==
  /\ Spec
  /\ SF_vars(OSTimeTick /\ UNCHANGED semVars)
  /\ WF_vars(PendSV_Handler /\ UNCHANGED semVars)
  /\ \A t \in AppTasks : WF_vars(TaskSched(t) /\ UNCHANGED semVars)
  /\ \A t \in AppTasks : WF_vars(OSSchedUnlock(t) /\ UNCHANGED semVars)
  /\ \A t \in AppTasks : WF_vars(OSSemPendWake(t))

-----------------------------------------------------------------------------
(* Properties.                                                              *)

\* The lists of the events and the control blocks of the tasks agree
\* (OS_EventTaskWait, OS_EventTaskRdy, OS_EventTO): a task is on the list of
\* exactly the event that its control block names, and that event is a live
\* semaphore, the one of its unfinished OSSemPend, and its status says so.
WaitListsAgree ==
  \A t \in Tasks, e \in Events :
    /\ t \in OSEventTbl[e] <=> OSTCBEventPtr[t] = e
    /\ t \in OSEventTbl[e] =>
         Live(e) /\ Pending(t) /\ pevent[t] = e /\ "sem" \in OSTCBStat[t]

\* OSSemPost and OSSemPend never leave a count that a waiting task could
\* have taken, whatever the timeouts, deletions and suspensions in between.
NoCountWhileWaiting ==
  \A e \in Events : Live(e) /\ OSEventTbl[e] # {} => OSEventCnt[e] = 0

\* A suspended task is not ready, whatever arrives for it meanwhile
\* (OSTimeTick, OS_EventTaskRdy, OSTaskSuspend, OSTaskResume).
SuspendedNotReady ==
  \A t \in Tasks : "suspend" \in OSTCBStat[t] => t \notin OSRdyTbl

\* OSTCBCur is "currently running TCB" and OSPrioCur "priority of current
\* task" (ucos_ii.h): once PendSV_Handler has run, they are the same task.
CurrentTaskAgrees == ~pendSV => OSTCBCur = OSPrioCur

\* The task that executes its own code is the highest one ready to run,
\* unless the scheduler is locked (OS_Sched, OSIntExit, PendSV_Handler).
HighestPriorityRuns ==
  OSLockNesting = 0 /\ ~pendSV /\ pc[OSTCBCur] \in {"app", "pendWake"}
    => OSTCBCur = HighestOf(OSRdyTbl)

\* A timeout cannot be missed: a task that pends with one, and that nobody
\* suspends, becomes ready again, with or without the event (OSSemPend,
\* OSTimeTick), whatever happens to the others.
TimedPendWakes ==
  \A t \in AppTasks \ Suspendable :
    (t \notin OSRdyTbl /\ timeout[t] > 0) ~> (t \in OSRdyTbl)

\* The first task, once its wait is over, is put on the CPU and returns from
\* its pend, whatever the other tasks and the interrupts do.
FirstTaskReturns ==
  LET first == HighestOf(AppTasks)
  IN  (Pending(first) /\ first \in OSRdyTbl) ~> (pc[first] = "app")

\* "If non-zero, your task will wait for the resource up to the amount of time
\* specified" (OSSemPend): a timed pend, once its task is not suspended, has
\* ticks left or is over.  OSTaskResume does not ready a task whose ticks had
\* run out before it was suspended.
TimedPendEnds ==
  \A t \in Tasks :
    Pending(t) /\ timeout[t] > 0 /\ "suspend" \notin OSTCBStat[t]
      => t \in OSRdyTbl \/ OSTCBDly[t] > 0

\* "Tasks that would normally expect the presence of the semaphore MUST check
\* the return code of OSSemPend()" (OSSemDel): a pend that a deletion ends
\* does not look like one that was given the semaphore.
DeletionNoticed ==
  [][\A t \in Tasks, e \in Events :
       t \in OSEventTbl[e] /\ ~Live(e)' => "sem" \in OSTCBStat'[t]]_vars

-----------------------------------------------------------------------------
(* The service that the semaphores implement.                               *)

\* Where the promise of SemService is in this state.
PhaseOf(t) ==
  IF ~Pending(t) THEN "idle"
  ELSE IF \E e \in Events : t \in OSEventTbl[e] THEN "waiting" ELSE "granted"

Service == INSTANCE SemService WITH
  Callers <- AppTasks,
  Sems <- Events,
  MaxTokens <- MaxCnt,
  live <- {e \in Events : Live(e)},
  tokens <- OSEventCnt,
  waiters <- OSEventTbl,
  phase <- [t \in AppTasks |-> PhaseOf(t)],
  result <- [t \in AppTasks |-> err[t]]

\* The kernel keeps the promise of SemService: no event is handed out twice or
\* lost between a post, a timeout that has already expired, a deletion and
\* the moment the task runs again and reads its status.
ImplementsService == Service!SSpec
=============================================================================
