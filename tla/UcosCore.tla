------------------------------- MODULE UcosCore -------------------------------
(***************************************************************************)
(* The scheduling core of uC/OS-II as this firmware builds it: the ready   *)
(* list, the task control blocks, the event wait lists, the system tick,   *)
(* OSTimeDly, OSTaskSuspend/OSTaskResume and OSSchedLock/OSSchedUnlock     *)
(* (OS_CORE.C, OS_TIME.C, OS_TASK.C), over the Cortex-M3 port of           *)
(* os_cpu_a.asm, in which a context switch is not done by OS_Sched itself: *)
(* OSCtxSw only sets the PendSV exception pending, and PendSV_Handler does *)
(* the switch when the critical section is left and no interrupt of a      *)
(* higher priority is waiting.                                             *)
(*                                                                         *)
(* A step is one critical section (OS_ENTER_CRITICAL ... OS_EXIT_CRITICAL) *)
(* of the running task, or one interrupt handler, or PendSV_Handler.       *)
(* uC/OS-II identifies a task with its priority, and so does this module:  *)
(* a smaller number is a higher priority.  The bit table OSRdyTbl with its *)
(* group byte is the set of ready priorities, the table of an event is the *)
(* set of the waiting ones.                                                *)
(*                                                                         *)
(* UcosSem adds the semaphores and UcosQueue the message queues.           *)
(***************************************************************************)
EXTENDS Naturals

CONSTANTS
  Tasks,        \* the priorities of the created tasks
  Idle,         \* OS_IDLE_PRIO, the priority of OS_TaskIdle
  Events,       \* the event control blocks, OSEventTbl[OS_MAX_EVENTS]
  NoEvent,      \* the null OS_EVENT pointer
  MaxTicks,     \* bound: the longest timeout or delay that is asked for
  MaxLock,      \* bound: the deepest nesting of OSSchedLock (255 in the code)
  Suspendable,  \* the tasks that a task may suspend (none in this firmware)
  Preempts      \* the interrupts with a higher NVIC priority than PendSV

ASSUME TasksAssumption ==
  /\ Tasks \subseteq Nat
  /\ Idle \in Tasks
  /\ \A t \in Tasks : t <= Idle

ASSUME EventsAssumption == NoEvent \notin Events

ASSUME BoundsAssumption == MaxTicks \in Nat /\ MaxLock \in Nat

ASSUME UsersAssumption ==
  /\ Suspendable \subseteq Tasks \ {Idle}
  /\ Preempts \subseteq {"tick", "irq"}

VARIABLES
  OSRdyTbl,       \* OSRdyGrp, OSRdyTbl: the tasks that are ready to run
  OSTCBStat,      \* per task: the bits of OSTCBStat, {} is OS_STAT_RDY
  OSTCBDly,       \* per task: the ticks left of a delay or of a timeout
  OSTCBEventPtr,  \* per task: the event it waits for
  OSEventTbl,     \* per event: OSEventGrp, OSEventTbl, the tasks waiting
  OSTCBCur,       \* the task whose context is on the CPU
  OSPrioCur,      \* what the kernel takes for the priority of that task
  OSTCBHighRdy,   \* the task that PendSV_Handler is to switch to
  OSPrioHighRdy,  \* the highest ready priority when last looked up
  OSLockNesting,
  pendSV,         \* the PendSV exception is pending
  pc,             \* per task: how far it is in a kernel service
  pevent,         \* per task: the argument of the pend it executes
  timeout         \* per task: likewise, 0 means to wait forever

readyVars == <<OSRdyTbl, OSTCBStat, OSTCBDly>>
eventVars == <<OSTCBEventPtr, OSEventTbl>>
switchVars == <<OSTCBHighRdy, OSPrioHighRdy, pendSV>>
cpuVars == <<OSTCBCur, OSPrioCur, switchVars>>
frameVars == <<pevent, timeout>>
coreVars ==
  <<readyVars, eventVars, cpuVars, OSLockNesting, pc, frameVars>>

AppTasks == Tasks \ {Idle}
Places == {"app", "sched", "pendSched", "pendWake"}
StatBits == {"sem", "q", "suspend"}

CoreTypeOK ==
  /\ OSRdyTbl \subseteq Tasks
  /\ OSTCBStat \in [Tasks -> SUBSET StatBits]
  /\ OSTCBDly \in [Tasks -> 0 .. MaxTicks]
  /\ OSTCBEventPtr \in [Tasks -> Events \cup {NoEvent}]
  /\ OSEventTbl \in [Events -> SUBSET Tasks]
  /\ {OSTCBCur, OSPrioCur, OSTCBHighRdy, OSPrioHighRdy} \subseteq Tasks
  /\ OSLockNesting \in 0 .. MaxLock
  /\ pendSV \in BOOLEAN
  /\ pc \in [Tasks -> Places]
  /\ pevent \in [Tasks -> Events \cup {NoEvent}]
  /\ timeout \in [Tasks -> 0 .. MaxTicks]

-----------------------------------------------------------------------------
(* Who may take the next step.                                              *)

\* The task on the CPU executes only while no PendSV is pending: with
\* interrupts enabled the exception is taken before its next instruction.
Runs(t) == OSTCBCur = t /\ ~pendSV

\* The running task is in its own code and may call a service of the kernel.
Calls(t) == t \in AppTasks /\ Runs(t) /\ pc[t] = "app"

\* It is between the two critical sections of a pend.
Pending(t) == pc[t] \in {"pendSched", "pendWake"}

\* A service that blocks must not be called with the scheduler locked.
CallsBlocking(t) == Calls(t) /\ OSLockNesting = 0

\* An interrupt is taken before a pending PendSV only if its priority is
\* higher.
CanInterrupt(source) == pendSV => source \in Preempts

-----------------------------------------------------------------------------
(* Helpers of the services.                                                 *)

\* OSUnMapTbl: the highest priority of a table, its smallest number.
HighestOf(S) == CHOOSE p \in S : \A q \in S : p <= q

\* OS_Sched on the ready list rdy: when the highest ready priority is not the
\* current one, choose it and set PendSV pending.  When it is the current
\* one, OSPrioHighRdy is written all the same.
OS_Sched(rdy) ==
  LET p == HighestOf(rdy)
  IN  IF OSLockNesting > 0
      THEN UNCHANGED switchVars
      ELSE /\ OSPrioHighRdy' = p
           /\ IF p # OSPrioCur
              THEN OSTCBHighRdy' = p /\ pendSV' = TRUE
              ELSE UNCHANGED <<OSTCBHighRdy, pendSV>>

\* OSIntExit, at the end of SysTick_Handler, decides likewise.
OSIntExit(rdy) == OS_Sched(rdy)

\* The running task leaves the ready list and enters the list of e, for n
\* ticks (0: forever); bit says what kind of event it waits for.
OS_EventTaskWait(t, e, bit, n) ==
  /\ OSTCBStat' = [OSTCBStat EXCEPT ![t] = @ \cup {bit}]
  /\ OSTCBDly' = [OSTCBDly EXCEPT ![t] = n]
  /\ OSTCBEventPtr' = [OSTCBEventPtr EXCEPT ![t] = e]
  /\ OSRdyTbl' = OSRdyTbl \ {t}
  /\ OSEventTbl' = [OSEventTbl EXCEPT ![e] = @ \cup {t}]

\* The tasks W leave the list of e with the event granted: their timeout is
\* cancelled, and each becomes ready unless it is also suspended.
OS_EventTaskRdy(e, W, bit) ==
  /\ OSEventTbl' = [OSEventTbl EXCEPT ![e] = @ \ W]
  /\ OSTCBDly' = [t \in Tasks |-> IF t \in W THEN 0 ELSE OSTCBDly[t]]
  /\ OSTCBEventPtr' =
       [t \in Tasks |-> IF t \in W THEN NoEvent ELSE OSTCBEventPtr[t]]
  /\ OSTCBStat' =
       [t \in Tasks |-> IF t \in W THEN OSTCBStat[t] \ {bit} ELSE OSTCBStat[t]]
  /\ OSRdyTbl' = OSRdyTbl \cup {t \in W : OSTCBStat[t] \subseteq {bit}}

\* Mutant: the task that has timed out stays on the list.
OS_EventTOKeepsList(t, e) ==
  /\ OSTCBStat' = [OSTCBStat EXCEPT ![t] = {}]
  /\ OSTCBEventPtr' = [OSTCBEventPtr EXCEPT ![t] = NoEvent]
  /\ UNCHANGED OSEventTbl

\* The running task gives up waiting for e.
OS_EventTO(t, e) ==
  /\ OSEventTbl' = [OSEventTbl EXCEPT ![e] = @ \ {t}]
  /\ OSTCBStat' = [OSTCBStat EXCEPT ![t] = {}]
  /\ OSTCBEventPtr' = [OSTCBEventPtr EXCEPT ![t] = NoEvent]

Goto(t, place) == pc' = [pc EXCEPT ![t] = place]

-----------------------------------------------------------------------------
(* Steps of the running task.                                               *)

\* The call of OS_Sched at the end of a service.
TaskSched(t) ==
  /\ Runs(t)
  /\ \/ pc[t] = "sched" /\ Goto(t, "app")
     \/ pc[t] = "pendSched" /\ Goto(t, "pendWake")
  /\ OS_Sched(OSRdyTbl)
  /\ UNCHANGED <<readyVars, eventVars, OSTCBCur, OSPrioCur, OSLockNesting,
                 frameVars>>

OSTimeDly(t, n) ==
  /\ CallsBlocking(t)
  /\ OSRdyTbl' = OSRdyTbl \ {t}
  /\ OSTCBDly' = [OSTCBDly EXCEPT ![t] = n]
  /\ Goto(t, "sched")
  /\ UNCHANGED <<OSTCBStat, eventVars, cpuVars, OSLockNesting, frameVars>>

\* OSTaskSuspend of another task does not call OS_Sched, of oneself it does.
OSTaskSuspend(t, u) ==
  /\ IF u = t THEN CallsBlocking(t) ELSE Calls(t)
  /\ OSRdyTbl' = OSRdyTbl \ {u}
  /\ OSTCBStat' = [OSTCBStat EXCEPT ![u] = @ \cup {"suspend"}]
  /\ Goto(t, IF u = t THEN "sched" ELSE "app")
  /\ UNCHANGED <<OSTCBDly, eventVars, cpuVars, OSLockNesting, frameVars>>

\* The resumed task becomes ready only if nothing else holds it.
OSTaskResume(t, u) ==
  LET readied == OSTCBStat[u] = {"suspend"} /\ OSTCBDly[u] = 0
  IN  /\ Calls(t)
      /\ "suspend" \in OSTCBStat[u]
      /\ OSTCBStat' = [OSTCBStat EXCEPT ![u] = @ \ {"suspend"}]
      /\ OSRdyTbl' = IF readied THEN OSRdyTbl \cup {u} ELSE OSRdyTbl
      /\ Goto(t, IF readied THEN "sched" ELSE "app")
      /\ UNCHANGED <<OSTCBDly, eventVars, cpuVars, OSLockNesting, frameVars>>

OSSchedLock(t) ==
  /\ Calls(t)
  /\ OSLockNesting < MaxLock
  /\ OSLockNesting' = OSLockNesting + 1
  /\ UNCHANGED <<readyVars, eventVars, cpuVars, pc, frameVars>>

OSSchedUnlock(t) ==
  /\ Calls(t)
  /\ OSLockNesting > 0
  /\ OSLockNesting' = OSLockNesting - 1
  /\ Goto(t, IF OSLockNesting = 1 THEN "sched" ELSE "app")
  /\ UNCHANGED <<readyVars, eventVars, cpuVars, frameVars>>

-----------------------------------------------------------------------------
(* Exceptions.                                                              *)

\* Mutant: the suspension is not looked at.
ExpiredAnyway == {t \in Tasks : OSTCBDly[t] = 1}

\* Mutant: a task with any status bit is left alone, as if suspended.
ExpiredDelays == {t \in Tasks : OSTCBDly[t] = 1 /\ OSTCBStat[t] = {}}

\* The tasks whose delay or timeout ends with this tick.  A suspended one
\* keeps its last tick until it is resumed.
Expired ==
  {t \in Tasks : OSTCBDly[t] = 1 /\ "suspend" \notin OSTCBStat[t]}

\* Mutant: the handler returns without OSIntExit.
OSTimeTickNoExit ==
  /\ CanInterrupt("tick")
  /\ OSTCBDly' = [t \in Tasks |->
                    IF OSTCBDly[t] > 1 THEN OSTCBDly[t] - 1
                    ELSE IF t \in Expired THEN 0 ELSE OSTCBDly[t]]
  /\ OSRdyTbl' = OSRdyTbl \cup Expired
  /\ UNCHANGED <<OSTCBStat, eventVars, cpuVars, OSLockNesting, pc, frameVars>>

\* SysTick_Handler: OSIntEnter, OSTimeTick, OSIntExit.
OSTimeTick ==
  /\ CanInterrupt("tick")
  /\ OSTCBDly' = [t \in Tasks |->
                    IF OSTCBDly[t] > 1 THEN OSTCBDly[t] - 1
                    ELSE IF t \in Expired THEN 0 ELSE OSTCBDly[t]]
  /\ OSRdyTbl' = OSRdyTbl \cup Expired
  /\ OSIntExit(OSRdyTbl')
  /\ UNCHANGED <<OSTCBStat, eventVars, OSTCBCur, OSPrioCur, OSLockNesting, pc,
                 frameVars>>

\* Mutant: OSPrioCur is forgotten.
PendSV_HandlerTaskOnly ==
  /\ pendSV
  /\ pendSV' = FALSE
  /\ OSTCBCur' = OSTCBHighRdy
  /\ UNCHANGED <<readyVars, eventVars, OSPrioCur, OSTCBHighRdy, OSPrioHighRdy,
                 OSLockNesting, pc, frameVars>>

\* The switch: OSPrioCur and OSTCBCur are loaded from the two variables that
\* OS_Sched and OSIntExit leave for it.
PendSV_Handler ==
  /\ pendSV
  /\ pendSV' = FALSE
  /\ OSPrioCur' = OSPrioHighRdy
  /\ OSTCBCur' = OSTCBHighRdy
  /\ UNCHANGED <<readyVars, eventVars, OSTCBHighRdy, OSPrioHighRdy,
                 OSLockNesting, pc, frameVars>>

-----------------------------------------------------------------------------
\* OSStart has chosen the first task and OSStartHighRdy set PendSV pending.
CoreInit ==
  /\ OSRdyTbl = Tasks
  /\ OSTCBStat = [t \in Tasks |-> {}]
  /\ OSTCBDly = [t \in Tasks |-> 0]
  /\ OSTCBEventPtr = [t \in Tasks |-> NoEvent]
  /\ OSEventTbl = [e \in Events |-> {}]
  /\ OSTCBCur = HighestOf(Tasks)
  /\ OSPrioCur = HighestOf(Tasks)
  /\ OSTCBHighRdy = HighestOf(Tasks)
  /\ OSPrioHighRdy = HighestOf(Tasks)
  /\ OSLockNesting = 0
  /\ pendSV = TRUE
  /\ pc = [t \in Tasks |-> "app"]
  /\ pevent = [t \in Tasks |-> NoEvent]
  /\ timeout = [t \in Tasks |-> 0]

CoreNext ==
  \/ \E t \in Tasks : TaskSched(t)
  \/ \E t \in AppTasks, n \in 1 .. MaxTicks : OSTimeDly(t, n)
  \/ \E t \in AppTasks, u \in Suspendable : OSTaskSuspend(t, u)
  \/ \E t \in AppTasks, u \in Suspendable : OSTaskResume(t, u)
  \/ \E t \in AppTasks : OSSchedLock(t) \/ OSSchedUnlock(t)
  \/ OSTimeTick
  \/ PendSV_Handler
=============================================================================
