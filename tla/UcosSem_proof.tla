----------------------------- MODULE UcosSem_proof ----------------------------
(***************************************************************************)
(* Theorems about UcosSem, for any set of tasks and events: its types, the *)
(* agreement of its tables, the context switch, and that it implements     *)
(* SemService.                                                             *)
(***************************************************************************)
EXTENDS UcosSem, WellFoundedInduction, TLAPS

(***************************************************************************)
(* The scheduling core, for any set of tasks and events: its types, and    *)
(* what one of its steps may do to the waiting tasks.                      *)
(***************************************************************************)

NatLess == {ss \in Nat \X Nat : ss[1] < ss[2]}

\* OSUnMapTbl finds a member: every nonempty table has a highest priority.
LEMMA HighestExists ==
  ASSUME NEW S, S \subseteq Nat, S # {}
  PROVE  HighestOf(S) \in S /\ \A q \in S : HighestOf(S) <= q
<1>1. IsWellFoundedOn(NatLess, Nat)
  BY NatLessThanWellFounded DEF OpToRel, NatLess
<1>2. PICK x \in S : \A y \in S : <<y, x>> \notin NatLess
  BY <1>1, WFMin
<1>3. \A y \in S : x <= y
  <2>1. SUFFICES ASSUME NEW y \in S, ~(x <= y) PROVE FALSE
    OBVIOUS
  <2>2. x \in Nat /\ y \in Nat /\ y < x
    BY <2>1
  <2>3. <<y, x>> \in Nat \X Nat /\ <<y, x>>[1] < <<y, x>>[2]
    BY <2>2
  <2>4. <<y, x>> \in NatLess
    BY <2>3 DEF NatLess
  <2>. QED  BY <2>4, <1>2
<1>. QED  BY <1>3 DEF HighestOf

\* OS_TaskIdle never blocks: it stays ready, in its own code, on no list.
IdleAwake ==
  /\ Idle \in OSRdyTbl
  /\ pc[Idle] = "app"

CoreTypeInv == CoreTypeOK /\ IdleAwake

\* Both the ready list and a list with a waiting task have a highest member.
LEMMA HighestReady ==
  ASSUME NEW rdy, rdy \subseteq Tasks, Idle \in rdy
  PROVE  HighestOf(rdy) \in rdy /\ HighestOf(rdy) \in Tasks
BY HighestExists, TasksAssumption

\* The task that OS_EventTaskRdy picks is on the waiting list.
LEMMA HighestWaiting ==
  ASSUME CoreTypeOK, NEW e \in Events, OSEventTbl[e] # {}
  PROVE  HighestOf(OSEventTbl[e]) \in OSEventTbl[e]
BY HighestExists, TasksAssumption DEF CoreTypeOK

\* CoreInit is typed.
LEMMA CoreInitType == CoreInit => CoreTypeInv
<1>. SUFFICES ASSUME CoreInit PROVE CoreTypeInv
  OBVIOUS
<1>1. HighestOf(Tasks) \in Tasks
  BY HighestReady, TasksAssumption
<1>. QED
  BY <1>1, TasksAssumption, EventsAssumption, BoundsAssumption
  DEF CoreInit, CoreTypeInv, CoreTypeOK, IdleAwake, Places

\* What OS_Sched writes has its type.
LEMMA SchedType ==
  ASSUME CoreTypeOK, NEW rdy, rdy \subseteq Tasks, Idle \in rdy, OS_Sched(rdy)
  PROVE  /\ {OSTCBHighRdy', OSPrioHighRdy'} \subseteq Tasks
         /\ pendSV' \in BOOLEAN
BY HighestReady DEF OS_Sched, CoreTypeOK, switchVars

\* What OS_EventTaskRdy writes has its type.
LEMMA TaskRdyType ==
  ASSUME CoreTypeOK, NEW e \in Events, NEW W \in SUBSET Tasks,
         NEW bit \in StatBits, OS_EventTaskRdy(e, W, bit)
  PROVE  /\ OSEventTbl' \in [Events -> SUBSET Tasks]
         /\ OSTCBDly' \in [Tasks -> 0 .. MaxTicks]
         /\ OSTCBEventPtr' \in [Tasks -> Events \cup {NoEvent}]
         /\ OSTCBStat' \in [Tasks -> SUBSET StatBits]
         /\ OSRdyTbl' \subseteq Tasks
         /\ OSRdyTbl \subseteq OSRdyTbl'
<1>1. \A t \in Tasks : OSTCBStat[t] \in SUBSET StatBits
  BY DEF CoreTypeOK
<1>2. OSTCBStat' \in [Tasks -> SUBSET StatBits]
  BY <1>1 DEF OS_EventTaskRdy
<1>3. OSTCBDly' \in [Tasks -> 0 .. MaxTicks]
  BY BoundsAssumption DEF OS_EventTaskRdy, CoreTypeOK
<1>. QED
  BY <1>2, <1>3 DEF OS_EventTaskRdy, CoreTypeOK

\* The steps of the scheduling core keep the types.
LEMMA CoreType ==
  ASSUME CoreTypeInv, CoreNext
  PROVE  CoreTypeInv'
<1>. USE DEF CoreTypeInv, IdleAwake, CoreTypeOK, Places, readyVars,
             eventVars, cpuVars, switchVars, frameVars
<1>1. ASSUME NEW t \in Tasks, TaskSched(t) PROVE CoreTypeInv'
  <2>1. OS_Sched(OSRdyTbl)
    BY <1>1 DEF TaskSched
  <2>2. pc' \in [Tasks -> Places] /\ pc'[Idle] = "app"
    <3>1. CASE pc[t] = "sched" /\ Goto(t, "app")
      BY <3>1, TasksAssumption DEF Goto
    <3>2. CASE pc[t] = "pendSched" /\ Goto(t, "pendWake")
      BY <3>2, TasksAssumption DEF Goto
    <3>. QED  BY <1>1, <3>1, <3>2 DEF TaskSched
  <2>. QED  BY <1>1, <2>1, <2>2, SchedType DEF TaskSched
<1>2. ASSUME NEW t \in AppTasks, NEW n \in 1 .. MaxTicks, OSTimeDly(t, n)
      PROVE CoreTypeInv'
  <2>1. t \in Tasks /\ t # Idle /\ n \in 0 .. MaxTicks
    BY BoundsAssumption DEF AppTasks
  <2>2. OSTCBDly' \in [Tasks -> 0 .. MaxTicks]
    BY <1>2, <2>1 DEF OSTimeDly
  <2>3. pc' \in [Tasks -> Places] /\ pc'[Idle] = "app"
    BY <1>2, <2>1, TasksAssumption DEF OSTimeDly, Goto
  <2>. QED
    BY <1>2, <2>1, <2>2, <2>3 DEF OSTimeDly
<1>3. ASSUME NEW t \in AppTasks, NEW u \in Suspendable, OSTaskSuspend(t, u)
      PROVE CoreTypeInv'
  BY <1>3, TasksAssumption, UsersAssumption
  DEF OSTaskSuspend, CallsBlocking, Calls, AppTasks, Goto, StatBits
<1>4. ASSUME NEW t \in AppTasks, NEW u \in Suspendable, OSTaskResume(t, u)
      PROVE CoreTypeInv'
  BY <1>4, TasksAssumption, UsersAssumption
  DEF OSTaskResume, Calls, AppTasks, Goto, StatBits
<1>5. ASSUME NEW t \in AppTasks, OSSchedLock(t) \/ OSSchedUnlock(t)
      PROVE CoreTypeInv'
  <2>1. t \in Tasks /\ t # Idle
    BY DEF AppTasks
  <2>2. CASE OSSchedLock(t)
    BY <2>2, BoundsAssumption DEF OSSchedLock
  <2>3. CASE OSSchedUnlock(t)
    <3>1. OSLockNesting' \in 0 .. MaxLock
      BY <2>3, BoundsAssumption DEF OSSchedUnlock
    <3>2. pc' \in [Tasks -> Places] /\ pc'[Idle] = "app"
      BY <2>1, <2>3 DEF OSSchedUnlock, Goto
    <3>. QED  BY <2>3, <3>1, <3>2 DEF OSSchedUnlock
  <2>. QED  BY <1>5, <2>2, <2>3
<1>6. CASE OSTimeTick
  <2>1. OSRdyTbl' \subseteq Tasks /\ Idle \in OSRdyTbl'
    BY <1>6 DEF OSTimeTick, Expired
  <2>2. OSTCBDly' \in [Tasks -> 0 .. MaxTicks]
    BY <1>6, BoundsAssumption DEF OSTimeTick
  <2>3. OS_Sched(OSRdyTbl')
    BY <1>6 DEF OSTimeTick, OSIntExit
  <2>. QED  BY <1>6, <2>1, <2>2, <2>3, SchedType DEF OSTimeTick
<1>7. CASE PendSV_Handler
  BY <1>7 DEF PendSV_Handler
<1>. QED  BY <1>1, <1>2, <1>3, <1>4, <1>5, <1>6, <1>7 DEF CoreNext

\* What a step of the core may do to the waiting tasks: nothing to the lists
\* and to the pends, and nothing to a status but setting or clearing its
\* suspension.
LEMMA CoreKeepsWaits ==
  ASSUME CoreTypeOK, CoreNext
  PROVE  /\ UNCHANGED <<eventVars, frameVars>>
         /\ \A t \in Tasks :
              /\ Pending(t)' <=> Pending(t)
              /\ OSTCBStat'[t] \ {"suspend"} = OSTCBStat[t] \ {"suspend"}
BY UsersAssumption
DEF CoreTypeOK, AppTasks, Pending, Goto, Calls, CallsBlocking, CoreNext,
    TaskSched, OSTimeDly, OSTaskSuspend, OSTaskResume, OSSchedLock,
    OSSchedUnlock, OSTimeTick, PendSV_Handler, readyVars, eventVars, frameVars

\* Taking a lower task off the ready list leaves its highest task.
LEMMA HighestRemains ==
  ASSUME NEW R \in SUBSET Tasks, NEW t \in R, t = HighestOf(R),
         NEW u \in Tasks, u # t
  PROVE  HighestOf(R \ {u}) = t
<1>. DEFINE L == R \ {u}
<1>0. R \subseteq Nat /\ L \subseteq Nat /\ R # {} /\ t \in L /\ L # {}
  BY TasksAssumption
<1>1. \A q \in R : HighestOf(R) <= q
  BY <1>0, HighestExists
<1>2. HighestOf(L) \in L /\ \A q \in L : HighestOf(L) <= q
  BY <1>0, HighestExists
<1>3. t <= HighestOf(L) /\ HighestOf(L) <= t
  BY <1>0, <1>1, <1>2
<1>4. t \in Nat /\ HighestOf(L) \in Nat
  BY <1>0, <1>2
<1>. QED  BY <1>3, <1>4

(***************************************************************************)
(* The types of the semaphores.                                            *)
(***************************************************************************)

TypeInv == TypeOK /\ IdleAwake

\* Init is typed.
LEMMA InitType == Init => TypeInv
BY CoreInitType, SemAssumption DEF Init, TypeInv, TypeOK, CoreTypeInv

\* The critical section of OSSemPost keeps the types, in a task or not.
LEMMA SemPostType ==
  ASSUME TypeInv, NEW e \in Events, SemPost(e)
  PROVE  /\ OSEventTbl' \in [Events -> SUBSET Tasks]
         /\ OSTCBDly' \in [Tasks -> 0 .. MaxTicks]
         /\ OSTCBEventPtr' \in [Tasks -> Events \cup {NoEvent}]
         /\ OSTCBStat' \in [Tasks -> SUBSET StatBits]
         /\ OSRdyTbl' \subseteq Tasks
         /\ Idle \in OSRdyTbl'
         /\ OSEventCnt' \in [Events -> 0 .. MaxCnt]
<1>1. CASE OSEventTbl[e] # {}
  <2>1. {HighestOf(OSEventTbl[e])} \in SUBSET Tasks
    BY <1>1, HighestWaiting DEF TypeInv, TypeOK, CoreTypeOK
  <2>2. OS_EventTaskRdy(e, {HighestOf(OSEventTbl[e])}, "sem")
    BY <1>1 DEF SemPost
  <2>. QED
    BY <1>1, <2>1, <2>2, TaskRdyType
    DEF SemPost, TypeInv, TypeOK, IdleAwake, StatBits
<1>2. CASE OSEventTbl[e] = {}
  BY <1>2, SemAssumption
  DEF SemPost, readyVars, eventVars, TypeInv, TypeOK, CoreTypeOK, IdleAwake
<1>. QED  BY <1>1, <1>2

\* Type correctness is kept by the steps of the scheduling core ...
LEMMA CoreStepType ==
  ASSUME TypeInv, CoreNext, UNCHANGED semVars
  PROVE  TypeInv'
BY CoreType DEF TypeInv, TypeOK, CoreTypeInv, semVars

\* ... by the services of the semaphores ...
LEMMA TaskType ==
  ASSUME TypeInv, NEW t \in AppTasks, TaskNext(t)
  PROVE  TypeInv'
<1>. USE DEF TypeInv, IdleAwake, TypeOK, CoreTypeOK, Places, semVars, readyVars,
             eventVars, cpuVars, switchVars, frameVars, coreVars, AppTasks
<1>0. t \in Tasks /\ t # Idle
  OBVIOUS
<1>1. ASSUME NEW e \in Events, NEW c \in 0 .. MaxCnt, OSSemCreate(t, e, c)
      PROVE TypeInv'
  BY <1>1 DEF OSSemCreate
<1>2. ASSUME NEW e \in Events, OSSemDelNoPend(t, e) PROVE TypeInv'
  BY <1>2 DEF OSSemDelNoPend
<1>3. ASSUME NEW e \in Events, OSSemDelAlways(t, e) PROVE TypeInv'
  <2>1. OS_EventTaskRdy(e, OSEventTbl[e], "sem")
    BY <1>3 DEF OSSemDelAlways
  <2>2. OSEventTbl[e] \in SUBSET Tasks /\ "sem" \in StatBits
    BY DEF StatBits
  <2>. QED
    BY <1>0, <1>3, <2>1, <2>2, TaskRdyType DEF OSSemDelAlways, Goto
<1>4. ASSUME NEW e \in Events, OSSemAccept(t, e) PROVE TypeInv'
  BY <1>4, SemAssumption DEF OSSemAccept
<1>5. ASSUME NEW e \in Events, OSSemPendTake(t, e) PROVE TypeInv'
  BY <1>5, SemAssumption DEF OSSemPendTake
<1>6. ASSUME NEW e \in Events, NEW n \in 0 .. MaxTicks, OSSemPendWait(t, e, n)
      PROVE TypeInv'
  BY <1>0, <1>6 DEF OSSemPendWait, OS_EventTaskWait, Goto, StatBits
<1>7. CASE OSSemPendWake(t)
  BY <1>0, <1>7, BoundsAssumption
  DEF OSSemPendWake, OS_EventTO, Goto, StatBits
<1>8. ASSUME NEW e \in Events, OSSemPost(t, e) PROVE TypeInv'
  BY <1>0, <1>8, SemPostType DEF OSSemPost, Goto
<1>. QED
  BY <1>1, <1>2, <1>3, <1>4, <1>5, <1>6, <1>7, <1>8 DEF TaskNext

\* ... and by the interrupt handler.
LEMMA IrqType ==
  ASSUME TypeInv, NEW e \in Events, IrqSemPost(e)
  PROVE  TypeInv'
<1>. USE DEF TypeInv, IdleAwake, TypeOK, CoreTypeOK, switchVars, frameVars
<1>1. SemPost(e)
  BY DEF IrqSemPost
<1>2. OSRdyTbl' \subseteq Tasks /\ Idle \in OSRdyTbl'
  BY <1>1, SemPostType
<1>3. /\ {OSTCBHighRdy', OSPrioHighRdy'} \subseteq Tasks
      /\ pendSV' \in BOOLEAN
  BY <1>2, SchedType DEF IrqSemPost
<1>. QED  BY <1>1, <1>3, SemPostType DEF IrqSemPost

\* Every step keeps the types.
LEMMA NextType == TypeInv /\ [Next]_vars => TypeInv'
<1>. SUFFICES ASSUME TypeInv, [Next]_vars PROVE TypeInv'
  OBVIOUS
<1>1. CASE UNCHANGED vars
  BY <1>1
  DEF vars, coreVars, semVars, readyVars, eventVars, cpuVars, switchVars,
      frameVars, TypeInv, TypeOK, CoreTypeOK, IdleAwake
<1>2. CASE Next
  BY <1>2, CoreStepType, TaskType, IrqType, SemAssumption DEF Next
<1>. QED  BY <1>1, <1>2

\* UcosSem is type correct, whatever the tasks, the priorities of the
\* interrupts and the bounds.
THEOREM TypeCorrect == Spec => []TypeOK
<1>1. TypeInv => TypeOK
  BY DEF TypeInv
<1>. QED  BY <1>1, InitType, NextType, PTL DEF Spec

-----------------------------------------------------------------------------
(* The wait lists.  The three invariants are proved together: a post may    *)
(* only be counted if nobody waits, which the agreement of the lists with   *)
(* the control blocks makes true of a semaphore that has just been created. *)

SafeInv ==
  /\ TypeInv
  /\ WaitListsAgree
  /\ NoCountWhileWaiting
  /\ SuspendedNotReady

\* The tasks that OS_EventTaskRdy lets go leave the list and nothing else
\* about the lists changes.
LEMMA TaskRdyLists ==
  ASSUME SafeInv, NEW e \in Events, NEW W \in SUBSET OSEventTbl[e],
         OS_EventTaskRdy(e, W, "sem")
  PROVE  /\ \A t \in Tasks, f \in Events :
              /\ t \in OSEventTbl'[f] <=> OSTCBEventPtr'[t] = f
              /\ t \in OSEventTbl'[f] =>
                   t \in OSEventTbl[f] /\ OSTCBStat'[t] = OSTCBStat[t]
         /\ \A f \in Events : OSEventTbl'[f] \subseteq OSEventTbl[f]
         /\ SuspendedNotReady'
<1>. USE DEF SafeInv, TypeInv, TypeOK, CoreTypeOK
<1>1. \A f \in Events :
        OSEventTbl'[f] = IF f = e THEN OSEventTbl[e] \ W ELSE OSEventTbl[f]
  BY DEF OS_EventTaskRdy
<1>2. \A t \in Tasks :
        OSTCBEventPtr'[t] = IF t \in W THEN NoEvent ELSE OSTCBEventPtr[t]
  BY DEF OS_EventTaskRdy
<1>3. \A t \in Tasks :
        OSTCBStat'[t] = IF t \in W THEN OSTCBStat[t] \ {"sem"} ELSE OSTCBStat[t]
  BY DEF OS_EventTaskRdy
<1>4. \A t \in W : OSTCBEventPtr[t] = e
  BY DEF WaitListsAgree
<1>5. ASSUME NEW t \in Tasks, NEW f \in Events
      PROVE /\ t \in OSEventTbl'[f] <=> OSTCBEventPtr'[t] = f
            /\ t \in OSEventTbl'[f] =>
                 t \in OSEventTbl[f] /\ OSTCBStat'[t] = OSTCBStat[t]
  <2>1. t \in OSEventTbl[f] <=> OSTCBEventPtr[t] = f
    BY DEF WaitListsAgree
  <2>2. CASE t \in W
    <3>1. OSTCBEventPtr'[t] = NoEvent /\ NoEvent # f
      BY <1>2, <2>2, EventsAssumption
    <3>2. t \notin OSEventTbl'[f]
      BY <1>1, <1>4, <2>1, <2>2
    <3>. QED  BY <3>1, <3>2
  <2>3. CASE t \notin W
    BY <1>1, <1>2, <1>3, <2>1, <2>3
  <2>. QED  BY <2>2, <2>3
<1>6. SuspendedNotReady'
  BY <1>3 DEF OS_EventTaskRdy, SuspendedNotReady
<1>. QED  BY <1>1, <1>5, <1>6

\* A task in its own code is on no list.
LEMMA CallerWaitsNot ==
  ASSUME SafeInv, NEW t \in AppTasks, Calls(t), NEW e \in Events
  PROVE  t \notin OSEventTbl[e] /\ OSTCBEventPtr[t] # e
BY DEF SafeInv, WaitListsAgree, Calls, Pending, AppTasks

\* The invariant holds initially.
LEMMA InitSafe == Init => SafeInv
<1>. SUFFICES ASSUME Init PROVE SafeInv
  OBVIOUS
<1>1. WaitListsAgree /\ NoCountWhileWaiting /\ SuspendedNotReady
  BY EventsAssumption
  DEF Init, CoreInit, WaitListsAgree, NoCountWhileWaiting, SuspendedNotReady
<1>. QED  BY <1>1, InitType DEF SafeInv

\* The steps of the core leave the lists alone, and what they make ready is
\* not suspended.
LEMMA CoreSafe ==
  ASSUME SafeInv, CoreNext, UNCHANGED semVars
  PROVE  SafeInv'
<1>. USE DEF SafeInv, semVars
<1>t. CoreTypeOK
  BY DEF TypeInv, TypeOK
<1>0. TypeInv'
  BY CoreStepType
<1>1. /\ UNCHANGED <<OSEventTbl, OSTCBEventPtr, pevent>>
      /\ \A t \in Tasks :
           /\ Pending(t)' <=> Pending(t)
           /\ "sem" \in OSTCBStat'[t] <=> "sem" \in OSTCBStat[t]
  BY <1>t, CoreKeepsWaits DEF eventVars, frameVars
<1>2. WaitListsAgree' /\ NoCountWhileWaiting'
  BY <1>1 DEF WaitListsAgree, NoCountWhileWaiting, Live
<1>3. SuspendedNotReady'
  BY <1>t DEF CoreNext, TaskSched, OSTimeDly, OSTaskSuspend, OSTaskResume,
              OSSchedLock, OSSchedUnlock, OSTimeTick, Expired, PendSV_Handler,
              readyVars, CoreTypeOK, SuspendedNotReady
<1>. QED  BY <1>0, <1>2, <1>3

\* The critical section of OSSemPost.
LEMMA SemPostSafe ==
  ASSUME SafeInv, NEW e \in Events, SemPost(e), Live(e),
         UNCHANGED <<OSEventType, pevent>>,
         \A t \in Tasks : Pending(t) => Pending(t)'
  PROVE  WaitListsAgree' /\ NoCountWhileWaiting' /\ SuspendedNotReady'
<1>1. CASE OSEventTbl[e] # {}
  <2>1. {HighestOf(OSEventTbl[e])} \in SUBSET OSEventTbl[e]
    BY <1>1, HighestWaiting DEF SafeInv, TypeInv, TypeOK
  <2>2. OS_EventTaskRdy(e, {HighestOf(OSEventTbl[e])}, "sem")
        /\ UNCHANGED OSEventCnt
    BY <1>1 DEF SemPost
  <2>. QED
    BY <2>1, <2>2, TaskRdyLists
    DEF SafeInv, WaitListsAgree, NoCountWhileWaiting, Live
<1>2. CASE OSEventTbl[e] = {}
  <2>1. \A f \in Events : f # e => OSEventCnt'[f] = OSEventCnt[f]
    BY <1>2 DEF SemPost, SafeInv, TypeInv, TypeOK
  <2>2. UNCHANGED <<readyVars, eventVars>>
    BY <1>2 DEF SemPost
  <2>. QED
    BY <1>2, <2>1, <2>2
    DEF readyVars, eventVars, SafeInv, WaitListsAgree, NoCountWhileWaiting,
        SuspendedNotReady, Live
<1>. QED  BY <1>1, <1>2

\* The services of the semaphores.
LEMMA TaskSafe ==
  ASSUME SafeInv, NEW t \in AppTasks, TaskNext(t)
  PROVE  SafeInv'
<1>. DEFINE Safe == WaitListsAgree /\ NoCountWhileWaiting /\ SuspendedNotReady
<1>. USE DEF SafeInv, readyVars, eventVars, frameVars, coreVars
<1>0. TypeInv'
  BY TaskType
<1>. SUFFICES Safe'
  BY <1>0
<1>t. TypeOK /\ t \in Tasks
  BY DEF TypeInv, AppTasks
<1>w. ASSUME Calls(t), NEW e \in Events
      PROVE t \notin OSEventTbl[e] /\ OSTCBEventPtr[t] # e
  BY <1>w, CallerWaitsNot
<1>1. ASSUME NEW e \in Events, NEW c \in 0 .. MaxCnt, OSSemCreate(t, e, c)
      PROVE Safe'
  <2>1. OSEventTbl[e] = {}
    BY <1>1, <1>t DEF OSSemCreate, WaitListsAgree, Live, TypeOK, CoreTypeOK
  <2>2. OSEventTbl' = OSEventTbl
    BY <1>1, <1>t, <2>1 DEF OSSemCreate, TypeOK, CoreTypeOK
  <2>3. \A f \in Events : /\ Live(f) => Live(f)'
                          /\ f # e => OSEventCnt'[f] = OSEventCnt[f]
                          /\ f # e => (Live(f)' <=> Live(f))
    BY <1>1, <1>t DEF OSSemCreate, Live, TypeOK
  <2>. QED
    BY <1>1, <2>1, <2>2, <2>3 DEF OSSemCreate, WaitListsAgree, Pending,
                                  NoCountWhileWaiting, SuspendedNotReady
<1>2. ASSUME NEW e \in Events, OSSemDelNoPend(t, e) PROVE Safe'
  <2>1. \A f \in Events : f # e => (Live(f)' <=> Live(f))
    BY <1>2, <1>t DEF OSSemDelNoPend, Live, TypeOK
  <2>2. ~Live(e)'
    BY <1>2, <1>t DEF OSSemDelNoPend, Live, TypeOK
  <2>. QED
    BY <1>2, <2>1, <2>2 DEF OSSemDelNoPend, WaitListsAgree, Pending,
                            NoCountWhileWaiting, SuspendedNotReady
<1>3. ASSUME NEW e \in Events, OSSemDelAlways(t, e) PROVE Safe'
  <2>1. OSEventTbl[e] \in SUBSET OSEventTbl[e]
        /\ OS_EventTaskRdy(e, OSEventTbl[e], "sem")
    BY <1>3 DEF OSSemDelAlways
  <2>2. OSEventTbl'[e] = {}
    BY <2>1, <1>t DEF OS_EventTaskRdy, TypeOK, CoreTypeOK
  <2>3. \A f \in Events : f # e => (Live(f)' <=> Live(f))
    BY <1>3, <1>t DEF OSSemDelAlways, Live, TypeOK
  <2>4. \A u \in Tasks : Pending(u) => Pending(u)'
    BY <1>3, <1>t DEF OSSemDelAlways, Calls, Goto, Pending, TypeOK, CoreTypeOK
  <2>. QED
    BY <1>3, <2>1, <2>2, <2>3, <2>4, TaskRdyLists
    DEF OSSemDelAlways, WaitListsAgree, NoCountWhileWaiting, Live
<1>4. ASSUME NEW e \in Events, OSSemAccept(t, e) PROVE Safe'
  BY <1>4, <1>t DEF OSSemAccept, WaitListsAgree, Live, Pending,
                    NoCountWhileWaiting, SuspendedNotReady, TypeOK
<1>5. ASSUME NEW e \in Events, OSSemPendTake(t, e) PROVE Safe'
  BY <1>5, <1>t DEF OSSemPendTake, WaitListsAgree, Live, Pending,
                    NoCountWhileWaiting, SuspendedNotReady, TypeOK
<1>6. ASSUME NEW e \in Events, NEW n \in 0 .. MaxTicks, OSSemPendWait(t, e, n)
      PROVE Safe'
  <2>1. Calls(t)
    BY <1>6 DEF OSSemPendWait, CallsBlocking
  <2>2. \A f \in Events :
          OSEventTbl'[f] = IF f = e THEN OSEventTbl[e] \cup {t} ELSE OSEventTbl[f]
    BY <1>6, <1>t DEF OSSemPendWait, OS_EventTaskWait, TypeOK, CoreTypeOK
  <2>3. \A u \in Tasks :
          /\ OSTCBEventPtr'[u] = IF u = t THEN e ELSE OSTCBEventPtr[u]
          /\ OSTCBStat'[u] = IF u = t THEN OSTCBStat[t] \cup {"sem"} ELSE OSTCBStat[u]
          /\ pevent'[u] = IF u = t THEN e ELSE pevent[u]
          /\ Pending(u)' <=> u = t \/ Pending(u)
    BY <1>6, <1>t DEF OSSemPendWait, OS_EventTaskWait, Goto, Pending, TypeOK,
                      CoreTypeOK
  <2>4. WaitListsAgree'
    <3>. SUFFICES ASSUME NEW u \in Tasks, NEW f \in Events
                  PROVE /\ u \in OSEventTbl'[f] <=> OSTCBEventPtr'[u] = f
                        /\ u \in OSEventTbl'[f] =>
                             /\ Live(f)'
                             /\ Pending(u)'
                             /\ pevent'[u] = f
                             /\ "sem" \in OSTCBStat'[u]
      BY DEF WaitListsAgree
    <3>1. Live(f)' <=> Live(f)
      BY <1>6 DEF OSSemPendWait, Live
    <3>2. CASE u = t
      BY <1>6, <1>w, <2>1, <2>2, <2>3, <3>1, <3>2 DEF OSSemPendWait
    <3>3. CASE u # t
      BY <2>2, <2>3, <3>1, <3>3 DEF WaitListsAgree
    <3>. QED  BY <3>2, <3>3
  <2>5. NoCountWhileWaiting'
    BY <1>6, <2>2 DEF OSSemPendWait, NoCountWhileWaiting, Live
  <2>6. SuspendedNotReady'
    BY <1>6, <2>3 DEF OSSemPendWait, OS_EventTaskWait, SuspendedNotReady
  <2>. QED  BY <2>4, <2>5, <2>6
<1>7. CASE OSSemPendWake(t)
  <2>1. \A u \in Tasks : u # t =>
          /\ OSTCBEventPtr'[u] = OSTCBEventPtr[u]
          /\ OSTCBStat'[u] = OSTCBStat[u]
          /\ pevent'[u] = pevent[u]
          /\ Pending(u)' <=> Pending(u)
    BY <1>7, <1>t DEF OSSemPendWake, OS_EventTO, Goto, Pending, TypeOK,
                      CoreTypeOK
  <2>2. \A f \in Events :
          /\ t \notin OSEventTbl'[f]
          /\ OSEventTbl[f] \ {t} \subseteq OSEventTbl'[f]
          /\ OSEventTbl'[f] \subseteq OSEventTbl[f]
    BY <1>7, <1>t DEF OSSemPendWake, OS_EventTO, WaitListsAgree, TypeOK,
                      CoreTypeOK
  <2>3. OSTCBEventPtr'[t] = NoEvent
    BY <1>7, <1>t DEF OSSemPendWake, OS_EventTO, TypeOK, CoreTypeOK
  <2>4. OSTCBStat'[t] \subseteq OSTCBStat[t]
    BY <1>7, <1>t DEF OSSemPendWake, OS_EventTO, TypeOK, CoreTypeOK
  <2>5. WaitListsAgree'
    <3>. SUFFICES ASSUME NEW u \in Tasks, NEW f \in Events
                  PROVE /\ u \in OSEventTbl'[f] <=> OSTCBEventPtr'[u] = f
                        /\ u \in OSEventTbl'[f] =>
                             /\ Live(f)'
                             /\ Pending(u)'
                             /\ pevent'[u] = f
                             /\ "sem" \in OSTCBStat'[u]
      BY DEF WaitListsAgree
    <3>1. Live(f)' <=> Live(f)
      BY <1>7 DEF OSSemPendWake, Live
    <3>2. CASE u = t
      BY <2>2, <2>3, <3>2, EventsAssumption
    <3>3. CASE u # t
      BY <2>1, <2>2, <3>1, <3>3 DEF WaitListsAgree
    <3>. QED  BY <3>2, <3>3
  <2>6. NoCountWhileWaiting'
    BY <1>7, <2>2 DEF OSSemPendWake, NoCountWhileWaiting, Live
  <2>7. SuspendedNotReady'
    BY <1>7, <2>1, <2>4 DEF OSSemPendWake, SuspendedNotReady
  <2>. QED  BY <2>5, <2>6, <2>7
<1>8. ASSUME NEW e \in Events, OSSemPost(t, e) PROVE Safe'
  <2>1. \A u \in Tasks : Pending(u) => Pending(u)'
    BY <1>8, <1>t DEF OSSemPost, Calls, Goto, Pending, TypeOK, CoreTypeOK
  <2>. QED
    BY <1>8, <2>1, SemPostSafe DEF OSSemPost
<1>. QED
  BY <1>1, <1>2, <1>3, <1>4, <1>5, <1>6, <1>7, <1>8 DEF TaskNext

\* A post from an interrupt handler keeps the invariant.
LEMMA IrqSafe ==
  ASSUME SafeInv, NEW e \in Events, IrqSemPost(e)
  PROVE  SafeInv'
<1>1. TypeInv'
  BY IrqType DEF SafeInv
<1>2. \A t \in Tasks : Pending(t) => Pending(t)'
  BY DEF IrqSemPost, Pending
<1>3. SemPost(e) /\ Live(e) /\ UNCHANGED <<OSEventType, pevent>>
  BY DEF IrqSemPost, frameVars
<1>. QED  BY <1>1, <1>2, <1>3, SemPostSafe DEF SafeInv

\* Every step keeps the invariant.
LEMMA NextSafe == SafeInv /\ [Next]_vars => SafeInv'
<1>. SUFFICES ASSUME SafeInv, [Next]_vars PROVE SafeInv'
  OBVIOUS
<1>1. CASE UNCHANGED vars
  <2>1. TypeInv'
    BY <1>1, NextType DEF SafeInv
  <2>. QED
    BY <1>1, <2>1
    DEF vars, coreVars, semVars, readyVars, eventVars, cpuVars, switchVars,
        frameVars, SafeInv, WaitListsAgree, NoCountWhileWaiting,
        SuspendedNotReady, Live, Pending
<1>2. CASE Next
  BY <1>2, CoreSafe, TaskSafe, IrqSafe, SemAssumption DEF Next
<1>. QED  BY <1>1, <1>2

\* The invariant holds in every behaviour.
LEMMA SafeAlways == Spec => []SafeInv
BY InitSafe, NextSafe, PTL DEF Spec

\* The wait lists and the control blocks of the tasks always agree, with any
\* interrupt taken before or after a pending PendSV.
THEOREM WaitListsCorrect == Spec => []WaitListsAgree
<1>1. SafeInv => WaitListsAgree
  BY DEF SafeInv
<1>. QED  BY <1>1, SafeAlways, PTL

\* No count is ever kept from a task that waits for it.
THEOREM CountsCorrect == Spec => []NoCountWhileWaiting
<1>1. SafeInv => NoCountWhileWaiting
  BY DEF SafeInv
<1>. QED  BY <1>1, SafeAlways, PTL

\* A suspended task is never put back on the ready list by anything but its
\* resumption.
THEOREM SuspensionCorrect == Spec => []SuspendedNotReady
<1>1. SafeInv => SuspendedNotReady
  BY DEF SafeInv
<1>. QED  BY <1>1, SafeAlways, PTL

-----------------------------------------------------------------------------
(* The context switch.  PendSV_Handler loads OSPrioCur and OSTCBCur from    *)
(* two variables that OS_Sched and OSIntExit do not always write together,  *)
(* so the kernel's idea of the current task is right as long as nothing     *)
(* runs between the request of a switch and the switch.                     *)

SwitchInv ==
  /\ CurrentTaskAgrees
  /\ HighestPriorityRuns
  /\ pendSV => /\ OSLockNesting = 0
               /\ OSTCBHighRdy = HighestOf(OSRdyTbl)
               /\ OSPrioHighRdy = HighestOf(OSRdyTbl)

\* The invariant about the switch holds initially.
LEMMA InitSwitch == Init => SwitchInv
BY DEF Init, CoreInit, SwitchInv, CurrentTaskAgrees, HighestPriorityRuns

\* OS_Sched on the new ready list, by the running task or by an interrupt
\* that found no switch pending.
LEMMA SchedSwitch ==
  ASSUME TypeInv, SwitchInv, ~pendSV, OS_Sched(OSRdyTbl'),
         UNCHANGED <<OSTCBCur, OSPrioCur, OSLockNesting>>
  PROVE  SwitchInv'
<1>1. OSLockNesting \in Nat
  BY BoundsAssumption DEF TypeInv, TypeOK, CoreTypeOK
<1>2. CASE OSLockNesting > 0
  BY <1>2 DEF OS_Sched, switchVars, SwitchInv, CurrentTaskAgrees,
              HighestPriorityRuns
<1>3. CASE OSLockNesting = 0
  BY <1>3 DEF OS_Sched, SwitchInv, CurrentTaskAgrees, HighestPriorityRuns
<1>. QED  BY <1>1, <1>2, <1>3

\* A step of the running task that neither changes the ready list nor the
\* place of the task, or that goes on to call OS_Sched.
LEMMA QuietSwitch ==
  ASSUME SwitchInv, ~pendSV, UNCHANGED cpuVars,
         \/ pc'[OSTCBCur] = "sched" \/ pc'[OSTCBCur] = "pendSched"
         \/ OSLockNesting' > 0 /\ OSLockNesting' \in Nat
         \/ /\ OSRdyTbl' = OSRdyTbl
            /\ OSLockNesting' = OSLockNesting
            /\ pc[OSTCBCur] \in {"app", "pendWake"}
  PROVE  SwitchInv'
<1>1. UNCHANGED <<OSTCBCur, OSPrioCur, OSTCBHighRdy, OSPrioHighRdy, pendSV>>
  BY DEF cpuVars, switchVars
<1>2. CurrentTaskAgrees'
  BY <1>1 DEF SwitchInv, CurrentTaskAgrees
<1>3. HighestPriorityRuns'
  BY <1>1 DEF SwitchInv, HighestPriorityRuns
<1>. QED  BY <1>1, <1>2, <1>3 DEF SwitchInv

\* The core, when no interrupt comes between the request and the switch.
LEMMA CoreSwitch ==
  ASSUME TypeInv, SwitchInv, Preempts = {}, CoreNext
  PROVE  SwitchInv'
<1>t. TypeOK /\ CoreTypeOK /\ OSLockNesting \in Nat
  BY BoundsAssumption DEF TypeInv, TypeOK, CoreTypeOK
<1>1. ASSUME NEW t \in Tasks, TaskSched(t) PROVE SwitchInv'
  BY <1>1, SchedSwitch DEF TaskSched, Runs, readyVars
<1>2. ASSUME NEW t \in AppTasks, NEW n \in 1 .. MaxTicks, OSTimeDly(t, n)
      PROVE SwitchInv'
  <2>1. OSTCBCur = t /\ ~pendSV /\ pc'[t] = "sched"
    BY <1>2, <1>t DEF OSTimeDly, CallsBlocking, Calls, Runs, Goto, CoreTypeOK,
                      AppTasks
  <2>. QED  BY <1>2, <2>1, QuietSwitch DEF OSTimeDly
<1>3. ASSUME NEW t \in AppTasks, NEW u \in Suspendable, OSTaskSuspend(t, u)
      PROVE SwitchInv'
  <2>1. OSTCBCur = t /\ ~pendSV /\ pc[t] = "app"
    BY <1>3 DEF OSTaskSuspend, CallsBlocking, Calls, Runs
  <2>2. UNCHANGED <<cpuVars, OSLockNesting>>
    BY <1>3 DEF OSTaskSuspend
  <2>3. CASE u = t
    <3>1. pc'[t] = "sched"
      BY <1>3, <1>t, <2>3 DEF OSTaskSuspend, Goto, CoreTypeOK, AppTasks
    <3>. QED  BY <2>1, <2>2, <3>1, QuietSwitch
  <2>4. CASE u # t /\ OSLockNesting > 0
    BY <1>t, <2>1, <2>2, <2>4, QuietSwitch
  <2>5. CASE u # t /\ OSLockNesting = 0
    <3>1. t = HighestOf(OSRdyTbl)
      BY <2>1, <2>5 DEF SwitchInv, HighestPriorityRuns
    <3>2. t \in OSRdyTbl /\ u \in Tasks
      BY <1>t, <3>1, HighestReady, UsersAssumption
      DEF TypeInv, IdleAwake, CoreTypeOK
    <3>3. HighestOf(OSRdyTbl \ {u}) = t
      <4>1. OSRdyTbl \in SUBSET Tasks
        BY <1>t DEF CoreTypeOK
      <4>. QED  BY <2>5, <3>1, <3>2, <4>1, HighestRemains, Zenon
    <3>r. OSRdyTbl' = OSRdyTbl \ {u}
      BY <1>3 DEF OSTaskSuspend
    <3>4. UNCHANGED <<OSTCBCur, OSPrioCur, pendSV>>
      BY <2>2 DEF cpuVars, switchVars
    <3>. QED
      BY <2>1, <3>3, <3>r, <3>4
      DEF SwitchInv, CurrentTaskAgrees, HighestPriorityRuns
  <2>. QED  BY <1>t, <2>3, <2>4, <2>5
<1>4. ASSUME NEW t \in AppTasks, NEW u \in Suspendable, OSTaskResume(t, u)
      PROVE SwitchInv'
  <2>1. OSTCBCur = t /\ ~pendSV /\ pc[t] = "app"
    BY <1>4 DEF OSTaskResume, Calls, Runs
  <2>2. pc'[t] = "sched" \/ OSRdyTbl' = OSRdyTbl
    BY <1>4, <1>t DEF OSTaskResume, Goto, CoreTypeOK, AppTasks
  <2>. QED  BY <1>4, <2>1, <2>2, QuietSwitch DEF OSTaskResume
<1>5. ASSUME NEW t \in AppTasks, OSSchedLock(t) PROVE SwitchInv'
  BY <1>5, <1>t, QuietSwitch DEF OSSchedLock, Calls, Runs
<1>6. ASSUME NEW t \in AppTasks, OSSchedUnlock(t) PROVE SwitchInv'
  <2>1. OSTCBCur = t /\ ~pendSV
    BY <1>6 DEF OSSchedUnlock, Calls, Runs
  <2>2. CASE OSLockNesting = 1
    <3>1. pc'[t] = "sched"
      BY <1>6, <1>t, <2>2 DEF OSSchedUnlock, Goto, CoreTypeOK, AppTasks
    <3>. QED  BY <1>6, <2>1, <3>1, QuietSwitch DEF OSSchedUnlock
  <2>3. CASE OSLockNesting # 1
    <3>1. OSLockNesting' > 0 /\ OSLockNesting' \in Nat
      BY <1>6, <1>t, <2>3 DEF OSSchedUnlock
    <3>. QED  BY <1>6, <2>1, <3>1, QuietSwitch DEF OSSchedUnlock
  <2>. QED  BY <2>2, <2>3
<1>7. CASE OSTimeTick
  BY <1>7, SchedSwitch DEF OSTimeTick, OSIntExit, CanInterrupt
<1>8. CASE PendSV_Handler
  BY <1>8 DEF PendSV_Handler, readyVars, SwitchInv, CurrentTaskAgrees,
              HighestPriorityRuns
<1>. QED
  BY <1>1, <1>2, <1>3, <1>4, <1>5, <1>6, <1>7, <1>8 DEF CoreNext

\* The services of the semaphores, called by a task.
LEMMA TaskSwitch ==
  ASSUME TypeInv, SwitchInv, NEW t \in AppTasks, TaskNext(t)
  PROVE  SwitchInv'
<1>t. CoreTypeOK /\ t \in Tasks
  BY DEF TypeInv, TypeOK, AppTasks
<1>q. ASSUME Runs(t), UNCHANGED <<cpuVars, OSLockNesting>>,
             \/ pc'[t] = "sched" \/ pc'[t] = "pendSched"
             \/ OSRdyTbl' = OSRdyTbl /\ pc[t] \in {"app", "pendWake"}
      PROVE SwitchInv'
  BY <1>q, QuietSwitch DEF Runs
<1>1. ASSUME NEW e \in Events, NEW c \in 0 .. MaxCnt, OSSemCreate(t, e, c)
      PROVE SwitchInv'
  BY <1>1, <1>q DEF OSSemCreate, Calls, readyVars
<1>2. ASSUME NEW e \in Events, OSSemDelNoPend(t, e) PROVE SwitchInv'
  BY <1>2, <1>q DEF OSSemDelNoPend, Calls, readyVars, coreVars
<1>3. ASSUME NEW e \in Events, OSSemDelAlways(t, e) PROVE SwitchInv'
  <2>1. pc'[t] = "sched" \/ OSRdyTbl' = OSRdyTbl
    BY <1>3, <1>t DEF OSSemDelAlways, OS_EventTaskRdy, Goto, CoreTypeOK
  <2>. QED  BY <1>3, <2>1, <1>q DEF OSSemDelAlways, Calls
<1>4. ASSUME NEW e \in Events, OSSemAccept(t, e) PROVE SwitchInv'
  BY <1>4, <1>q DEF OSSemAccept, Calls, readyVars, coreVars
<1>5. ASSUME NEW e \in Events, OSSemPendTake(t, e) PROVE SwitchInv'
  BY <1>5, <1>q DEF OSSemPendTake, CallsBlocking, Calls, readyVars, coreVars
<1>6. ASSUME NEW e \in Events, NEW n \in 0 .. MaxTicks, OSSemPendWait(t, e, n)
      PROVE SwitchInv'
  <2>1. pc'[t] = "pendSched"
    BY <1>6, <1>t DEF OSSemPendWait, Goto, CoreTypeOK
  <2>. QED  BY <1>6, <2>1, <1>q DEF OSSemPendWait, CallsBlocking, Calls
<1>7. CASE OSSemPendWake(t)
  BY <1>7, <1>q DEF OSSemPendWake
<1>8. ASSUME NEW e \in Events, OSSemPost(t, e) PROVE SwitchInv'
  <2>1. pc'[t] = "sched" \/ OSRdyTbl' = OSRdyTbl
    BY <1>8, <1>t DEF OSSemPost, SemPost, Goto, readyVars, CoreTypeOK
  <2>. QED  BY <1>8, <2>1, <1>q DEF OSSemPost, Calls
<1>. QED
  BY <1>1, <1>2, <1>3, <1>4, <1>5, <1>6, <1>7, <1>8 DEF TaskNext

\* A post from an interrupt handler keeps the invariant about the switch.
LEMMA IrqSwitch ==
  ASSUME TypeInv, SwitchInv, Preempts = {}, NEW e \in Events, IrqSemPost(e)
  PROVE  SwitchInv'
<1>1. ~pendSV /\ UNCHANGED <<OSTCBCur, OSPrioCur, OSLockNesting, pc>>
  BY DEF IrqSemPost, CanInterrupt
<1>2. CASE OSEventTbl[e] # {}
  BY <1>1, <1>2, SchedSwitch DEF IrqSemPost
<1>3. CASE OSEventTbl[e] = {}
  BY <1>1, <1>3 DEF IrqSemPost, SemPost, readyVars, switchVars, SwitchInv,
                    CurrentTaskAgrees, HighestPriorityRuns
<1>. QED  BY <1>2, <1>3

\* The invariant about the switch holds in every behaviour.
LEMMA SwitchAlways ==
  ASSUME Preempts = {}
  PROVE  Spec => []SwitchInv
<1>1. TypeInv /\ SwitchInv /\ [Next]_vars => SwitchInv'
  <2>. SUFFICES ASSUME TypeInv, SwitchInv, [Next]_vars PROVE SwitchInv'
    OBVIOUS
  <2>1. CASE UNCHANGED vars
    BY <2>1 DEF vars, coreVars, readyVars, cpuVars, switchVars, SwitchInv,
                CurrentTaskAgrees, HighestPriorityRuns
  <2>2. CASE Next
    BY <2>2, CoreSwitch, TaskSwitch, IrqSwitch, SemAssumption DEF Next
  <2>. QED  BY <2>1, <2>2
<1>. QED
  BY <1>1, InitType, InitSwitch, NextType, PTL DEF Spec

\* When no interrupt has a higher priority than PendSV, the kernel always
\* knows which task is running: OSPrioCur is the priority of OSTCBCur.
THEOREM SwitchCorrect ==
  ASSUME Preempts = {}
  PROVE  Spec => []CurrentTaskAgrees
<1>1. SwitchInv => CurrentTaskAgrees
  BY DEF SwitchInv
<1>. QED  BY <1>1, SwitchAlways, PTL

\* Under the same condition the running task is the highest one that is
\* ready, in whichever order posts, ticks, timeouts, suspensions and the
\* scheduler lock have changed the ready list (OS_Sched, OSIntExit).
THEOREM HighestRuns ==
  ASSUME Preempts = {}
  PROVE  Spec => []HighestPriorityRuns
<1>1. SwitchInv => HighestPriorityRuns
  BY DEF SwitchInv
<1>. QED  BY <1>1, SwitchAlways, PTL

-----------------------------------------------------------------------------
(* The refinement of SemService.                                             *)

\* A task whose status says that it waits for a semaphore is on a list.
StatusListed ==
  \A t \in Tasks : "sem" \in OSTCBStat[t] => OSTCBEventPtr[t] \in Events

RefInv == SafeInv /\ StatusListed

\* The invariant of the refinement holds initially.
LEMMA InitRef == Init => RefInv
BY InitSafe DEF Init, CoreInit, RefInv, StatusListed

\* The tasks W leave the list of e, OS_STAT_SEM and the pointer together.
LEMMA TaskRdyStatus ==
  ASSUME SafeInv, StatusListed, NEW e \in Events, NEW W \in SUBSET OSEventTbl[e],
         OS_EventTaskRdy(e, W, "sem")
  PROVE  StatusListed'
BY DEF OS_EventTaskRdy, StatusListed

\* A post leaves no task waiting without its status.
LEMMA SemPostStatus ==
  ASSUME SafeInv, StatusListed, NEW e \in Events, SemPost(e)
  PROVE  StatusListed'
<1>1. CASE OSEventTbl[e] # {}
  <2>1. {HighestOf(OSEventTbl[e])} \in SUBSET OSEventTbl[e]
    BY <1>1, HighestWaiting DEF SafeInv, TypeInv, TypeOK
  <2>. QED  BY <1>1, <2>1, TaskRdyStatus DEF SemPost
<1>2. CASE OSEventTbl[e] = {}
  BY <1>2 DEF SemPost, readyVars, eventVars, StatusListed
<1>. QED  BY <1>1, <1>2

\* Every step keeps the part of the invariant about the status.
LEMMA NextStatus ==
  ASSUME RefInv, Next
  PROVE  StatusListed'
<1>. USE DEF RefInv, StatusListed, readyVars, eventVars, frameVars, coreVars
<1>t. TypeOK /\ CoreTypeOK
  BY DEF SafeInv, TypeInv, TypeOK
<1>1. CASE CoreNext
  <2>1. /\ OSTCBEventPtr' = OSTCBEventPtr
        /\ \A t \in Tasks : "sem" \in OSTCBStat'[t] <=> "sem" \in OSTCBStat[t]
    BY <1>1, <1>t, CoreKeepsWaits DEF eventVars
  <2>. QED  BY <2>1
<1>2. ASSUME NEW t \in AppTasks, TaskNext(t) PROVE StatusListed'
  <2>0. t \in Tasks
    BY DEF AppTasks
  <2>1. ASSUME NEW e \in Events, NEW c \in 0 .. MaxCnt, OSSemCreate(t, e, c)
        PROVE StatusListed'
    BY <2>1 DEF OSSemCreate
  <2>2. ASSUME NEW e \in Events, OSSemDelNoPend(t, e) PROVE StatusListed'
    BY <2>2 DEF OSSemDelNoPend
  <2>3. ASSUME NEW e \in Events, OSSemDelAlways(t, e) PROVE StatusListed'
    <3>1. OSEventTbl[e] \in SUBSET OSEventTbl[e]
      OBVIOUS
    <3>. QED  BY <2>3, <3>1, TaskRdyStatus DEF OSSemDelAlways
  <2>4. ASSUME NEW e \in Events, OSSemAccept(t, e) \/ OSSemPendTake(t, e)
        PROVE StatusListed'
    BY <2>4 DEF OSSemAccept, OSSemPendTake
  <2>5. ASSUME NEW e \in Events, NEW n \in 0 .. MaxTicks, OSSemPendWait(t, e, n)
        PROVE StatusListed'
    BY <1>t, <2>0, <2>5 DEF OSSemPendWait, OS_EventTaskWait, CoreTypeOK
  <2>6. CASE OSSemPendWake(t)
    BY <1>t, <2>0, <2>6 DEF OSSemPendWake, OS_EventTO, CoreTypeOK
  <2>7. ASSUME NEW e \in Events, OSSemPost(t, e) PROVE StatusListed'
    BY <2>7, SemPostStatus DEF OSSemPost
  <2>. QED
    BY <1>2, <2>1, <2>2, <2>3, <2>4, <2>5, <2>6, <2>7 DEF TaskNext
<1>3. ASSUME NEW e \in IrqPosts, IrqSemPost(e) PROVE StatusListed'
  BY <1>3, SemPostStatus, SemAssumption DEF IrqSemPost
<1>. QED  BY <1>1, <1>2, <1>3 DEF Next

\* Every step keeps the invariant of the refinement.
LEMMA NextRef == RefInv /\ [Next]_vars => RefInv'
<1>. SUFFICES ASSUME RefInv, [Next]_vars PROVE RefInv'
  OBVIOUS
<1>1. SafeInv'
  BY NextSafe DEF RefInv
<1>2. CASE UNCHANGED vars
  BY <1>1, <1>2 DEF vars, coreVars, readyVars, eventVars, RefInv, StatusListed
<1>3. CASE Next
  BY <1>1, <1>3, NextStatus DEF RefInv
<1>. QED  BY <1>2, <1>3

-----------------------------------------------------------------------------
(* The steps of the service.                                                *)

OnList(t) == \E e \in Events : t \in OSEventTbl[e]

\* A task on a list pends, and is not the idle task.
LEMMA ListedPends ==
  ASSUME SafeInv, NEW e \in Events
  PROVE  OSEventTbl[e] \subseteq {t \in AppTasks : Pending(t)}
BY DEF SafeInv, TypeInv, TypeOK, CoreTypeOK, IdleAwake, WaitListsAgree,
       Pending, AppTasks

\* What the service sees changes only with the lists, the counts, the types,
\* the results and the tasks that are in a pend.
LEMMA Stutter ==
  ASSUME UNCHANGED <<OSEventType, OSEventCnt, OSEventTbl, err>>,
         \A t \in AppTasks : Pending(t)' <=> Pending(t)
  PROVE  UNCHANGED Service!svars
<1>1. \A t \in AppTasks : PhaseOf(t)' = PhaseOf(t)
  BY DEF PhaseOf
<1>2. \A e \in Events : Live(e)' = Live(e)
  BY DEF Live
<1>. QED  BY <1>1, <1>2 DEF Service!svars

\* A step of the core leaves the abstract semaphores alone.
LEMMA CoreStutters ==
  ASSUME TypeOK, CoreNext, UNCHANGED semVars
  PROVE  UNCHANGED Service!svars
<1>1. OSEventTbl' = OSEventTbl /\ \A t \in AppTasks : Pending(t)' <=> Pending(t)
  BY CoreKeepsWaits DEF TypeOK, AppTasks, eventVars
<1>. QED  BY <1>1, Stutter DEF semVars

\* The tasks W are handed the event.
LEMMA GrantPhases ==
  ASSUME SafeInv, NEW e \in Events, NEW W \in SUBSET OSEventTbl[e],
         OS_EventTaskRdy(e, W, "sem"),
         \A t \in Tasks : Pending(t)' <=> Pending(t)
  PROVE  [t \in AppTasks |-> PhaseOf(t)]' =
           [t \in AppTasks |-> IF t \in W THEN "granted" ELSE PhaseOf(t)]
<1>. SUFFICES ASSUME NEW t \in AppTasks
              PROVE  PhaseOf(t)' = IF t \in W THEN "granted" ELSE PhaseOf(t)
  OBVIOUS
<1>1. t \in Tasks
  BY DEF AppTasks
<1>2. \A f \in Events :
        OSEventTbl'[f] = IF f = e THEN OSEventTbl[e] \ W ELSE OSEventTbl[f]
  BY DEF OS_EventTaskRdy, SafeInv, TypeInv, TypeOK, CoreTypeOK
<1>3. CASE t \in W
  <2>1. Pending(t) /\ \A f \in Events : t \in OSEventTbl[f] => f = e
    BY <1>1, <1>3 DEF SafeInv, WaitListsAgree
  <2>2. \A f \in Events : t \notin OSEventTbl'[f]
    BY <1>2, <1>3, <2>1
  <2>. QED  BY <1>1, <1>3, <2>1, <2>2 DEF PhaseOf
<1>4. CASE t \notin W
  <2>1. \A f \in Events : t \in OSEventTbl'[f] <=> t \in OSEventTbl[f]
    BY <1>2, <1>4
  <2>. QED  BY <1>1, <1>4, <2>1 DEF PhaseOf
<1>. QED  BY <1>3, <1>4

\* SemPost grants the event to the first waiter, keeps it, or loses it.
LEMMA SemPostRefines ==
  ASSUME SafeInv, NEW e \in Events, Live(e), SemPost(e),
         UNCHANGED <<OSEventType, err>>,
         \A t \in Tasks : Pending(t)' <=> Pending(t)
  PROVE  [Service!SNext]_(Service!svars)
<1>1. \A f \in Events : Live(f)' = Live(f)
  BY DEF Live
<1>2. CASE OSEventTbl[e] # {}
  <2>. DEFINE h == HighestOf(OSEventTbl[e])
  <2>1. h \in OSEventTbl[e] /\ \A d \in OSEventTbl[e] : h <= d
    <3>1. OSEventTbl[e] \subseteq Nat
      BY TasksAssumption DEF SafeInv, TypeInv, TypeOK, CoreTypeOK
    <3>. QED  BY <1>2, <3>1, HighestExists
  <2>2. h \in AppTasks
    BY <2>1, ListedPends
  <2>3. OS_EventTaskRdy(e, {h}, "sem") /\ OSEventCnt' = OSEventCnt
    BY <1>2 DEF SemPost
  <2>4. [t \in AppTasks |-> PhaseOf(t)]' =
          [t \in AppTasks |-> IF t \in {h} THEN "granted" ELSE PhaseOf(t)]
    BY <2>1, <2>3, GrantPhases
  <2>5. Service!Grant(e, h)
    BY <1>1, <2>1, <2>2, <2>3, <2>4 DEF Service!Grant, OS_EventTaskRdy
  <2>. QED  BY <2>2, <2>5 DEF Service!SNext
<1>3. CASE OSEventTbl[e] = {} /\ OSEventCnt[e] < MaxCnt
  <2>1. /\ OSEventTbl' = OSEventTbl
        /\ OSEventCnt' = [OSEventCnt EXCEPT ![e] = @ + 1]
    BY <1>3 DEF SemPost, eventVars
  <2>2. \A t \in AppTasks : PhaseOf(t)' = PhaseOf(t)
    BY <2>1 DEF PhaseOf, AppTasks
  <2>3. Service!Keep(e)
    BY <1>1, <1>3, <2>1, <2>2 DEF Service!Keep
  <2>. QED  BY <2>3 DEF Service!SNext
<1>4. CASE OSEventTbl[e] = {} /\ ~(OSEventCnt[e] < MaxCnt)
  BY <1>4, Stutter DEF SemPost, eventVars, AppTasks
<1>. QED  BY <1>2, <1>3, <1>4

\* The services, called by a task.
LEMMA TaskRefines ==
  ASSUME RefInv, NEW t \in AppTasks, TaskNext(t)
  PROVE  [Service!SNext]_(Service!svars)
<1>. DEFINE phase == [u \in AppTasks |-> PhaseOf(u)]
<1>t. t \in Tasks /\ SafeInv /\ TypeOK /\ CoreTypeOK
  BY DEF RefInv, SafeInv, TypeInv, TypeOK, AppTasks
<1>c. ASSUME Calls(t) PROVE PhaseOf(t) = "idle" /\ ~Pending(t)
  BY <1>c DEF Calls, Pending, PhaseOf
<1>g. ASSUME Calls(t), NEW p \in {"app", "sched"}, Goto(t, p)
      PROVE  \A u \in Tasks : Pending(u)' <=> Pending(u)
  BY <1>t, <1>g DEF Calls, Goto, Pending, CoreTypeOK
<1>u. ASSUME UNCHANGED <<pc, OSEventTbl>>
      PROVE  phase' = phase
  BY <1>u DEF PhaseOf, Pending
<1>1. ASSUME NEW e \in Events, NEW n \in 0 .. MaxCnt, OSSemCreate(t, e, n)
      PROVE  Service!SNext
  <2>1. OSEventTbl[e] = {}
    BY <1>t, <1>1
    DEF OSSemCreate, SafeInv, WaitListsAgree, Live, CoreTypeOK
  <2>2. OSEventTbl' = OSEventTbl
    BY <1>t, <1>1, <2>1 DEF OSSemCreate, CoreTypeOK
  <2>3. \A f \in Events : Live(f)' <=> f = e \/ Live(f)
    BY <1>t, <1>1 DEF OSSemCreate, Live, TypeOK
  <2>4. Service!Create(e, n)
    BY <1>1, <1>u, <2>2, <2>3 DEF OSSemCreate, Service!Create, Live
  <2>. QED  BY <2>4 DEF Service!SNext
<1>2. ASSUME NEW e \in Events, OSSemDelNoPend(t, e) PROVE Service!SNext
  <2>1. \A f \in Events : Live(f)' <=> f # e /\ Live(f)
    BY <1>t, <1>2 DEF OSSemDelNoPend, Live, TypeOK
  <2>2. UNCHANGED <<pc, OSEventTbl>>
    BY <1>2 DEF OSSemDelNoPend, coreVars, eventVars
  <2>3. OSEventTbl' = [OSEventTbl EXCEPT ![e] = {}]
    BY <1>t, <1>2, <2>2 DEF OSSemDelNoPend, CoreTypeOK
  <2>4. Service!Delete(e)
    BY <1>2, <1>u, <2>1, <2>2, <2>3 DEF OSSemDelNoPend, Service!Delete
  <2>. QED  BY <2>4 DEF Service!SNext
<1>3. ASSUME NEW e \in Events, OSSemDelAlways(t, e) PROVE Service!SNext
  <2>1. \A f \in Events : Live(f)' <=> f # e /\ Live(f)
    BY <1>t, <1>3 DEF OSSemDelAlways, Live, TypeOK
  <2>2. OS_EventTaskRdy(e, OSEventTbl[e], "sem") /\ Calls(t)
    BY <1>3 DEF OSSemDelAlways
  <2>3. \A u \in Tasks : Pending(u)' <=> Pending(u)
    BY <1>3, <1>g DEF OSSemDelAlways
  <2>4. phase' = [u \in AppTasks |->
                    IF u \in OSEventTbl[e] THEN "granted" ELSE PhaseOf(u)]
    BY <1>t, <2>2, <2>3, GrantPhases
  <2>5. OSEventTbl' = [OSEventTbl EXCEPT ![e] = {}]
    BY <1>t, <2>2 DEF OS_EventTaskRdy, CoreTypeOK
  <2>6. Service!Delete(e)
    BY <1>3, <2>1, <2>4, <2>5 DEF OSSemDelAlways, Service!Delete
  <2>. QED  BY <2>6 DEF Service!SNext
<1>4. ASSUME NEW e \in Events, OSSemAccept(t, e) \/ OSSemPendTake(t, e)
      PROVE  Service!SNext
  <2>1. /\ Live(e) /\ OSEventCnt[e] > 0 /\ Calls(t)
        /\ OSEventCnt' = [OSEventCnt EXCEPT ![e] = @ - 1]
        /\ UNCHANGED <<pc, OSEventTbl, OSEventType>>
        /\ err' = err \/ err' = [err EXCEPT ![t] = "OS_NO_ERR"]
    BY <1>4 DEF OSSemAccept, OSSemPendTake, CallsBlocking, coreVars, eventVars
  <2>2. \A f \in Events : Live(f)' = Live(f)
    BY <2>1 DEF Live
  <2>3. \/ err' = err
        \/ [u \in AppTasks |-> err'[u]] =
             [[u \in AppTasks |-> err[u]] EXCEPT ![t] = "OS_NO_ERR"]
    BY <1>t, <2>1 DEF TypeOK, AppTasks
  <2>4. Service!Take(t, e)
    BY <1>c, <1>u, <2>1, <2>2, <2>3 DEF Service!Take
  <2>. QED  BY <2>4 DEF Service!SNext
<1>5. ASSUME NEW e \in Events, NEW n \in 0 .. MaxTicks, OSSemPendWait(t, e, n)
      PROVE  Service!SNext
  <2>1. Calls(t) /\ Live(e) /\ OSEventCnt[e] = 0
    BY <1>5 DEF OSSemPendWait, CallsBlocking
  <2>2. OSEventTbl' = [OSEventTbl EXCEPT ![e] = @ \cup {t}]
    BY <1>5 DEF OSSemPendWait, OS_EventTaskWait
  <2>3. \A f \in Events : Live(f)' = Live(f)
    BY <1>5 DEF OSSemPendWait, Live
  <2>4. \A u \in Tasks : Pending(u)' <=> u = t \/ Pending(u)
    BY <1>t, <1>5 DEF OSSemPendWait, Goto, Pending, CoreTypeOK
  <2>5. \A u \in AppTasks : PhaseOf(u)' = IF u = t THEN "waiting" ELSE PhaseOf(u)
    <3>. SUFFICES ASSUME NEW u \in AppTasks
                  PROVE  PhaseOf(u)' = IF u = t THEN "waiting" ELSE PhaseOf(u)
      OBVIOUS
    <3>1. u \in Tasks
      BY DEF AppTasks
    <3>2. \A f \in Events : OSEventTbl'[f] =
            IF f = e THEN OSEventTbl[f] \cup {t} ELSE OSEventTbl[f]
      BY <1>t, <2>2 DEF CoreTypeOK
    <3>3. CASE u = t
      <4>1. t \in OSEventTbl'[e] /\ Pending(t)'
        BY <1>t, <2>4, <3>2
      <4>. QED  BY <3>3, <4>1 DEF PhaseOf
    <3>4. CASE u # t
      <4>1. \A f \in Events : u \in OSEventTbl'[f] <=> u \in OSEventTbl[f]
        BY <3>2, <3>4
      <4>. QED  BY <2>4, <3>1, <3>4, <4>1 DEF PhaseOf
    <3>. QED  BY <3>3, <3>4
  <2>6. phase' = [phase EXCEPT ![t] = "waiting"]
    BY <2>5
  <2>7. [u \in AppTasks |-> err'[u]] =
          [[u \in AppTasks |-> err[u]] EXCEPT ![t] = "none"]
    BY <1>t, <1>5 DEF OSSemPendWait, TypeOK, AppTasks
  <2>8. Service!Wait(t, e)
    BY <1>5, <1>c, <2>1, <2>2, <2>3, <2>6, <2>7 DEF OSSemPendWait, Service!Wait
  <2>. QED  BY <2>8 DEF Service!SNext
<1>6. CASE OSSemPendWake(t)
  <2>1. Pending(t) /\ \A u \in Tasks : Pending(u)' <=> u # t /\ Pending(u)
    BY <1>t, <1>6 DEF OSSemPendWake, Goto, Pending, CoreTypeOK
  <2>2. \A f \in Events : Live(f)' = Live(f)
    BY <1>6 DEF OSSemPendWake, Live
  <2>3. ASSUME \A f \in Events : OSEventTbl'[f] = OSEventTbl[f] \ {t}
        PROVE  phase' = [phase EXCEPT ![t] = "idle"]
    <3>. SUFFICES ASSUME NEW u \in AppTasks
                  PROVE  PhaseOf(u)' = IF u = t THEN "idle" ELSE PhaseOf(u)
      OBVIOUS
    <3>1. u \in Tasks
      BY DEF AppTasks
    <3>2. CASE u = t
      BY <1>t, <2>1, <3>2 DEF PhaseOf
    <3>3. CASE u # t
      BY <2>1, <2>3, <3>1, <3>3 DEF PhaseOf
    <3>. QED  BY <3>2, <3>3
  <2>4. CASE "sem" \in OSTCBStat[t]
    <3>1. PICK f \in Events : OSTCBEventPtr[t] = f
      BY <1>t, <2>4 DEF RefInv, StatusListed
    <3>2. t \in OSEventTbl[f] /\ pevent[t] = f
      BY <1>t, <3>1 DEF SafeInv, WaitListsAgree
    <3>3. \A g \in Events : t \in OSEventTbl[g] => g = f
      BY <1>t, <3>1 DEF SafeInv, WaitListsAgree
    <3>4. OSEventTbl' = [OSEventTbl EXCEPT ![f] = @ \ {t}]
      BY <1>6, <2>4, <3>2 DEF OSSemPendWake, OS_EventTO
    <3>5. OSEventTbl' = [g \in Events |-> OSEventTbl[g] \ {t}]
      BY <1>t, <3>3, <3>4 DEF CoreTypeOK
    <3>6. phase' = [phase EXCEPT ![t] = "idle"]
      BY <2>3, <3>5
    <3>7. PhaseOf(t) = "waiting"
      BY <2>1, <3>2 DEF PhaseOf
    <3>8. [u \in AppTasks |-> err'[u]] =
            [[u \in AppTasks |-> err[u]] EXCEPT ![t] = "OS_TIMEOUT"]
      BY <1>t, <1>6, <2>4 DEF OSSemPendWake, TypeOK, AppTasks
    <3>9. Service!GiveUp(t)
      BY <1>6, <2>2, <3>5, <3>6, <3>7, <3>8 DEF OSSemPendWake, Service!GiveUp
    <3>. QED  BY <3>9 DEF Service!SNext
  <2>5. CASE "sem" \notin OSTCBStat[t]
    <3>1. \A f \in Events : t \notin OSEventTbl[f]
      BY <1>t, <2>5 DEF SafeInv, WaitListsAgree
    <3>2. OSEventTbl' = OSEventTbl
      BY <1>6, <2>5 DEF OSSemPendWake
    <3>3. phase' = [phase EXCEPT ![t] = "idle"]
      BY <2>3, <3>1, <3>2
    <3>4. PhaseOf(t) = "granted"
      BY <2>1, <3>1 DEF PhaseOf
    <3>5. [u \in AppTasks |-> err'[u]] =
            [[u \in AppTasks |-> err[u]] EXCEPT ![t] = "OS_NO_ERR"]
      BY <1>t, <1>6, <2>5 DEF OSSemPendWake, TypeOK, AppTasks
    <3>6. Service!Collect(t)
      BY <1>6, <2>2, <3>2, <3>3, <3>4, <3>5 DEF OSSemPendWake, Service!Collect
    <3>. QED  BY <3>6 DEF Service!SNext
  <2>. QED  BY <2>4, <2>5
<1>7. ASSUME NEW e \in Events, OSSemPost(t, e)
      PROVE  [Service!SNext]_(Service!svars)
  <2>1. \A u \in Tasks : Pending(u)' <=> Pending(u)
    BY <1>7, <1>g DEF OSSemPost
  <2>. QED  BY <1>t, <1>7, <2>1, SemPostRefines DEF OSSemPost
<1>. QED
  BY <1>1, <1>2, <1>3, <1>4, <1>5, <1>6, <1>7 DEF TaskNext

\* The promise of SemService is kept in every behaviour of the kernel, with
\* any tasks, interrupts, timeouts, suspensions and deletions.
THEOREM ServiceImplemented == Spec => ImplementsService
<1>1. Init => Service!SInit
  <2>. SUFFICES ASSUME Init PROVE Service!SInit
    OBVIOUS
  <2>1. OSEventCnt = [e \in Events |-> 0]
    BY DEF Init
  <2>2. \A t \in AppTasks : PhaseOf(t) = "idle" /\ err[t] = "none"
    BY DEF Init, CoreInit, PhaseOf, Pending, AppTasks
  <2>. QED  BY <2>1, <2>2 DEF Init, CoreInit, Service!SInit
<1>2. RefInv /\ [Next]_vars => [Service!SNext]_(Service!svars)
  <2>. SUFFICES ASSUME RefInv, [Next]_vars
                PROVE  [Service!SNext]_(Service!svars)
    OBVIOUS
  <2>1. CASE UNCHANGED vars
    <3>1. UNCHANGED <<OSEventType, OSEventCnt, OSEventTbl, err, pc>>
      BY <2>1 DEF vars, coreVars, eventVars, semVars
    <3>. QED  BY <3>1, Stutter DEF Pending
  <2>2. CASE CoreNext /\ UNCHANGED semVars
    BY <2>2, CoreStutters DEF RefInv, SafeInv, TypeInv
  <2>3. ASSUME NEW t \in AppTasks, TaskNext(t)
        PROVE  [Service!SNext]_(Service!svars)
    BY <2>3, TaskRefines
  <2>4. ASSUME NEW e \in IrqPosts, IrqSemPost(e)
        PROVE  [Service!SNext]_(Service!svars)
    <3>1. \A t \in Tasks : Pending(t)' <=> Pending(t)
      BY <2>4 DEF IrqSemPost, Pending
    <3>. QED
      BY <2>4, <3>1, SemPostRefines, SemAssumption DEF RefInv, IrqSemPost
  <2>. QED  BY <2>1, <2>2, <2>3, <2>4 DEF Next
<1>. QED
  BY <1>1, <1>2, InitRef, NextRef, PTL
  DEF Spec, ImplementsService, Service!SSpec
=============================================================================
