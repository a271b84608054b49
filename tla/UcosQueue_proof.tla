---------------------------- MODULE UcosQueue_proof ---------------------------
(***************************************************************************)
(* Theorems about UcosQueue, for any set of tasks and queues of any size:  *)
(* its types, the agreement of its tables, the messages that are left for  *)
(* a task, and that it implements QueueService.                            *)
(***************************************************************************)
EXTENDS UcosQueue, SequenceTheorems, WellFoundedInduction, TLAPS

(***************************************************************************)
(* The scheduling core, for any set of tasks and events: its types, and    *)
(* what one of its steps may do to the waiting tasks.                      *)
(***************************************************************************)

NatLess == {ss \in Nat \X Nat : ss[1] < ss[2]}

\* OSUnMapTbl finds a member: every nonempty table has a highest priority.
LEMMA HighestExists ==
  ASSUME NEW S, S \subseteq Nat, S # {}
  PROVE  HighestOf(S) \in S /\ \A q \in S : HighestOf(S) <= q
<1>1. IsWellFoundedOn(NatLess, Nat)
  BY NatLessThanWellFounded DEF OpToRel, NatLess
<1>2. PICK x \in S : \A y \in S : <<y, x>> \notin NatLess
  BY <1>1, WFMin
<1>3. \A y \in S : x <= y
  <2>1. SUFFICES ASSUME NEW y \in S, ~(x <= y) PROVE FALSE
    OBVIOUS
  <2>2. x \in Nat /\ y \in Nat /\ y < x
    BY <2>1
  <2>3. <<y, x>> \in Nat \X Nat /\ <<y, x>>[1] < <<y, x>>[2]
    BY <2>2
  <2>4. <<y, x>> \in NatLess
    BY <2>3 DEF NatLess
  <2>. QED  BY <2>4, <1>2
<1>. QED  BY <1>3 DEF HighestOf

\* OS_TaskIdle never blocks: it stays ready, in its own code, on no list.
IdleAwake ==
  /\ Idle \in OSRdyTbl
  /\ pc[Idle] = "app"

CoreTypeInv == CoreTypeOK /\ IdleAwake

\* Both the ready list and a list with a waiting task have a highest member.
LEMMA HighestReady ==
  ASSUME NEW rdy, rdy \subseteq Tasks, Idle \in rdy
  PROVE  HighestOf(rdy) \in rdy /\ HighestOf(rdy) \in Tasks
BY HighestExists, TasksAssumption

\* The task that OS_EventTaskRdy picks is on the waiting list.
LEMMA HighestWaiting ==
  ASSUME CoreTypeOK, NEW e \in Events, OSEventTbl[e] # {}
  PROVE  HighestOf(OSEventTbl[e]) \in OSEventTbl[e]
BY HighestExists, TasksAssumption DEF CoreTypeOK

\* CoreInit is typed.
LEMMA CoreInitType == CoreInit => CoreTypeInv
<1>. SUFFICES ASSUME CoreInit PROVE CoreTypeInv
  OBVIOUS
<1>1. HighestOf(Tasks) \in Tasks
  BY HighestReady, TasksAssumption
<1>. QED
  BY <1>1, TasksAssumption, EventsAssumption, BoundsAssumption
  DEF CoreInit, CoreTypeInv, CoreTypeOK, IdleAwake, Places

\* What OS_Sched writes has its type.
LEMMA SchedType ==
  ASSUME CoreTypeOK, NEW rdy, rdy \subseteq Tasks, Idle \in rdy, OS_Sched(rdy)
  PROVE  /\ {OSTCBHighRdy', OSPrioHighRdy'} \subseteq Tasks
         /\ pendSV' \in BOOLEAN
BY HighestReady DEF OS_Sched, CoreTypeOK, switchVars

\* What OS_EventTaskRdy writes has its type.
LEMMA TaskRdyType ==
  ASSUME CoreTypeOK, NEW e \in Events, NEW W \in SUBSET Tasks,
         NEW bit \in StatBits, OS_EventTaskRdy(e, W, bit)
  PROVE  /\ OSEventTbl' \in [Events -> SUBSET Tasks]
         /\ OSTCBDly' \in [Tasks -> 0 .. MaxTicks]
         /\ OSTCBEventPtr' \in [Tasks -> Events \cup {NoEvent}]
         /\ OSTCBStat' \in [Tasks -> SUBSET StatBits]
         /\ OSRdyTbl' \subseteq Tasks
         /\ OSRdyTbl \subseteq OSRdyTbl'
<1>1. \A t \in Tasks : OSTCBStat[t] \in SUBSET StatBits
  BY DEF CoreTypeOK
<1>2. OSTCBStat' \in [Tasks -> SUBSET StatBits]
  BY <1>1 DEF OS_EventTaskRdy
<1>3. OSTCBDly' \in [Tasks -> 0 .. MaxTicks]
  BY BoundsAssumption DEF OS_EventTaskRdy, CoreTypeOK
<1>. QED
  BY <1>2, <1>3 DEF OS_EventTaskRdy, CoreTypeOK

\* The steps of the scheduling core keep the types.
LEMMA CoreType ==
  ASSUME CoreTypeInv, CoreNext
  PROVE  CoreTypeInv'
<1>. USE DEF CoreTypeInv, IdleAwake, CoreTypeOK, Places, readyVars,
             eventVars, cpuVars, switchVars, frameVars
<1>1. ASSUME NEW t \in Tasks, TaskSched(t) PROVE CoreTypeInv'
  <2>1. OS_Sched(OSRdyTbl)
    BY <1>1 DEF TaskSched
  <2>2. pc' \in [Tasks -> Places] /\ pc'[Idle] = "app"
    <3>1. CASE pc[t] = "sched" /\ Goto(t, "app")
      BY <3>1, TasksAssumption DEF Goto
    <3>2. CASE pc[t] = "pendSched" /\ Goto(t, "pendWake")
      BY <3>2, TasksAssumption DEF Goto
    <3>. QED  BY <1>1, <3>1, <3>2 DEF TaskSched
  <2>. QED  BY <1>1, <2>1, <2>2, SchedType DEF TaskSched
<1>2. ASSUME NEW t \in AppTasks, NEW n \in 1 .. MaxTicks, OSTimeDly(t, n)
      PROVE CoreTypeInv'
  <2>1. t \in Tasks /\ t # Idle /\ n \in 0 .. MaxTicks
    BY BoundsAssumption DEF AppTasks
  <2>2. OSTCBDly' \in [Tasks -> 0 .. MaxTicks]
    BY <1>2, <2>1 DEF OSTimeDly
  <2>3. pc' \in [Tasks -> Places] /\ pc'[Idle] = "app"
    BY <1>2, <2>1, TasksAssumption DEF OSTimeDly, Goto
  <2>. QED
    BY <1>2, <2>1, <2>2, <2>3 DEF OSTimeDly
<1>3. ASSUME NEW t \in AppTasks, NEW u \in Suspendable, OSTaskSuspend(t, u)
      PROVE CoreTypeInv'
  BY <1>3, TasksAssumption, UsersAssumption
  DEF OSTaskSuspend, CallsBlocking, Calls, AppTasks, Goto, StatBits
<1>4. ASSUME NEW t \in AppTasks, NEW u \in Suspendable, OSTaskResume(t, u)
      PROVE CoreTypeInv'
  BY <1>4, TasksAssumption, UsersAssumption
  DEF OSTaskResume, Calls, AppTasks, Goto, StatBits
<1>5. ASSUME NEW t \in AppTasks, OSSchedLock(t) \/ OSSchedUnlock(t)
      PROVE CoreTypeInv'
  <2>1. t \in Tasks /\ t # Idle
    BY DEF AppTasks
  <2>2. CASE OSSchedLock(t)
    BY <2>2, BoundsAssumption DEF OSSchedLock
  <2>3. CASE OSSchedUnlock(t)
    <3>1. OSLockNesting' \in 0 .. MaxLock
      BY <2>3, BoundsAssumption DEF OSSchedUnlock
    <3>2. pc' \in [Tasks -> Places] /\ pc'[Idle] = "app"
      BY <2>1, <2>3 DEF OSSchedUnlock, Goto
    <3>. QED  BY <2>3, <3>1, <3>2 DEF OSSchedUnlock
  <2>. QED  BY <1>5, <2>2, <2>3
<1>6. CASE OSTimeTick
  <2>1. OSRdyTbl' \subseteq Tasks /\ Idle \in OSRdyTbl'
    BY <1>6 DEF OSTimeTick, Expired
  <2>2. OSTCBDly' \in [Tasks -> 0 .. MaxTicks]
    BY <1>6, BoundsAssumption DEF OSTimeTick
  <2>3. OS_Sched(OSRdyTbl')
    BY <1>6 DEF OSTimeTick, OSIntExit
  <2>. QED  BY <1>6, <2>1, <2>2, <2>3, SchedType DEF OSTimeTick
<1>7. CASE PendSV_Handler
  BY <1>7 DEF PendSV_Handler
<1>. QED  BY <1>1, <1>2, <1>3, <1>4, <1>5, <1>6, <1>7 DEF CoreNext

\* What a step of the core may do to the waiting tasks: nothing to the lists
\* and to the pends, and nothing to a status but setting or clearing its
\* suspension.
LEMMA CoreKeepsWaits ==
  ASSUME CoreTypeOK, CoreNext
  PROVE  /\ UNCHANGED <<eventVars, frameVars>>
         /\ \A t \in Tasks :
              /\ Pending(t)' <=> Pending(t)
              /\ OSTCBStat'[t] \ {"suspend"} = OSTCBStat[t] \ {"suspend"}
BY UsersAssumption
DEF CoreTypeOK, AppTasks, Pending, Goto, Calls, CallsBlocking, CoreNext,
    TaskSched, OSTimeDly, OSTaskSuspend, OSTaskResume, OSSchedLock,
    OSSchedUnlock, OSTimeTick, PendSV_Handler, readyVars, eventVars, frameVars

\* A task that is released from its pend, with nothing but a suspension to
\* hold it, stays released.
LEMMA CoreKeepsReleased ==
  ASSUME CoreTypeOK, CoreNext, NEW t \in Tasks, Pending(t), OSTCBDly[t] = 0,
         OSTCBStat[t] \subseteq {"suspend"},
         t \in OSRdyTbl \/ "suspend" \in OSTCBStat[t]
  PROVE  /\ OSTCBDly'[t] = 0
         /\ t \in OSRdyTbl' \/ "suspend" \in OSTCBStat'[t]
BY UsersAssumption
DEF CoreTypeOK, AppTasks, Pending, Goto, Calls, CallsBlocking, CoreNext,
    TaskSched, OSTimeDly, OSTaskSuspend, OSTaskResume, OSSchedLock,
    OSSchedUnlock, OSTimeTick, Expired, PendSV_Handler, readyVars, eventVars,
    frameVars

(***************************************************************************)
(* The types of the queues.                                                *)
(***************************************************************************)
USE QueueAssumption

TypeInv == TypeOK /\ IdleAwake

\* What a step of the ring must keep.
RingType ==
  /\ OSQStart \in [Events -> [0 .. OSQSize - 1 -> Msgs \cup {NoMsg}]]
  /\ OSQIn \in [Events -> 0 .. OSQSize - 1]
  /\ OSQOut \in [Events -> 0 .. OSQSize - 1]
  /\ OSQEntries \in [Events -> 0 .. OSQSize]

\* What the three posts have in common: the message is left with the tasks W
\* that wait, or it is put into the ring because none does.
Delivers(e, m) ==
  \/ /\ \E W \in SUBSET OSEventTbl[e] :
          /\ W = OSEventTbl[e] \/ W = {HighestOf(OSEventTbl[e])}
          /\ W # {}
          /\ Hand(e, W, m)
     /\ UNCHANGED ringVars
  \/ /\ OSEventTbl[e] = {}
     /\ Put(e, m) \/ PutFront(e, m)
     /\ UNCHANGED <<readyVars, eventVars, OSTCBMsg>>

\* A post delivers its message.
LEMMA PostDelivers ==
  ASSUME TypeOK, NEW e \in Events, NEW m \in Msgs, NEW front \in BOOLEAN,
         QPost(e, m) \/ QPostFront(e, m) \/ QPostAll(e, m, front)
  PROVE  Delivers(e, m)
<1>1. CASE OSEventTbl[e] # {}
  <2>1. HighestOf(OSEventTbl[e]) \in OSEventTbl[e]
    BY <1>1, HighestWaiting DEF TypeOK
  <2>2. /\ {HighestOf(OSEventTbl[e])} \in SUBSET OSEventTbl[e]
        /\ OSEventTbl[e] \in SUBSET OSEventTbl[e]
    BY <2>1
  <2>3. /\ UNCHANGED ringVars
        /\ \/ Hand(e, {HighestOf(OSEventTbl[e])}, m)
           \/ Hand(e, OSEventTbl[e], m)
    BY <1>1 DEF QPost, QPostFront, QPostAll
  <2>. QED  BY <1>1, <2>2, <2>3 DEF Delivers
<1>2. CASE OSEventTbl[e] = {}
  BY <1>2 DEF QPost, QPostFront, QPostAll, Delivers
<1>. QED  BY <1>1, <1>2

-----------------------------------------------------------------------------
(* Types.                                                                   *)

\* Init is typed.
LEMMA InitType == Init => TypeInv
<1>. SUFFICES ASSUME Init PROVE TypeInv
  OBVIOUS
<1>1. CoreTypeOK /\ IdleAwake
  BY CoreInitType DEF Init, CoreTypeInv
<1>2. RingType
  BY DEF Init, RingType
<1>. QED  BY <1>1, <1>2 DEF Init, TypeInv, TypeOK, RingType

\* The steps of the ring keep its types.
LEMMA RingStepType ==
  ASSUME RingType, NEW e \in Events, NEW m \in Msgs,
         Put(e, m) \/ PutFront(e, m)
  PROVE  RingType'
<1>1. CASE OSQEntries[e] < OSQSize
  <2>1. OSQEntries[e] + 1 \in 0 .. OSQSize
    BY <1>1 DEF RingType
  <2>2. After(OSQIn[e]) \in 0 .. OSQSize - 1
    BY DEF RingType, After
  <2>3. Before(OSQOut[e]) \in 0 .. OSQSize - 1
    BY DEF RingType, Before
  <2>4. OSQEntries' \in [Events -> 0 .. OSQSize]
    BY <1>1, <2>1 DEF RingType, Put, PutFront
  <2>5. /\ OSQIn' \in [Events -> 0 .. OSQSize - 1]
        /\ OSQOut' \in [Events -> 0 .. OSQSize - 1]
    BY <1>1, <2>2, <2>3 DEF RingType, Put, PutFront
  <2>6. OSQStart' \in [Events -> [0 .. OSQSize - 1 -> Msgs \cup {NoMsg}]]
    <3>1. PICK i \in 0 .. OSQSize - 1 :
            OSQStart' = [OSQStart EXCEPT ![e] = [@ EXCEPT ![i] = m]]
      BY <1>1, <2>5 DEF RingType, Put, PutFront
    <3>. QED  BY <3>1 DEF RingType
  <2>. QED  BY <2>4, <2>5, <2>6 DEF RingType
<1>2. CASE ~(OSQEntries[e] < OSQSize)
  BY <1>2 DEF RingType, Put, PutFront, ringVars
<1>. QED  BY <1>1, <1>2

\* Taking a message out keeps the types of the ring and of the result.
LEMMA TakeOutType ==
  ASSUME TypeOK, NEW t \in Tasks, NEW e \in Events, TakeOut(t, e)
  PROVE  RingType' /\ msg' \in [Tasks -> Msgs \cup {NoMsg}]
<1>1. OSQEntries[e] - 1 \in 0 .. OSQSize
  BY DEF TypeOK, TakeOut
<1>2. After(OSQOut[e]) \in 0 .. OSQSize - 1
  BY DEF TypeOK, After
<1>3. /\ OSQEntries' \in [Events -> 0 .. OSQSize]
      /\ OSQOut' \in [Events -> 0 .. OSQSize - 1]
  BY <1>1, <1>2 DEF TypeOK, TakeOut
<1>4. OSQStart[e][OSQOut[e]] \in Msgs \cup {NoMsg}
  BY DEF TypeOK
<1>5. msg' \in [Tasks -> Msgs \cup {NoMsg}]
  BY <1>4 DEF TypeOK, TakeOut
<1>. QED  BY <1>3, <1>5 DEF TypeOK, RingType, TakeOut

EventsType ==
  /\ OSEventTbl \in [Events -> SUBSET Tasks]
  /\ OSTCBDly \in [Tasks -> 0 .. MaxTicks]
  /\ OSTCBEventPtr \in [Tasks -> Events \cup {NoEvent}]
  /\ OSTCBStat \in [Tasks -> SUBSET StatBits]
  /\ OSRdyTbl \subseteq Tasks
  /\ Idle \in OSRdyTbl
  /\ OSTCBMsg \in [Tasks -> Msgs \cup {NoMsg}]

\* Handing a message or nothing to waiting tasks keeps the types.
LEMMA HandType ==
  ASSUME TypeInv, NEW e \in Events, NEW W \in SUBSET OSEventTbl[e],
         NEW m \in Msgs \cup {NoMsg}, Hand(e, W, m)
  PROVE  EventsType'
<1>1. W \in SUBSET Tasks /\ "q" \in StatBits /\ CoreTypeOK
  BY DEF TypeInv, TypeOK, CoreTypeOK, StatBits
<1>2. OS_EventTaskRdy(e, W, "q")
  BY DEF Hand
<1>3. OSTCBMsg' \in [Tasks -> Msgs \cup {NoMsg}]
  BY DEF Hand, TypeInv, TypeOK
<1>. QED
  BY <1>1, <1>2, <1>3, TaskRdyType DEF EventsType, TypeInv, IdleAwake

\* So does a delivery.
LEMMA DeliverType ==
  ASSUME TypeInv, NEW e \in Events, NEW m \in Msgs, Delivers(e, m)
  PROVE  EventsType' /\ RingType'
<1>0. EventsType /\ RingType
  BY DEF TypeInv, TypeOK, CoreTypeOK, IdleAwake, EventsType, RingType
<1>1. ASSUME NEW W \in SUBSET OSEventTbl[e], Hand(e, W, m), UNCHANGED ringVars
      PROVE  EventsType' /\ RingType'
  BY <1>0, <1>1, HandType DEF ringVars, RingType
<1>2. ASSUME Put(e, m) \/ PutFront(e, m),
             UNCHANGED <<readyVars, eventVars, OSTCBMsg>>
      PROVE  EventsType' /\ RingType'
  BY <1>0, <1>2, RingStepType DEF readyVars, eventVars, EventsType
<1>. QED  BY <1>1, <1>2 DEF Delivers

\* Type correctness is kept by the steps of the scheduling core ...
LEMMA CoreStepType ==
  ASSUME TypeInv, CoreNext, UNCHANGED queueVars
  PROVE  TypeInv'
BY CoreType DEF TypeInv, TypeOK, CoreTypeInv, queueVars, ringVars

\* ... by the services of the queues ...
LEMMA TaskType ==
  ASSUME TypeInv, NEW t \in AppTasks, TaskNext(t)
  PROVE  TypeInv'
<1>. USE DEF TypeInv, IdleAwake, TypeOK, CoreTypeOK, Places, queueVars,
             readyVars, eventVars, cpuVars, switchVars, frameVars, coreVars,
             ringVars, AppTasks
<1>0. t \in Tasks /\ t # Idle
  OBVIOUS
<1>z. 0 \in 0 .. OSQSize - 1 /\ 0 \in 0 .. OSQSize
  OBVIOUS
<1>1. ASSUME NEW e \in Events, OSQCreate(t, e) PROVE TypeInv'
  BY <1>z, <1>1 DEF OSQCreate
<1>2. ASSUME NEW e \in Events, OSQDelNoPend(t, e) PROVE TypeInv'
  BY <1>2 DEF OSQDelNoPend
<1>3. ASSUME NEW e \in Events, OSQDelAlways(t, e) PROVE TypeInv'
  <2>1. Hand(e, OSEventTbl[e], NoMsg)
    BY <1>3 DEF OSQDelAlways
  <2>2. EventsType'
    BY <2>1, HandType
  <2>3. pc' \in [Tasks -> Places] /\ pc'[Idle] = "app"
    BY <1>0, <1>3 DEF OSQDelAlways, Goto
  <2>. QED
    BY <1>3, <2>2, <2>3 DEF OSQDelAlways, EventsType
<1>4. ASSUME NEW e \in Events, OSQFlush(t, e) PROVE TypeInv'
  BY <1>z, <1>4 DEF OSQFlush
<1>5. ASSUME NEW e \in Events, OSQAccept(t, e) \/ OSQPendTake(t, e)
      PROVE  TypeInv'
  <2>1. /\ TakeOut(t, e)
        /\ UNCHANGED <<coreVars, OSEventType, OSTCBMsg>>
    BY <1>5 DEF OSQAccept, OSQPendTake
  <2>2. RingType' /\ msg' \in [Tasks -> Msgs \cup {NoMsg}]
    BY <1>0, <2>1, TakeOutType
  <2>. QED  BY <2>1, <2>2 DEF RingType
<1>6. ASSUME NEW e \in Events, NEW n \in 0 .. MaxTicks, OSQPendWait(t, e, n)
      PROVE TypeInv'
  BY <1>0, <1>6 DEF OSQPendWait, OS_EventTaskWait, Goto, StatBits
<1>7. CASE OSQPendWake(t)
  <2>1. /\ OSEventTbl' \in [Events -> SUBSET Tasks]
        /\ OSTCBEventPtr' \in [Tasks -> Events \cup {NoEvent}]
        /\ OSTCBStat' \in [Tasks -> SUBSET StatBits]
    <3>1. /\ OSTCBEventPtr' = [OSTCBEventPtr EXCEPT ![t] = NoEvent]
          /\ OSTCBStat' = [OSTCBStat EXCEPT ![t] = {}]
          /\ \/ OSEventTbl' = OSEventTbl
             \/ OSEventTbl' = [OSEventTbl EXCEPT ![pevent[t]] = @ \ {t}]
      BY <1>7 DEF OSQPendWake, OS_EventTO
    <3>2. OSEventTbl' \in [Events -> SUBSET Tasks]
      <4>1. CASE OSEventTbl' = OSEventTbl
        BY <4>1
      <4>2. CASE OSEventTbl' = [OSEventTbl EXCEPT ![pevent[t]] = @ \ {t}]
        <5>1. OSEventTbl' = [f \in Events |-> IF f = pevent[t]
                               THEN OSEventTbl[f] \ {t} ELSE OSEventTbl[f]]
          BY <4>2
        <5>. QED  BY <5>1
      <4>. QED  BY <3>1, <4>1, <4>2
    <3>3. OSTCBEventPtr' \in [Tasks -> Events \cup {NoEvent}]
      BY <3>1
    <3>4. OSTCBStat' \in [Tasks -> SUBSET StatBits]
      BY <3>1
    <3>. QED  BY <3>2, <3>3, <3>4
  <2>2. /\ msg' \in [Tasks -> Msgs \cup {NoMsg}]
        /\ OSTCBMsg' \in [Tasks -> Msgs \cup {NoMsg}]
    BY <1>0, <1>7 DEF OSQPendWake
  <2>3. /\ pevent' \in [Tasks -> Events \cup {NoEvent}]
        /\ timeout' \in [Tasks -> 0 .. MaxTicks]
        /\ pc' \in [Tasks -> Places] /\ pc'[Idle] = "app"
    <3>1. 0 \in 0 .. MaxTicks
      BY BoundsAssumption
    <3>. QED  BY <1>0, <1>7, <3>1 DEF OSQPendWake, Goto
  <2>. QED  BY <1>7, <2>1, <2>2, <2>3 DEF OSQPendWake
<1>8. ASSUME NEW e \in Events, NEW m \in Msgs, Delivers(e, m), Posted(t, e)
      PROVE TypeInv'
  <2>1. EventsType' /\ RingType'
    BY <1>8, DeliverType
  <2>2. pc' \in [Tasks -> Places] /\ pc'[Idle] = "app"
    BY <1>0, <1>8 DEF Posted, Goto
  <2>. QED
    BY <1>8, <2>1, <2>2 DEF Posted, EventsType, RingType
<1>. HIDE DEF TypeOK, CoreTypeOK, IdleAwake, Places, queueVars, readyVars,
              eventVars, cpuVars, switchVars, frameVars, coreVars, ringVars,
              AppTasks
<1>9. ASSUME NEW e \in Events, NEW m \in Msgs, NEW front \in BOOLEAN,
             OSQPost(t, e, m) \/ OSQPostFront(t, e, m)
               \/ OSQPostOpt(t, e, m, front)
      PROVE TypeInv'
  BY <1>8, <1>9, PostDelivers DEF TypeInv, OSQPost, OSQPostFront, OSQPostOpt
<1>. HIDE DEF TypeInv
<1>. QED
  BY <1>1, <1>2, <1>3, <1>4, <1>5, <1>6, <1>7, <1>9 DEF TaskNext

\* ... and by the interrupt handler.
LEMMA IrqType ==
  ASSUME TypeInv, NEW e \in Events, NEW m \in Msgs, IrqQPost(e, m)
  PROVE  TypeInv'
<1>. USE DEF TypeInv, IdleAwake, TypeOK, CoreTypeOK, switchVars, frameVars
<1>1. EventsType' /\ RingType'
  BY DeliverType, PostDelivers DEF IrqQPost
<1>2. /\ {OSTCBHighRdy', OSPrioHighRdy'} \subseteq Tasks
      /\ pendSV' \in BOOLEAN
  BY <1>1, SchedType DEF IrqQPost, EventsType
<1>. QED  BY <1>1, <1>2 DEF IrqQPost, EventsType, RingType

\* Every step keeps the types.
LEMMA NextType == TypeInv /\ [Next]_vars => TypeInv'
<1>. SUFFICES ASSUME TypeInv, [Next]_vars PROVE TypeInv'
  OBVIOUS
<1>1. CASE UNCHANGED vars
  BY <1>1
  DEF vars, coreVars, queueVars, ringVars, readyVars, eventVars, cpuVars,
      switchVars, frameVars, TypeInv, TypeOK, CoreTypeOK, IdleAwake
<1>2. CASE Next
  BY <1>2, CoreStepType, TaskType, IrqType DEF Next
<1>. QED  BY <1>1, <1>2

\* UcosQueue is type correct: the indices of a ring stay inside it and its
\* number of entries within its size, whatever is posted, taken and flushed.
THEOREM TypeCorrect == Spec => []TypeOK
<1>1. TypeInv => TypeOK
  BY DEF TypeInv
<1>. QED  BY <1>1, InitType, NextType, PTL DEF Spec

-----------------------------------------------------------------------------
(* The wait lists and the messages that are left.  A message may go into    *)
(* the ring only if nobody waits, a task that is left a message must be off *)
(* the list for good, and neither follows without the other.                *)

\* A task waits for nothing but a queue, and its status says so no longer when
\* a message has been left for it.
StatusOK ==
  \A t \in Tasks :
    /\ OSTCBStat[t] \subseteq {"q", "suspend"}
    /\ OSTCBMsg[t] # NoMsg => "q" \notin OSTCBStat[t]

Lists == WaitListsAgree /\ NoMessageWhileWaiting /\ LeftMessageWakes /\ StatusOK

SafeInv == TypeInv /\ Lists

\* The invariant holds initially.
LEMMA InitSafe == Init => SafeInv
<1>. SUFFICES ASSUME Init PROVE SafeInv
  OBVIOUS
<1>1. Lists
  BY EventsAssumption
  DEF Init, CoreInit, Lists, WaitListsAgree, NoMessageWhileWaiting,
      LeftMessageWakes, StatusOK
<1>. QED  BY <1>1, InitType DEF SafeInv

\* A task in its own code is on no list and has been left nothing.
LEMMA CallerWaitsNot ==
  ASSUME Lists, NEW t \in Tasks, Calls(t)
  PROVE  /\ ~Pending(t)
         /\ OSTCBMsg[t] = NoMsg
         /\ \A e \in Events : t \notin OSEventTbl[e] /\ OSTCBEventPtr[t] # e
BY DEF Lists, WaitListsAgree, LeftMessageWakes, Calls, Pending

\* The tasks W leave the list with m, and nothing else about the lists
\* changes.
LEMMA HandLists ==
  ASSUME SafeInv, NEW e \in Events, NEW W \in SUBSET OSEventTbl[e],
         NEW m \in Msgs \cup {NoMsg}, Hand(e, W, m),
         \A t \in Tasks : Pending(t)' <=> Pending(t)
  PROVE  /\ \A t \in Tasks, f \in Events :
              /\ t \in OSEventTbl'[f] <=> OSTCBEventPtr'[t] = f
              /\ t \in OSEventTbl'[f] =>
                   /\ t \in OSEventTbl[f] /\ OSTCBStat'[t] = OSTCBStat[t]
                   /\ OSTCBMsg'[t] = OSTCBMsg[t]
         /\ \A f \in Events :
              OSEventTbl'[f] = IF f = e THEN OSEventTbl[e] \ W ELSE OSEventTbl[f]
         /\ LeftMessageWakes'
         /\ StatusOK'
<1>t. CoreTypeOK
  BY DEF SafeInv, TypeInv, TypeOK
<1>1. \A f \in Events :
        OSEventTbl'[f] = IF f = e THEN OSEventTbl[e] \ W ELSE OSEventTbl[f]
  BY <1>t DEF Hand, OS_EventTaskRdy, CoreTypeOK
<1>2. ASSUME NEW t \in Tasks, t \in W
      PROVE  /\ OSTCBEventPtr'[t] = NoEvent
             /\ OSTCBStat'[t] = OSTCBStat[t] \ {"q"}
             /\ OSTCBDly'[t] = 0
             /\ OSTCBMsg'[t] = m
  BY <1>2 DEF Hand, OS_EventTaskRdy
<1>w. ASSUME NEW t \in Tasks, t \notin W
      PROVE  /\ OSTCBEventPtr'[t] = OSTCBEventPtr[t]
             /\ OSTCBStat'[t] = OSTCBStat[t]
             /\ OSTCBDly'[t] = OSTCBDly[t]
             /\ OSTCBMsg'[t] = OSTCBMsg[t]
  BY <1>w DEF Hand, OS_EventTaskRdy
<1>3. OSRdyTbl' = OSRdyTbl \cup {t \in W : OSTCBStat[t] \subseteq {"q"}}
  BY DEF Hand, OS_EventTaskRdy
<1>4. \A t \in W : t \in Tasks /\ Pending(t) /\ OSTCBEventPtr[t] = e
  BY <1>t DEF SafeInv, Lists, WaitListsAgree, CoreTypeOK
<1>5. \A t \in Tasks, f \in Events :
        t \in OSEventTbl[f] <=> OSTCBEventPtr[t] = f
  BY DEF SafeInv, Lists, WaitListsAgree
<1>6. ASSUME NEW t \in Tasks, NEW f \in Events
      PROVE /\ t \in OSEventTbl'[f] <=> OSTCBEventPtr'[t] = f
            /\ t \in OSEventTbl'[f] =>
                 /\ t \in OSEventTbl[f] /\ OSTCBStat'[t] = OSTCBStat[t]
                 /\ OSTCBMsg'[t] = OSTCBMsg[t]
  <2>1. CASE t \in W
    <3>1. OSTCBEventPtr'[t] # f
      BY <1>2, <2>1, EventsAssumption
    <3>2. t \notin OSEventTbl'[f]
      BY <1>1, <1>4, <1>5, <2>1
    <3>. QED  BY <3>1, <3>2
  <2>2. CASE t \notin W
    BY <1>1, <1>w, <1>5, <2>2
  <2>. QED  BY <2>1, <2>2
<1>7. LeftMessageWakes'
  <2>. SUFFICES ASSUME NEW t \in Tasks, OSTCBMsg'[t] # NoMsg
                PROVE  /\ Pending(t)' /\ OSTCBDly'[t] = 0
                       /\ OSTCBEventPtr'[t] = NoEvent
                       /\ t \in OSRdyTbl' \/ "suspend" \in OSTCBStat'[t]
    BY DEF LeftMessageWakes
  <2>1. CASE t \in W
    BY <1>2, <1>3, <1>4, <2>1 DEF SafeInv, Lists, StatusOK
  <2>2. CASE t \notin W
    BY <1>w, <1>3, <2>2 DEF SafeInv, Lists, LeftMessageWakes
  <2>. QED  BY <2>1, <2>2
<1>8. StatusOK'
  BY <1>2, <1>w DEF SafeInv, Lists, StatusOK
<1>. QED  BY <1>1, <1>6, <1>7, <1>8

\* A step that leaves the waits alone, and in no live ring a message for which
\* a task waits, keeps the invariant.
LEMMA QuietLists ==
  ASSUME Lists, UNCHANGED <<readyVars, eventVars, OSTCBMsg, pevent>>,
         \A t \in Tasks : Pending(t)' <=> Pending(t),
         \A e \in Events : OSEventTbl[e] # {} =>
           (Live(e)' <=> Live(e)) /\ OSQEntries'[e] = OSQEntries[e]
  PROVE  Lists'
BY DEF Lists, WaitListsAgree, NoMessageWhileWaiting, LeftMessageWakes,
       StatusOK, readyVars, eventVars

\* A delivery keeps the invariant.
LEMMA DeliverLists ==
  ASSUME SafeInv, NEW e \in Events, NEW m \in Msgs, Delivers(e, m),
         UNCHANGED <<OSEventType, pevent>>,
         \A t \in Tasks : Pending(t)' <=> Pending(t)
  PROVE  Lists'
<1>1. \A f \in Events : Live(f)' <=> Live(f)
  BY DEF Live
<1>2. ASSUME NEW W \in SUBSET OSEventTbl[e], Hand(e, W, m), UNCHANGED ringVars
      PROVE  Lists'
  <2>1. LeftMessageWakes' /\ StatusOK'
    BY <1>2, HandLists
  <2>0. m \in Msgs \cup {NoMsg}
    OBVIOUS
  <2>2. ASSUME NEW t \in Tasks, NEW f \in Events
        PROVE  /\ t \in OSEventTbl'[f] <=> OSTCBEventPtr'[t] = f
               /\ t \in OSEventTbl'[f] =>
                    /\ t \in OSEventTbl[f] /\ OSTCBStat'[t] = OSTCBStat[t]
                    /\ OSTCBMsg'[t] = OSTCBMsg[t]
    BY <1>2, <2>0, HandLists
  <2>l. \A f \in Events : OSEventTbl'[f] \subseteq OSEventTbl[f]
    BY <1>2 DEF Hand, OS_EventTaskRdy, SafeInv, TypeInv, TypeOK, CoreTypeOK
  <2>3. WaitListsAgree'
    BY <1>1, <2>2 DEF SafeInv, Lists, WaitListsAgree
  <2>4. OSQEntries' = OSQEntries
    BY <1>2 DEF ringVars
  <2>5. NoMessageWhileWaiting'
    BY <1>1, <2>l, <2>4 DEF SafeInv, Lists, NoMessageWhileWaiting
  <2>. QED  BY <2>1, <2>3, <2>5 DEF Lists
<1>3. ASSUME OSEventTbl[e] = {}, Put(e, m) \/ PutFront(e, m),
             UNCHANGED <<readyVars, eventVars, OSTCBMsg>>
      PROVE  Lists'
  <2>1. \A f \in Events : f # e => OSQEntries'[f] = OSQEntries[f]
    BY <1>3 DEF Put, PutFront, ringVars, SafeInv, TypeInv, TypeOK
  <2>. QED  BY <1>1, <1>3, <2>1, QuietLists DEF SafeInv
<1>. QED  BY <1>2, <1>3 DEF Delivers

\* The steps of the core keep the invariant.
LEMMA CoreSafe ==
  ASSUME SafeInv, CoreNext, UNCHANGED queueVars
  PROVE  SafeInv'
<1>. USE DEF SafeInv, Lists, queueVars
<1>t. CoreTypeOK
  BY DEF TypeInv, TypeOK
<1>0. TypeInv'
  BY CoreStepType
<1>1. /\ OSEventTbl' = OSEventTbl /\ OSTCBEventPtr' = OSTCBEventPtr
      /\ pevent' = pevent
      /\ \A t \in Tasks :
           /\ Pending(t)' <=> Pending(t)
           /\ "q" \in OSTCBStat'[t] <=> "q" \in OSTCBStat[t]
           /\ OSTCBStat'[t] \subseteq {"q", "suspend"}
  <2>1. UNCHANGED <<eventVars, frameVars>>
    BY <1>t, CoreKeepsWaits
  <2>2. ASSUME NEW t \in Tasks
        PROVE  /\ Pending(t)' <=> Pending(t)
               /\ OSTCBStat'[t] \ {"suspend"} = OSTCBStat[t] \ {"suspend"}
    BY <1>t, CoreKeepsWaits
  <2>3. ASSUME NEW t \in Tasks
        PROVE  /\ "q" \in OSTCBStat'[t] <=> "q" \in OSTCBStat[t]
               /\ OSTCBStat'[t] \subseteq {"q", "suspend"}
    BY <2>2 DEF StatusOK
  <2>. QED  BY <2>1, <2>2, <2>3 DEF eventVars, frameVars
<1>m. OSTCBMsg' = OSTCBMsg
  OBVIOUS
<1>2. WaitListsAgree' /\ NoMessageWhileWaiting' /\ StatusOK'
  <2>1. WaitListsAgree'
    BY <1>1, <1>m DEF WaitListsAgree, Live, Pending
  <2>2. NoMessageWhileWaiting'
    BY <1>1 DEF NoMessageWhileWaiting, Live, ringVars
  <2>3. StatusOK'
    BY <1>1, <1>m DEF StatusOK
  <2>. QED  BY <2>1, <2>2, <2>3
<1>3. LeftMessageWakes'
  <2>. SUFFICES ASSUME NEW t \in Tasks, OSTCBMsg'[t] # NoMsg
                PROVE  /\ Pending(t)' /\ OSTCBDly'[t] = 0
                       /\ OSTCBEventPtr'[t] = NoEvent
                       /\ t \in OSRdyTbl' \/ "suspend" \in OSTCBStat'[t]
    BY DEF LeftMessageWakes
  <2>1. /\ Pending(t) /\ OSTCBDly[t] = 0 /\ OSTCBEventPtr[t] = NoEvent
        /\ t \in OSRdyTbl \/ "suspend" \in OSTCBStat[t]
        /\ OSTCBStat[t] \subseteq {"suspend"}
    BY <1>m DEF LeftMessageWakes, StatusOK
  <2>2. /\ OSTCBDly'[t] = 0
        /\ t \in OSRdyTbl' \/ "suspend" \in OSTCBStat'[t]
    BY <1>t, <2>1, CoreKeepsReleased
  <2>. QED  BY <1>1, <2>1, <2>2 DEF Pending
<1>. QED  BY <1>0, <1>2, <1>3

\* The services of the queues.
LEMMA TaskSafe ==
  ASSUME SafeInv, NEW t \in AppTasks, TaskNext(t)
  PROVE  Lists'
<1>t. t \in Tasks /\ TypeOK /\ CoreTypeOK /\ Lists
  BY DEF SafeInv, TypeInv, TypeOK, AppTasks
<1>g. ASSUME Calls(t), NEW p \in {"app", "sched"}, Goto(t, p)
      PROVE  \A u \in Tasks : Pending(u)' <=> Pending(u)
  BY <1>t, <1>g DEF Calls, Goto, Pending, CoreTypeOK
<1>1. ASSUME NEW e \in Events, OSQCreate(t, e) PROVE Lists'
  <2>1. OSEventTbl[e] = {}
    BY <1>1, <1>t DEF OSQCreate, Lists, WaitListsAgree, Live, CoreTypeOK
  <2>2. OSEventTbl' = OSEventTbl
    BY <1>1, <1>t, <2>1 DEF OSQCreate, CoreTypeOK
  <2>3. \A f \in Events : f # e =>
          (Live(f)' <=> Live(f)) /\ OSQEntries'[f] = OSQEntries[f]
    BY <1>1, <1>t DEF OSQCreate, Live, TypeOK
  <2>4. \A u \in Tasks : Pending(u)' <=> Pending(u)
    BY <1>1 DEF OSQCreate, Pending
  <2>5. UNCHANGED <<readyVars, eventVars, OSTCBMsg, pevent>>
    BY <1>1, <2>2 DEF OSQCreate, eventVars, frameVars
  <2>. QED  BY <1>t, <2>1, <2>3, <2>4, <2>5, QuietLists
<1>2. ASSUME NEW e \in Events, OSQDelNoPend(t, e) PROVE Lists'
  <2>1. \A f \in Events : f # e => (Live(f)' <=> Live(f))
    BY <1>2, <1>t DEF OSQDelNoPend, Live, TypeOK
  <2>2. /\ OSEventTbl[e] = {} /\ OSQEntries' = OSQEntries
        /\ UNCHANGED <<readyVars, eventVars, OSTCBMsg, pevent, pc>>
    BY <1>2 DEF OSQDelNoPend, coreVars, frameVars, ringVars
  <2>. QED  BY <1>t, <2>1, <2>2, QuietLists DEF Pending
<1>3. ASSUME NEW e \in Events, OSQDelAlways(t, e) PROVE Lists'
  <2>1. Hand(e, OSEventTbl[e], NoMsg) /\ OSEventTbl[e] \in SUBSET OSEventTbl[e]
    BY <1>3 DEF OSQDelAlways
  <2>2. \A u \in Tasks : Pending(u)' <=> Pending(u)
    BY <1>3, <1>g DEF OSQDelAlways
  <2>3. LeftMessageWakes' /\ StatusOK'
    BY <2>1, <2>2, HandLists
  <2>4. ASSUME NEW u \in Tasks, NEW f \in Events
        PROVE  /\ u \in OSEventTbl'[f] <=> OSTCBEventPtr'[u] = f
               /\ u \in OSEventTbl'[f] =>
                    /\ u \in OSEventTbl[f] /\ OSTCBStat'[u] = OSTCBStat[u]
                    /\ OSTCBMsg'[u] = OSTCBMsg[u]
    BY <2>1, <2>2, HandLists
  <2>5. OSEventTbl'[e] = {}
        /\ \A f \in Events : OSEventTbl'[f] \subseteq OSEventTbl[f]
    BY <1>t, <2>1 DEF Hand, OS_EventTaskRdy, CoreTypeOK
  <2>6. \A f \in Events : f # e => (Live(f)' <=> Live(f))
    BY <1>3, <1>t DEF OSQDelAlways, Live, TypeOK
  <2>7. pevent' = pevent /\ OSQEntries' = OSQEntries
    BY <1>3 DEF OSQDelAlways, frameVars, ringVars
  <2>8. WaitListsAgree'
    BY <1>t, <2>2, <2>4, <2>5, <2>6, <2>7 DEF Lists, WaitListsAgree
  <2>9. NoMessageWhileWaiting'
    BY <1>t, <2>5, <2>6, <2>7 DEF Lists, NoMessageWhileWaiting
  <2>. QED  BY <2>3, <2>8, <2>9 DEF Lists
<1>4. ASSUME NEW e \in Events, OSQFlush(t, e) PROVE Lists'
  <2>1. UNCHANGED <<readyVars, eventVars, OSTCBMsg, pevent, pc, OSEventType>>
    BY <1>4 DEF OSQFlush, coreVars, frameVars
  <2>2. \A f \in Events : OSQEntries'[f] = OSQEntries[f] \/ OSQEntries'[f] = 0
    BY <1>4, <1>t DEF OSQFlush, TypeOK
  <2>3. OSEventTbl[e] # {} => OSQEntries[e] = 0
    BY <1>4, <1>t DEF OSQFlush, Lists, NoMessageWhileWaiting
  <2>4. \A f \in Events : OSEventTbl[f] # {} => OSQEntries'[f] = OSQEntries[f]
    BY <1>4, <1>t, <2>3 DEF OSQFlush, TypeOK
  <2>. QED  BY <1>t, <2>1, <2>4, QuietLists DEF Pending, Live
<1>5. ASSUME NEW e \in Events, OSQAccept(t, e) \/ OSQPendTake(t, e)
      PROVE  Lists'
  <2>1. /\ UNCHANGED <<readyVars, eventVars, OSTCBMsg, pevent, pc, OSEventType>>
        /\ Live(e) /\ TakeOut(t, e)
    BY <1>5 DEF OSQAccept, OSQPendTake, coreVars, frameVars
  <2>2. OSEventTbl[e] = {}
    BY <1>t, <2>1 DEF TakeOut, Lists, NoMessageWhileWaiting
  <2>3. \A f \in Events : f # e => OSQEntries'[f] = OSQEntries[f]
    BY <1>t, <2>1 DEF TakeOut, TypeOK
  <2>. QED  BY <1>t, <2>1, <2>2, <2>3, QuietLists DEF Pending, Live
<1>6. ASSUME NEW e \in Events, NEW n \in 0 .. MaxTicks, OSQPendWait(t, e, n)
      PROVE  Lists'
  <2>1. /\ ~Pending(t) /\ OSTCBMsg[t] = NoMsg
        /\ \A f \in Events : t \notin OSEventTbl[f] /\ OSTCBEventPtr[t] # f
    BY <1>6, <1>t, CallerWaitsNot DEF OSQPendWait, CallsBlocking
  <2>2. /\ Live(e) /\ OSQEntries[e] = 0 /\ OSTCBMsg' = OSTCBMsg
        /\ OSQEntries' = OSQEntries /\ OSEventType' = OSEventType
        /\ OSRdyTbl' = OSRdyTbl \ {t}
    BY <1>6 DEF OSQPendWait, OS_EventTaskWait, ringVars
  <2>3. \A f \in Events : OSEventTbl'[f] =
          IF f = e THEN OSEventTbl[f] \cup {t} ELSE OSEventTbl[f]
    BY <1>6, <1>t DEF OSQPendWait, OS_EventTaskWait, CoreTypeOK
  <2>4. /\ OSTCBEventPtr'[t] = e
        /\ OSTCBStat'[t] = OSTCBStat[t] \cup {"q"}
        /\ pevent'[t] = e
        /\ Pending(t)'
    BY <1>6, <1>t DEF OSQPendWait, OS_EventTaskWait, Goto, Pending, CoreTypeOK
  <2>5. ASSUME NEW u \in Tasks, u # t
        PROVE  /\ OSTCBEventPtr'[u] = OSTCBEventPtr[u]
               /\ OSTCBStat'[u] = OSTCBStat[u] /\ OSTCBDly'[u] = OSTCBDly[u]
               /\ pevent'[u] = pevent[u]
               /\ Pending(u)' <=> Pending(u)
    BY <1>6, <1>t, <2>5 DEF OSQPendWait, OS_EventTaskWait, Goto, Pending,
                            CoreTypeOK
  <2>6. \A f \in Events : Live(f)' <=> Live(f)
    BY <2>2 DEF Live
  <2>7. WaitListsAgree'
    <3>. SUFFICES ASSUME NEW u \in Tasks, NEW f \in Events
                  PROVE /\ u \in OSEventTbl'[f] <=> OSTCBEventPtr'[u] = f
                        /\ u \in OSEventTbl'[f] =>
                             /\ Live(f)' /\ Pending(u)' /\ pevent'[u] = f
                             /\ "q" \in OSTCBStat'[u] /\ OSTCBMsg'[u] = NoMsg
      BY DEF WaitListsAgree
    <3>1. CASE u = t
      BY <2>1, <2>2, <2>3, <2>4, <2>6, <3>1
    <3>2. CASE u # t
      <4>1. u \in OSEventTbl'[f] <=> u \in OSEventTbl[f]
        BY <2>3, <3>2
      <4>2. OSTCBMsg'[u] = OSTCBMsg[u]
        BY <2>2
      <4>. QED
        BY <1>t, <2>5, <2>6, <3>2, <4>1, <4>2 DEF Lists, WaitListsAgree
    <3>. QED  BY <3>1, <3>2
  <2>8. NoMessageWhileWaiting'
    BY <1>t, <2>2, <2>3, <2>6 DEF Lists, NoMessageWhileWaiting
  <2>9. LeftMessageWakes'
    BY <1>t, <2>1, <2>2, <2>5 DEF Lists, LeftMessageWakes
  <2>10. StatusOK'
    BY <1>t, <2>1, <2>2, <2>4, <2>5 DEF Lists, StatusOK
  <2>. QED  BY <2>7, <2>8, <2>9, <2>10 DEF Lists
<1>7. CASE OSQPendWake(t)
  <2>1. /\ OSTCBMsg'[t] = NoMsg /\ OSTCBEventPtr'[t] = NoEvent
        /\ OSTCBStat'[t] = {}
        /\ OSRdyTbl' = OSRdyTbl /\ OSTCBDly' = OSTCBDly
        /\ OSQEntries' = OSQEntries /\ OSEventType' = OSEventType
    BY <1>7, <1>t DEF OSQPendWake, OS_EventTO, CoreTypeOK, TypeOK, ringVars
  <2>2. ASSUME NEW u \in Tasks, u # t
        PROVE  /\ OSTCBEventPtr'[u] = OSTCBEventPtr[u]
               /\ OSTCBStat'[u] = OSTCBStat[u]
               /\ OSTCBMsg'[u] = OSTCBMsg[u]
               /\ pevent'[u] = pevent[u]
               /\ Pending(u)' <=> Pending(u)
    BY <1>7, <1>t, <2>2 DEF OSQPendWake, OS_EventTO, Goto, Pending, CoreTypeOK,
                            TypeOK
  <2>3. \A f \in Events : OSEventTbl'[f] = OSEventTbl[f] \ {t}
    <3>1. CASE OSTCBMsg[t] # NoMsg
      <4>1. \A f \in Events : t \notin OSEventTbl[f]
        BY <1>t, <3>1 DEF Lists, WaitListsAgree
      <4>2. OSEventTbl' = OSEventTbl
        BY <1>7, <3>1 DEF OSQPendWake
      <4>. QED  BY <4>1, <4>2
    <3>2. CASE OSTCBMsg[t] = NoMsg
      <4>1. OSEventTbl' = [OSEventTbl EXCEPT ![pevent[t]] = @ \ {t}]
        BY <1>7, <3>2 DEF OSQPendWake, OS_EventTO
      <4>2. \A f \in Events : t \in OSEventTbl[f] => pevent[t] = f
        BY <1>t DEF Lists, WaitListsAgree
      <4>3. \A f \in Events : OSEventTbl'[f] =
              IF f = pevent[t] THEN OSEventTbl[f] \ {t} ELSE OSEventTbl[f]
        BY <1>t, <4>1 DEF CoreTypeOK
      <4>. QED  BY <4>2, <4>3
    <3>. QED  BY <3>1, <3>2
  <2>4. \A f \in Events : Live(f)' <=> Live(f)
    BY <2>1 DEF Live
  <2>5. WaitListsAgree'
    <3>. SUFFICES ASSUME NEW u \in Tasks, NEW f \in Events
                  PROVE /\ u \in OSEventTbl'[f] <=> OSTCBEventPtr'[u] = f
                        /\ u \in OSEventTbl'[f] =>
                             /\ Live(f)' /\ Pending(u)' /\ pevent'[u] = f
                             /\ "q" \in OSTCBStat'[u] /\ OSTCBMsg'[u] = NoMsg
      BY DEF WaitListsAgree
    <3>1. CASE u = t
      BY <2>1, <2>3, <3>1, EventsAssumption
    <3>2. CASE u # t
      <4>1. u \in OSEventTbl'[f] <=> u \in OSEventTbl[f]
        BY <2>3, <3>2
      <4>. QED
        BY <1>t, <2>2, <2>4, <3>2, <4>1 DEF Lists, WaitListsAgree
    <3>. QED  BY <3>1, <3>2
  <2>6. NoMessageWhileWaiting'
    BY <1>t, <2>1, <2>3, <2>4 DEF Lists, NoMessageWhileWaiting
  <2>7. LeftMessageWakes'
    BY <1>t, <2>1, <2>2 DEF Lists, LeftMessageWakes
  <2>8. StatusOK'
    BY <1>t, <2>1, <2>2 DEF Lists, StatusOK
  <2>. QED  BY <2>5, <2>6, <2>7, <2>8 DEF Lists
<1>8. ASSUME NEW e \in Events, NEW m \in Msgs, NEW front \in BOOLEAN,
             OSQPost(t, e, m) \/ OSQPostFront(t, e, m)
               \/ OSQPostOpt(t, e, m, front)
      PROVE  Lists'
  <2>1. Calls(t) /\ Posted(t, e) /\ Delivers(e, m)
    BY <1>t, <1>8, PostDelivers DEF OSQPost, OSQPostFront, OSQPostOpt
  <2>2. \A u \in Tasks : Pending(u)' <=> Pending(u)
    BY <1>g, <2>1 DEF Posted
  <2>. QED  BY <2>1, <2>2, DeliverLists DEF Posted, frameVars
<1>. QED
  BY <1>1, <1>2, <1>3, <1>4, <1>5, <1>6, <1>7, <1>8 DEF TaskNext

\* A post from an interrupt handler.
LEMMA IrqSafe ==
  ASSUME SafeInv, NEW e \in Events, NEW m \in Msgs, IrqQPost(e, m)
  PROVE  Lists'
<1>1. Delivers(e, m)
  BY PostDelivers DEF IrqQPost, SafeInv, TypeInv
<1>. QED  BY <1>1, DeliverLists DEF IrqQPost, Pending, frameVars

\* Every step keeps the invariant.
LEMMA NextSafe == SafeInv /\ [Next]_vars => SafeInv'
<1>. SUFFICES ASSUME SafeInv, [Next]_vars PROVE SafeInv'
  OBVIOUS
<1>0. TypeInv'
  BY NextType DEF SafeInv
<1>1. CASE UNCHANGED vars
  <2>1. Lists'
    BY <1>1, QuietLists
    DEF SafeInv, vars, coreVars, queueVars, ringVars, frameVars, Pending, Live
  <2>. QED  BY <1>0, <2>1 DEF SafeInv
<1>2. CASE Next
  BY <1>0, <1>2, CoreSafe, TaskSafe, IrqSafe DEF Next, SafeInv
<1>. QED  BY <1>1, <1>2

\* The invariant holds in every behaviour.
LEMMA SafeAlways == Spec => []SafeInv
BY InitSafe, NextSafe, PTL DEF Spec

\* The wait lists and the control blocks of the tasks always agree, and a task
\* on a list has been left no message.
THEOREM WaitListsCorrect == Spec => []WaitListsAgree
<1>1. SafeInv => WaitListsAgree
  BY DEF SafeInv, Lists
<1>. QED  BY <1>1, SafeAlways, PTL

\* No message lies in the ring of a queue that a task waits for, for any
\* number of tasks and queues, whatever has been posted in front or to all,
\* flushed, deleted and created again on the same control block.
THEOREM NoMessageKept == Spec => []NoMessageWhileWaiting
<1>1. SafeInv => NoMessageWhileWaiting
  BY DEF SafeInv, Lists
<1>. QED  BY <1>1, SafeAlways, PTL

\* A message that was left for a task reaches it: the task is ready, or will
\* be when it is resumed, and no tick can turn the message into a timeout.
THEOREM LeftMessagesReachTasks == Spec => []LeftMessageWakes
<1>1. SafeInv => LeftMessageWakes
  BY DEF SafeInv, Lists
<1>. QED  BY <1>1, SafeAlways, PTL
-----------------------------------------------------------------------------
(* The ring as a sequence.                                                  *)

Positions == 0 .. OSQSize - 1

\* The position of the i-th message after the one at o, and the n messages
\* that a ring a holds from o on.
At(o, i) == (o + i - 1) % OSQSize
Ring(a, o, n) == [i \in 1 .. n |-> a[At(o, i)]]

\* One round at most is gone, so the remainder is the index or a ring less.
LEMMA AtPosition ==
  ASSUME NEW o \in Positions, NEW i \in 1 .. OSQSize + 1
  PROVE  /\ At(o, i) \in Positions
         /\ At(o, i) = IF o + i - 1 < OSQSize THEN o + i - 1
                       ELSE o + i - 1 - OSQSize
<1>. DEFINE k == o + i - 1
<1>1. k \in Nat /\ k < 2 * OSQSize
  BY DEF Positions
<1>2. k % OSQSize \in Positions
  BY <1>1 DEF Positions
<1>3. k < OSQSize => k % OSQSize = k
  BY <1>1
<1>4. OSQSize <= k => k % OSQSize = k - OSQSize
  BY <1>1
<1>. QED  BY <1>1, <1>2, <1>3, <1>4 DEF At, Positions

\* The positions after and before o, and those of the messages in front.
LEMMA AtNext ==
  ASSUME NEW o \in Positions
  PROVE  /\ After(o) \in Positions
         /\ Before(o) \in Positions
         /\ At(o, 1) = o
         /\ \A i \in 1 .. OSQSize :
              /\ At(After(o), i) = At(o, i + 1)
              /\ At(Before(o), i + 1) = At(o, i)
              /\ After(At(o, i)) = At(o, i + 1)
<1>1. After(o) \in Positions /\ Before(o) \in Positions
  BY DEF After, Before, Positions
<1>2. At(o, 1) = o
  BY AtPosition DEF Positions
<1>3. ASSUME NEW i \in 1 .. OSQSize
      PROVE  /\ At(After(o), i) = At(o, i + 1)
             /\ At(Before(o), i + 1) = At(o, i)
             /\ After(At(o, i)) = At(o, i + 1)
  <2>1. i \in 1 .. OSQSize + 1 /\ i + 1 \in 1 .. OSQSize + 1
    OBVIOUS
  <2>2. /\ At(o, i) = IF o + i - 1 < OSQSize THEN o + i - 1
                      ELSE o + i - 1 - OSQSize
        /\ At(o, i + 1) = IF o + i < OSQSize THEN o + i ELSE o + i - OSQSize
    BY <2>1, AtPosition DEF Positions
  <2>3. At(After(o), i) = IF After(o) + i - 1 < OSQSize THEN After(o) + i - 1
                          ELSE After(o) + i - 1 - OSQSize
    BY <1>1, <2>1, AtPosition
  <2>4. At(Before(o), i + 1) =
          IF Before(o) + (i + 1) - 1 < OSQSize THEN Before(o) + (i + 1) - 1
          ELSE Before(o) + (i + 1) - 1 - OSQSize
    BY <1>1, <2>1, AtPosition
  <2>. QED  BY <2>2, <2>3, <2>4 DEF After, Before, Positions
<1>. QED  BY <1>1, <1>2, <1>3

\* A position holds one message only.
LEMMA AtApart ==
  ASSUME NEW o \in Positions, NEW n \in 0 .. OSQSize - 1, NEW i \in 1 .. n
  PROVE  At(o, i) # At(o, n + 1)
<1>1. /\ i \in 1 .. OSQSize + 1 /\ n + 1 \in 1 .. OSQSize + 1
  OBVIOUS
<1>2. /\ At(o, i) = IF o + i - 1 < OSQSize THEN o + i - 1
                    ELSE o + i - 1 - OSQSize
      /\ At(o, n + 1) = IF o + n < OSQSize THEN o + n ELSE o + n - OSQSize
  BY <1>1, AtPosition DEF Positions
<1>. QED  BY <1>2 DEF Positions

\* A function on 1 .. n is a sequence of n elements.
LEMMA FunctionIsSeq ==
  ASSUME NEW S, NEW n \in Nat, NEW s \in [1 .. n -> S]
  PROVE  s \in Seq(S) /\ Len(s) = n
<1>1. s \in Seq(S)
  BY SeqDef
<1>2. 1 .. Len(s) = 1 .. n /\ Len(s) \in Nat
  BY <1>1, LenProperties
<1>. QED  BY <1>1, <1>2

Pointers == Msgs \cup {NoMsg}

\* The content of a ring is a sequence of pointers.
LEMMA RingIsSeq ==
  ASSUME NEW a \in [Positions -> Pointers], NEW o \in Positions,
         NEW n \in 0 .. OSQSize
  PROVE  /\ Ring(a, o, n) \in Seq(Pointers)
         /\ Len(Ring(a, o, n)) = n
<1>1. \A i \in 1 .. n : At(o, i) \in Positions
  BY AtPosition
<1>2. Ring(a, o, n) \in [1 .. n -> Pointers]
  BY <1>1 DEF Ring
<1>. QED  BY <1>2, FunctionIsSeq

\* An empty ring, and the first message of one that is not.
LEMMA RingFirst ==
  ASSUME NEW a \in [Positions -> Pointers], NEW o \in Positions,
         NEW n \in 0 .. OSQSize
  PROVE  /\ Ring(a, o, n) = <<>> <=> n = 0
         /\ n # 0 => Head(Ring(a, o, n)) = a[o]
<1>1. Ring(a, o, n) \in Seq(Pointers) /\ Len(Ring(a, o, n)) = n
  BY RingIsSeq
<1>2. Ring(a, o, n) = <<>> <=> n = 0
  BY <1>1, EmptySeq
<1>3. ASSUME n # 0 PROVE Head(Ring(a, o, n)) = a[o]
  <2>1. Head(Ring(a, o, n)) = Ring(a, o, n)[1]
    BY <1>1, <1>2, <1>3
  <2>2. Ring(a, o, n)[1] = a[At(o, 1)]
    BY <1>3 DEF Ring
  <2>. QED  BY <2>1, <2>2, AtNext
<1>. QED  BY <1>2, <1>3

\* A message at the position after the last is appended.
LEMMA RingAppend ==
  ASSUME NEW a \in [Positions -> Pointers], NEW o \in Positions,
         NEW n \in 0 .. OSQSize - 1, NEW m \in Pointers
  PROVE  Ring([a EXCEPT ![At(o, n + 1)] = m], o, n + 1)
           = Append(Ring(a, o, n), m)
<1>. DEFINE b == [a EXCEPT ![At(o, n + 1)] = m]
<1>0. At(o, n + 1) \in Positions /\ \A i \in 1 .. n : At(o, i) \in Positions
  BY AtPosition
<1>1. b \in [Positions -> Pointers]
  OBVIOUS
<1>2. n \in 0 .. OSQSize /\ n + 1 \in 0 .. OSQSize
  OBVIOUS
<1>3. /\ Ring(a, o, n) \in Seq(Pointers) /\ Len(Ring(a, o, n)) = n
      /\ Ring(b, o, n + 1) \in Seq(Pointers) /\ Len(Ring(b, o, n + 1)) = n + 1
  BY <1>1, <1>2, RingIsSeq
<1>4. /\ Append(Ring(a, o, n), m) \in Seq(Pointers)
      /\ Len(Append(Ring(a, o, n), m)) = n + 1
      /\ \A i \in 1 .. n : Append(Ring(a, o, n), m)[i] = Ring(a, o, n)[i]
      /\ Append(Ring(a, o, n), m)[n + 1] = m
  BY <1>3
<1>5. ASSUME NEW i \in 1 .. n + 1
      PROVE  Ring(b, o, n + 1)[i] = Append(Ring(a, o, n), m)[i]
  <2>1. Ring(b, o, n + 1)[i] = b[At(o, i)]
    BY DEF Ring
  <2>2. CASE i = n + 1
    BY <1>0, <1>4, <2>1, <2>2
  <2>3. CASE i # n + 1
    <3>1. i \in 1 .. n
      BY <2>3
    <3>2. b[At(o, i)] = a[At(o, i)]
      BY <1>0, <3>1, AtApart
    <3>3. Ring(a, o, n)[i] = a[At(o, i)]
      BY <3>1 DEF Ring
    <3>. QED  BY <1>4, <2>1, <3>1, <3>2, <3>3
  <2>. QED  BY <2>2, <2>3
<1>. HIDE DEF b
<1>6. Ring(b, o, n + 1) = Append(Ring(a, o, n), m)
  BY <1>3, <1>4, <1>5, SeqEqual
<1>. QED  BY <1>6 DEF b

\* A message at the position before the first goes in front of the others.
LEMMA RingFront ==
  ASSUME NEW a \in [Positions -> Pointers], NEW o \in Positions,
         NEW n \in 0 .. OSQSize - 1, NEW m \in Pointers
  PROVE  Ring([a EXCEPT ![Before(o)] = m], Before(o), n + 1)
           = <<m>> \o Ring(a, o, n)
<1>. DEFINE b == [a EXCEPT ![Before(o)] = m]
            c == <<m>> \o Ring(a, o, n)
            r == Ring(b, Before(o), n + 1)
<1>0. Before(o) \in Positions /\ \A i \in 1 .. n : At(o, i) \in Positions
  BY AtNext, AtPosition
<1>1. b \in [Positions -> Pointers]
  OBVIOUS
<1>2. n \in 0 .. OSQSize /\ n + 1 \in 0 .. OSQSize
  OBVIOUS
<1>3. /\ Ring(a, o, n) \in Seq(Pointers) /\ Len(Ring(a, o, n)) = n
      /\ r \in Seq(Pointers) /\ Len(r) = n + 1
  BY <1>0, <1>1, <1>2, RingIsSeq
<1>4. <<m>> \in Seq(Pointers) /\ Len(<<m>>) = 1 /\ <<m>>[1] = m
  OBVIOUS
<1>5. /\ c \in Seq(Pointers)
      /\ Len(c) = n + 1
      /\ c[1] = m
      /\ \A i \in 2 .. n + 1 : c[i] = Ring(a, o, n)[i - 1]
  BY <1>3, <1>4, ConcatProperties
<1>6. ASSUME NEW i \in 1 .. n + 1
      PROVE  r[i] = c[i]
  <2>1. r[i] = b[At(Before(o), i)]
    BY DEF Ring
  <2>2. CASE i = 1
    <3>1. At(Before(o), i) = Before(o)
      BY <1>0, <2>2, AtNext
    <3>. QED  BY <1>0, <1>5, <2>1, <2>2, <3>1
  <2>3. CASE i # 1
    <3>1. i - 1 \in 1 .. n /\ i - 1 \in 1 .. OSQSize /\ (i - 1) + 1 = i
      BY <2>3
    <3>2. At(Before(o), i) = At(o, i - 1)
      BY <3>1, AtNext
    <3>3. At(o, i - 1) # Before(o)
      <4>1. At(Before(o), n + 2) = At(o, n + 1)
        BY AtNext
      <4>2. i - 1 \in 1 .. OSQSize + 1
        BY <3>1
      <4>3. At(o, i - 1) = IF o + (i - 1) - 1 < OSQSize THEN o + (i - 1) - 1
                           ELSE o + (i - 1) - 1 - OSQSize
        BY <4>2, AtPosition
      <4>. QED  BY <3>1, <4>3 DEF Before, Positions
    <3>4. Ring(a, o, n)[i - 1] = a[At(o, i - 1)]
      BY <3>1 DEF Ring
    <3>5. b[At(o, i - 1)] = a[At(o, i - 1)]
      BY <1>0, <3>1, <3>3
    <3>. QED  BY <1>5, <2>1, <2>3, <3>2, <3>4, <3>5
  <2>. QED  BY <2>2, <2>3
<1>. HIDE DEF b, c, r
<1>7. r = c
  BY <1>3, <1>5, <1>6, SeqEqual
<1>. QED  BY <1>7 DEF b, c, r

\* The others stay when the first message is taken.
LEMMA RingTail ==
  ASSUME NEW a \in [Positions -> Pointers], NEW o \in Positions,
         NEW n \in 1 .. OSQSize
  PROVE  Ring(a, After(o), n - 1) = Tail(Ring(a, o, n))
<1>. DEFINE s == Ring(a, o, n)
            r == Ring(a, After(o), n - 1)
<1>1. n \in 0 .. OSQSize /\ n - 1 \in 0 .. OSQSize /\ After(o) \in Positions
  BY AtNext
<1>2. /\ s \in Seq(Pointers) /\ Len(s) = n
      /\ r \in Seq(Pointers) /\ Len(r) = n - 1
  BY <1>1, RingIsSeq
<1>3. s # <<>>
  BY <1>1, RingFirst
<1>. HIDE DEF s, r
<1>4. /\ Tail(s) \in Seq(Pointers)
      /\ Len(Tail(s)) = n - 1
      /\ \A i \in 1 .. n - 1 : Tail(s)[i] = s[i + 1]
  BY <1>2, <1>3, HeadTailProperties
<1>5. ASSUME NEW i \in 1 .. n - 1
      PROVE  r[i] = Tail(s)[i]
  <2>1. r[i] = a[At(After(o), i)] /\ s[i + 1] = a[At(o, i + 1)]
    BY DEF r, s, Ring
  <2>2. At(After(o), i) = At(o, i + 1)
    BY AtNext
  <2>. QED  BY <1>4, <2>1, <2>2
<1>6. r = Tail(s)
  BY <1>2, <1>4, <1>5, SeqEqual
<1>. QED  BY <1>6 DEF r, s
-----------------------------------------------------------------------------
(* The refinement of QueueService.                                          *)

\* The message that comes next into a ring goes behind the last one.
RingInv == \A e \in Events : OSQIn[e] = At(OSQOut[e], OSQEntries[e] + 1)

\* OSQPend returns the null pointer until it has a message.
ResultClear == \A t \in Tasks : Pending(t) => msg[t] = NoMsg

RefInv == SafeInv /\ RingInv /\ ResultClear

Contents == [e \in Events |-> Content(e)]

\* The content of a queue is what its ring holds.
LEMMA ContentRing ==
  \A e \in Events : Content(e) = Ring(OSQStart[e], OSQOut[e], OSQEntries[e])
BY DEF Content, Ring, At

\* The part of the state that the ring is made of.
LEMMA RingOf ==
  ASSUME TypeOK, NEW e \in Events
  PROVE  /\ OSQStart[e] \in [Positions -> Pointers]
         /\ OSQIn[e] \in Positions /\ OSQOut[e] \in Positions
         /\ OSQEntries[e] \in 0 .. OSQSize
         /\ Len(Content(e)) = OSQEntries[e]
         /\ Content(e) = <<>> <=> OSQEntries[e] = 0
<1>1. /\ OSQStart[e] \in [Positions -> Pointers]
      /\ OSQIn[e] \in Positions /\ OSQOut[e] \in Positions
      /\ OSQEntries[e] \in 0 .. OSQSize
  BY DEF TypeOK, Positions, Pointers
<1>. QED  BY <1>1, ContentRing, RingIsSeq, RingFirst

\* A ring that is left alone has the same content, and so have the rings that
\* a step on another queue does not write.
LEMMA RingsApart ==
  ASSUME RingInv, NEW e \in Events,
         \A f \in Events \ {e} :
           /\ OSQStart'[f] = OSQStart[f] /\ OSQIn'[f] = OSQIn[f]
           /\ OSQOut'[f] = OSQOut[f] /\ OSQEntries'[f] = OSQEntries[f],
         OSQIn'[e] = At(OSQOut'[e], OSQEntries'[e] + 1)
  PROVE  /\ RingInv'
         /\ Contents' = [Contents EXCEPT
                          ![e] = Ring(OSQStart'[e], OSQOut'[e], OSQEntries'[e])]
<1>1. RingInv'
  BY DEF RingInv
<1>2. ASSUME NEW f \in Events
      PROVE  Content(f)' = IF f = e
                             THEN Ring(OSQStart'[e], OSQOut'[e], OSQEntries'[e])
                             ELSE Content(f)
  BY DEF Content, Ring, At
<1>. QED  BY <1>1, <1>2 DEF Contents

\* A step that leaves the rings alone.
LEMMA RingsKept ==
  ASSUME RingInv, UNCHANGED ringVars
  PROVE  RingInv' /\ Contents' = Contents
BY DEF RingInv, ringVars, Contents, Content

\* Put appends to the content, unless the ring is full.
LEMMA PutContent ==
  ASSUME TypeOK, RingInv, NEW e \in Events, NEW m \in Msgs, Put(e, m)
  PROVE  /\ RingInv'
         /\ \/ Contents' = Contents
            \/ /\ OSQEntries[e] < OSQSize
               /\ Contents' = [Contents EXCEPT ![e] = Append(@, m)]
<1>1. CASE ~(OSQEntries[e] < OSQSize)
  BY <1>1, RingsKept DEF Put
<1>2. CASE OSQEntries[e] < OSQSize
  <2>. DEFINE a == OSQStart[e]
              o == OSQOut[e]
              n == OSQEntries[e]
  <2>1. /\ a \in [Positions -> Pointers] /\ o \in Positions
        /\ n \in 0 .. OSQSize - 1 /\ m \in Pointers
    BY <1>2, RingOf DEF Pointers
  <2>2. OSQIn[e] = At(o, n + 1)
    BY DEF RingInv
  <2>3. /\ OSQStart'[e] = [a EXCEPT ![At(o, n + 1)] = m]
        /\ OSQIn'[e] = After(At(o, n + 1))
        /\ OSQOut'[e] = o
        /\ OSQEntries'[e] = n + 1
    BY <1>2, <2>2 DEF Put, TypeOK
  <2>4. n + 1 \in 1 .. OSQSize
    BY <2>1
  <2>5. OSQIn'[e] = At(OSQOut'[e], OSQEntries'[e] + 1)
    <3>1. After(At(o, n + 1)) = At(o, (n + 1) + 1)
      BY <2>1, <2>4, AtNext
    <3>. QED  BY <2>3, <3>1
  <2>6. \A f \in Events \ {e} :
          /\ OSQStart'[f] = OSQStart[f] /\ OSQIn'[f] = OSQIn[f]
          /\ OSQOut'[f] = OSQOut[f] /\ OSQEntries'[f] = OSQEntries[f]
    BY <1>2 DEF Put, TypeOK
  <2>. HIDE DEF a, o, n
  <2>7. Ring(OSQStart'[e], OSQOut'[e], OSQEntries'[e])
          = Append(Ring(a, o, n), m)
    <3>1. Ring([a EXCEPT ![At(o, n + 1)] = m], o, n + 1)
            = Append(Ring(a, o, n), m)
      BY <2>1, RingAppend
    <3>. QED  BY <2>3, <3>1
  <2>8. Ring(a, o, n) = Contents[e]
    BY ContentRing DEF a, o, n, Contents
  <2>9. /\ RingInv'
        /\ Contents' = [Contents EXCEPT ![e] =
                          Ring(OSQStart'[e], OSQOut'[e], OSQEntries'[e])]
    BY <2>5, <2>6, RingsApart
  <2>. QED  BY <1>2, <2>7, <2>8, <2>9
<1>. QED  BY <1>1, <1>2

\* PutFront puts the message before the others.
LEMMA PutFrontContent ==
  ASSUME TypeOK, RingInv, NEW e \in Events, NEW m \in Msgs, PutFront(e, m)
  PROVE  /\ RingInv'
         /\ \/ Contents' = Contents
            \/ /\ OSQEntries[e] < OSQSize
               /\ Contents' = [Contents EXCEPT ![e] = <<m>> \o @]
<1>1. CASE ~(OSQEntries[e] < OSQSize)
  BY <1>1, RingsKept DEF PutFront
<1>2. CASE OSQEntries[e] < OSQSize
  <2>. DEFINE a == OSQStart[e]
              o == OSQOut[e]
              n == OSQEntries[e]
  <2>1. /\ a \in [Positions -> Pointers] /\ o \in Positions
        /\ n \in 0 .. OSQSize - 1 /\ m \in Pointers
    BY <1>2, RingOf DEF Pointers
  <2>2. /\ OSQOut'[e] = Before(o)
        /\ OSQStart'[e] = [a EXCEPT ![Before(o)] = m]
        /\ OSQIn'[e] = OSQIn[e]
        /\ OSQEntries'[e] = n + 1
    BY <1>2 DEF PutFront, TypeOK
  <2>3. OSQIn[e] = At(o, n + 1)
    BY DEF RingInv
  <2>4. n + 1 \in 1 .. OSQSize
    BY <2>1
  <2>5. OSQIn'[e] = At(OSQOut'[e], OSQEntries'[e] + 1)
    BY <2>1, <2>2, <2>3, <2>4, AtNext
  <2>6. \A f \in Events \ {e} :
          /\ OSQStart'[f] = OSQStart[f] /\ OSQIn'[f] = OSQIn[f]
          /\ OSQOut'[f] = OSQOut[f] /\ OSQEntries'[f] = OSQEntries[f]
    BY <1>2 DEF PutFront, TypeOK
  <2>. HIDE DEF a, o, n
  <2>7. Ring(OSQStart'[e], OSQOut'[e], OSQEntries'[e])
          = <<m>> \o Ring(a, o, n)
    <3>1. Ring([a EXCEPT ![Before(o)] = m], Before(o), n + 1)
            = <<m>> \o Ring(a, o, n)
      BY <2>1, RingFront
    <3>. QED  BY <2>2, <3>1
  <2>8. Ring(a, o, n) = Contents[e]
    BY ContentRing DEF a, o, n, Contents
  <2>9. /\ RingInv'
        /\ Contents' = [Contents EXCEPT ![e] =
                          Ring(OSQStart'[e], OSQOut'[e], OSQEntries'[e])]
    BY <2>5, <2>6, RingsApart
  <2>. QED  BY <1>2, <2>7, <2>8, <2>9
<1>. QED  BY <1>1, <1>2

\* TakeOut returns the head of the content and leaves its tail.
LEMMA TakeOutContent ==
  ASSUME TypeOK, RingInv, NEW t \in Tasks, NEW e \in Events, TakeOut(t, e)
  PROVE  /\ RingInv'
         /\ Contents[e] # <<>>
         /\ Contents' = [Contents EXCEPT ![e] = Tail(@)]
         /\ msg' = [msg EXCEPT ![t] = Head(Contents[e])]
<1>. DEFINE a == OSQStart[e]
            o == OSQOut[e]
            n == OSQEntries[e]
<1>1. /\ a \in [Positions -> Pointers] /\ o \in Positions
      /\ n \in 1 .. OSQSize /\ n \in 0 .. OSQSize
  BY RingOf DEF TakeOut
<1>2. /\ OSQStart'[e] = a /\ OSQIn'[e] = OSQIn[e]
      /\ OSQOut'[e] = After(o)
      /\ OSQEntries'[e] = n - 1
  BY DEF TakeOut, TypeOK
<1>3. OSQIn[e] = At(o, n + 1)
  BY DEF RingInv
<1>4. OSQIn'[e] = At(OSQOut'[e], OSQEntries'[e] + 1)
  <2>1. (n - 1) + 1 = n
    BY <1>1
  <2>. QED  BY <1>1, <1>2, <1>3, <2>1, AtNext
<1>5. \A f \in Events \ {e} :
        /\ OSQStart'[f] = OSQStart[f] /\ OSQIn'[f] = OSQIn[f]
        /\ OSQOut'[f] = OSQOut[f] /\ OSQEntries'[f] = OSQEntries[f]
  BY DEF TakeOut, TypeOK
<1>6. msg' = [msg EXCEPT ![t] = a[o]]
  BY DEF TakeOut
<1>. HIDE DEF a, o, n
<1>7. Ring(OSQStart'[e], OSQOut'[e], OSQEntries'[e]) = Tail(Ring(a, o, n))
  BY <1>1, <1>2, RingTail
<1>8. Ring(a, o, n) = Contents[e]
  BY ContentRing DEF a, o, n, Contents
<1>9. Ring(a, o, n) # <<>> /\ Head(Ring(a, o, n)) = a[o]
  BY <1>1, RingFirst
<1>10. /\ RingInv'
       /\ Contents' = [Contents EXCEPT ![e] =
                         Ring(OSQStart'[e], OSQOut'[e], OSQEntries'[e])]
  BY <1>4, <1>5, RingsApart
<1>. QED  BY <1>6, <1>7, <1>8, <1>9, <1>10

\* Creation and flush leave an empty ring.
LEMMA EmptiedContent ==
  ASSUME TypeOK, RingInv, NEW e \in Events,
         OSQIn' = [OSQIn EXCEPT ![e] = 0],
         OSQOut' = [OSQOut EXCEPT ![e] = 0],
         OSQEntries' = [OSQEntries EXCEPT ![e] = 0],
         OSQStart' = OSQStart
  PROVE  RingInv' /\ Contents' = [Contents EXCEPT ![e] = <<>>]
<1>1. OSQStart[e] \in [Positions -> Pointers] /\ 0 \in Positions
      /\ 0 \in 0 .. OSQSize
  BY RingOf DEF Positions
<1>2. At(0, 0 + 1) = 0
  BY <1>1, AtNext
<1>3. Ring(OSQStart[e], 0, 0) = <<>>
  BY <1>1, RingFirst
<1>4. /\ OSQStart'[e] = OSQStart[e] /\ OSQIn'[e] = 0 /\ OSQOut'[e] = 0
      /\ OSQEntries'[e] = 0
  BY DEF TypeOK
<1>5. \A f \in Events \ {e} :
        /\ OSQStart'[f] = OSQStart[f] /\ OSQIn'[f] = OSQIn[f]
        /\ OSQOut'[f] = OSQOut[f] /\ OSQEntries'[f] = OSQEntries[f]
  BY DEF TypeOK
<1>6. /\ RingInv'
      /\ Contents' = [Contents EXCEPT ![e] =
                        Ring(OSQStart'[e], OSQOut'[e], OSQEntries'[e])]
  BY <1>2, <1>4, <1>5, RingsApart
<1>. QED  BY <1>3, <1>4, <1>6

-----------------------------------------------------------------------------
(* The invariant of the refinement.                                         *)

\* It holds initially.
LEMMA InitRef == Init => RefInv
<1>. SUFFICES ASSUME Init PROVE RefInv
  OBVIOUS
<1>1. SafeInv
  BY InitSafe
<1>2. RingInv
  <2>1. 0 \in Positions
    BY DEF Positions
  <2>. QED  BY <2>1, AtNext DEF Init, RingInv
<1>3. ResultClear
  BY DEF Init, ResultClear
<1>. QED  BY <1>1, <1>2, <1>3 DEF RefInv

\* Every step of the program keeps the rings in order.
LEMMA NextRing ==
  ASSUME RefInv, Next
  PROVE  RingInv'
<1>t. TypeOK /\ RingInv
  BY DEF RefInv, SafeInv, TypeInv
<1>d. ASSUME NEW e \in Events, NEW m \in Msgs, NEW front \in BOOLEAN,
             QPost(e, m) \/ QPostFront(e, m) \/ QPostAll(e, m, front)
      PROVE  RingInv'
  <2>1. Delivers(e, m)
    BY <1>t, <1>d, PostDelivers
  <2>. QED  BY <1>t, <2>1, PutContent, PutFrontContent, RingsKept DEF Delivers
<1>1. CASE CoreNext /\ UNCHANGED queueVars
  BY <1>t, <1>1, RingsKept DEF queueVars
<1>2. ASSUME NEW t \in AppTasks, TaskNext(t) PROVE RingInv'
  <2>0. t \in Tasks
    BY DEF AppTasks
  <2>1. ASSUME NEW e \in Events, OSQCreate(t, e) \/ OSQFlush(t, e)
        PROVE  RingInv'
    BY <1>t, <2>1, EmptiedContent DEF OSQCreate, OSQFlush
  <2>2. ASSUME NEW e \in Events, OSQDelNoPend(t, e) \/ OSQDelAlways(t, e)
        PROVE  RingInv'
    BY <1>t, <2>2, RingsKept DEF OSQDelNoPend, OSQDelAlways
  <2>3. ASSUME NEW e \in Events, OSQAccept(t, e) \/ OSQPendTake(t, e)
        PROVE  RingInv'
    BY <1>t, <2>0, <2>3, TakeOutContent DEF OSQAccept, OSQPendTake
  <2>4. ASSUME NEW e \in Events, NEW n \in 0 .. MaxTicks, OSQPendWait(t, e, n)
        PROVE  RingInv'
    BY <1>t, <2>4, RingsKept DEF OSQPendWait
  <2>5. CASE OSQPendWake(t)
    BY <1>t, <2>5, RingsKept DEF OSQPendWake
  <2>6. ASSUME NEW e \in Events, NEW m \in Msgs, NEW front \in BOOLEAN,
               OSQPost(t, e, m) \/ OSQPostFront(t, e, m)
                 \/ OSQPostOpt(t, e, m, front)
        PROVE  RingInv'
    BY <1>d, <2>6 DEF OSQPost, OSQPostFront, OSQPostOpt
  <2>. QED
    BY <1>2, <2>1, <2>2, <2>3, <2>4, <2>5, <2>6 DEF TaskNext
<1>3. ASSUME NEW e \in IrqPosts, NEW m \in Msgs, IrqQPost(e, m) PROVE RingInv'
  BY <1>d, <1>3 DEF IrqQPost
<1>. QED  BY <1>1, <1>2, <1>3 DEF Next

\* Every step of the program leaves the result of a pending task alone.
LEMMA NextResult ==
  ASSUME RefInv, Next
  PROVE  ResultClear'
<1>. USE DEF ResultClear
<1>t. TypeOK /\ CoreTypeOK /\ ResultClear
  BY DEF RefInv, SafeInv, TypeInv, TypeOK
<1>k. ASSUME msg' = msg, \A u \in Tasks : Pending(u)' => Pending(u)
      PROVE  ResultClear'
  BY <1>t, <1>k
<1>1. CASE CoreNext /\ UNCHANGED queueVars
  <2>1. \A u \in Tasks : Pending(u)' <=> Pending(u)
    BY <1>t, <1>1, CoreKeepsWaits
  <2>. QED  BY <1>1, <1>k, <2>1 DEF queueVars
<1>2. ASSUME NEW t \in AppTasks, TaskNext(t) PROVE ResultClear'
  <2>0. t \in Tasks
    BY DEF AppTasks
  <2>g. ASSUME NEW p \in {"app", "sched"}, Goto(t, p)
        PROVE  \A u \in Tasks : Pending(u)' => Pending(u)
    BY <1>t, <2>0, <2>g DEF Goto, Pending, CoreTypeOK
  <2>1. ASSUME NEW e \in Events,
               OSQCreate(t, e) \/ OSQFlush(t, e) \/ OSQDelNoPend(t, e)
        PROVE  ResultClear'
    BY <1>k, <2>1 DEF OSQCreate, OSQFlush, OSQDelNoPend, Pending, coreVars
  <2>2. ASSUME NEW e \in Events, OSQDelAlways(t, e) PROVE ResultClear'
    BY <1>k, <2>2, <2>g DEF OSQDelAlways
  <2>3. ASSUME NEW e \in Events, OSQAccept(t, e) \/ OSQPendTake(t, e)
        PROVE  ResultClear'
    <3>1. pc' = pc /\ pc[t] = "app" /\ \A u \in Tasks : u # t => msg'[u] = msg[u]
      BY <1>t, <2>3
      DEF OSQAccept, OSQPendTake, CallsBlocking, Calls, TakeOut, coreVars,
          TypeOK
    <3>. QED  BY <1>t, <3>1 DEF Pending
  <2>4. ASSUME NEW e \in Events, NEW n \in 0 .. MaxTicks, OSQPendWait(t, e, n)
        PROVE  ResultClear'
    BY <1>t, <2>0, <2>4 DEF OSQPendWait, Goto, Pending, CoreTypeOK, TypeOK
  <2>5. CASE OSQPendWake(t)
    BY <1>t, <2>0, <2>5 DEF OSQPendWake, Goto, Pending, CoreTypeOK, TypeOK
  <2>6. ASSUME NEW e \in Events, NEW m \in Msgs, NEW front \in BOOLEAN,
               OSQPost(t, e, m) \/ OSQPostFront(t, e, m)
                 \/ OSQPostOpt(t, e, m, front)
        PROVE  ResultClear'
    BY <1>k, <2>6, <2>g DEF OSQPost, OSQPostFront, OSQPostOpt, Posted
  <2>. QED
    BY <1>2, <2>1, <2>2, <2>3, <2>4, <2>5, <2>6 DEF TaskNext
<1>3. ASSUME NEW e \in IrqPosts, NEW m \in Msgs, IrqQPost(e, m)
      PROVE ResultClear'
  BY <1>k, <1>3 DEF IrqQPost, Pending
<1>. QED  BY <1>1, <1>2, <1>3 DEF Next

\* Every step keeps the invariant of the refinement.
LEMMA NextRef == RefInv /\ [Next]_vars => RefInv'
<1>. SUFFICES ASSUME RefInv, [Next]_vars PROVE RefInv'
  OBVIOUS
<1>1. SafeInv'
  BY NextSafe DEF RefInv
<1>2. CASE UNCHANGED vars
  <2>1. RingInv'
    BY <1>2, RingsKept DEF RefInv, vars, queueVars
  <2>2. ResultClear'
    BY <1>2 DEF RefInv, ResultClear, Pending, vars, queueVars, coreVars
  <2>. QED  BY <1>1, <2>1, <2>2 DEF RefInv
<1>3. CASE Next
  BY <1>1, <1>3, NextRing, NextResult DEF RefInv
<1>. QED  BY <1>2, <1>3
-----------------------------------------------------------------------------
(* The steps of the service.                                                *)

\* A task on a list pends, and is not the idle task.
LEMMA ListedPends ==
  ASSUME SafeInv, NEW e \in Events
  PROVE  OSEventTbl[e] \subseteq {t \in AppTasks : Pending(t)}
BY DEF SafeInv, TypeInv, TypeOK, CoreTypeOK, IdleAwake, Lists, WaitListsAgree,
       Pending, AppTasks

\* What the service sees changes only with the lists, the rings, the types,
\* the messages and the tasks that are in a pend.
LEMMA Stutter ==
  ASSUME UNCHANGED <<OSEventType, Contents, OSEventTbl, OSTCBMsg, msg>>,
         \A t \in AppTasks : Pending(t)' <=> Pending(t)
  PROVE  UNCHANGED Service!svars
<1>1. \A t \in AppTasks : PhaseOf(t)' = PhaseOf(t)
  BY DEF PhaseOf
<1>2. \A e \in Events : Live(e)' = Live(e)
  BY DEF Live
<1>. QED  BY <1>1, <1>2 DEF Service!svars, Contents

\* A step of the core leaves the abstract queues alone.
LEMMA CoreStutters ==
  ASSUME TypeOK, RingInv, CoreNext, UNCHANGED queueVars
  PROVE  UNCHANGED Service!svars
<1>1. OSEventTbl' = OSEventTbl /\ \A t \in AppTasks : Pending(t)' <=> Pending(t)
  BY CoreKeepsWaits DEF TypeOK, AppTasks, eventVars
<1>2. Contents' = Contents
  BY RingsKept DEF queueVars
<1>. QED  BY <1>1, <1>2, Stutter DEF queueVars

\* The tasks W are released with m, which may be no message.
LEMMA HandReleases ==
  ASSUME SafeInv, NEW e \in Events, NEW W \in SUBSET OSEventTbl[e],
         NEW m \in Pointers, Hand(e, W, m),
         \A t \in Tasks : Pending(t)' <=> Pending(t)
  PROVE  Service!Release(e, W, m)
<1>1. OSEventTbl' = [OSEventTbl EXCEPT ![e] = @ \ W]
  BY DEF Hand, OS_EventTaskRdy
<1>2. \A f \in Events :
        OSEventTbl'[f] = IF f = e THEN OSEventTbl[e] \ W ELSE OSEventTbl[f]
  BY <1>1 DEF SafeInv, TypeInv, TypeOK, CoreTypeOK
<1>3. ASSUME NEW t \in AppTasks
      PROVE  PhaseOf(t)' = IF t \in W THEN "released" ELSE PhaseOf(t)
  <2>1. t \in Tasks
    BY DEF AppTasks
  <2>2. CASE t \in W
    <3>1. Pending(t) /\ \A f \in Events : t \in OSEventTbl[f] => f = e
      BY <2>1, <2>2 DEF SafeInv, Lists, WaitListsAgree
    <3>2. \A f \in Events : t \notin OSEventTbl'[f]
      BY <1>2, <2>2, <3>1
    <3>. QED  BY <2>1, <2>2, <3>1, <3>2 DEF PhaseOf
  <2>3. CASE t \notin W
    <3>1. \A f \in Events : t \in OSEventTbl'[f] <=> t \in OSEventTbl[f]
      BY <1>2, <2>3
    <3>. QED  BY <2>1, <2>3, <3>1 DEF PhaseOf
  <2>. QED  BY <2>2, <2>3
<1>4. [t \in AppTasks |-> OSTCBMsg[t]]' =
        [t \in AppTasks |-> IF t \in W THEN m ELSE OSTCBMsg[t]]
  BY DEF Hand, AppTasks
<1>5. [t \in AppTasks |-> PhaseOf(t)]' =
        [t \in AppTasks |-> IF t \in W THEN "released" ELSE PhaseOf(t)]
  BY <1>3
<1>. QED  BY <1>1, <1>4, <1>5 DEF Service!Release

\* A delivery hands the message to the first waiter or to all, keeps it at one
\* end of the content, or loses it because the ring is full.
LEMMA DeliverRefines ==
  ASSUME SafeInv, RingInv, NEW e \in Events, NEW m \in Msgs, Live(e),
         Delivers(e, m), UNCHANGED <<OSEventType, msg>>,
         \A t \in Tasks : Pending(t)' <=> Pending(t)
  PROVE  [Service!SNext]_(Service!svars)
<1>t. TypeOK
  BY DEF SafeInv, TypeInv
<1>1. \A f \in Events : Live(f)' = Live(f)
  BY DEF Live
<1>2. ASSUME NEW W \in SUBSET OSEventTbl[e], W # {}, Hand(e, W, m),
             W = OSEventTbl[e] \/ W = {HighestOf(OSEventTbl[e])},
             UNCHANGED ringVars
      PROVE  Service!SNext
  <2>1. Service!Release(e, W, m)
    BY <1>2, HandReleases DEF Pointers
  <2>2. W = OSEventTbl[e] \/ \E c \in W : W = {c} /\ \A d \in OSEventTbl[e] : c <= d
    <3>1. CASE W = {HighestOf(OSEventTbl[e])}
      <4>1. OSEventTbl[e] \subseteq Nat /\ OSEventTbl[e] # {}
        BY <1>2, <1>t, TasksAssumption DEF TypeOK, CoreTypeOK
      <4>2. \A d \in OSEventTbl[e] : HighestOf(OSEventTbl[e]) <= d
        BY <4>1, HighestExists
      <4>. QED  BY <3>1, <4>2
    <3>. QED  BY <1>2, <3>1
  <2>3. Contents' = Contents
    BY <1>2, RingsKept
  <2>4. Service!Hand(e, m)
    BY <1>1, <1>2, <2>1, <2>2, <2>3 DEF Service!Hand, Contents
  <2>. QED  BY <2>4 DEF Service!SNext
<1>3. ASSUME OSEventTbl[e] = {}, Put(e, m) \/ PutFront(e, m),
             UNCHANGED <<readyVars, eventVars, OSTCBMsg>>
      PROVE  [Service!SNext]_(Service!svars)
  <2>0. \A t \in AppTasks : Pending(t)' <=> Pending(t)
    BY DEF AppTasks
  <2>1. CASE Contents' = Contents
    BY <1>3, <2>0, <2>1, Stutter DEF eventVars
  <2>2. CASE Contents' # Contents
    <3>1. /\ OSQEntries[e] < OSQSize
          /\ Contents' \in {[Contents EXCEPT ![e] = Append(@, m)],
                            [Contents EXCEPT ![e] = <<m>> \o @]}
      BY <1>3, <1>t, <2>2, PutContent, PutFrontContent
    <3>2. Len(Contents[e]) < OSQSize
      BY <1>t, <3>1, RingOf DEF Contents
    <3>3. \A t \in AppTasks : PhaseOf(t)' = PhaseOf(t)
      BY <1>3, <2>0 DEF PhaseOf, eventVars
    <3>4. Service!Keep(e, m)
      BY <1>1, <1>3, <3>1, <3>2, <3>3 DEF Service!Keep, Contents, eventVars
    <3>. QED  BY <3>4 DEF Service!SNext
  <2>. QED  BY <2>1, <2>2
<1>. QED  BY <1>2, <1>3 DEF Delivers

\* The services, called by a task.
LEMMA TaskRefines ==
  ASSUME RefInv, NEW t \in AppTasks, TaskNext(t)
  PROVE  [Service!SNext]_(Service!svars)
<1>. DEFINE phase == [u \in AppTasks |-> PhaseOf(u)]
            inbox == [u \in AppTasks |-> OSTCBMsg[u]]
            result == [u \in AppTasks |-> msg[u]]
<1>t. /\ t \in Tasks /\ SafeInv /\ RingInv /\ ResultClear
      /\ TypeOK /\ CoreTypeOK /\ Lists
  BY DEF RefInv, SafeInv, TypeInv, TypeOK, AppTasks
<1>c. ASSUME Calls(t) PROVE PhaseOf(t) = "idle" /\ ~Pending(t)
  BY <1>c DEF Calls, Pending, PhaseOf
<1>g. ASSUME Calls(t), NEW p \in {"app", "sched"}, Goto(t, p)
      PROVE  \A u \in Tasks : Pending(u)' <=> Pending(u)
  BY <1>t, <1>g DEF Calls, Goto, Pending, CoreTypeOK
<1>u. ASSUME UNCHANGED <<pc, OSEventTbl>>
      PROVE  phase' = phase
  BY <1>u DEF PhaseOf, Pending
<1>1. ASSUME NEW e \in Events, OSQCreate(t, e) PROVE Service!SNext
  <2>1. OSEventTbl[e] = {}
    BY <1>t, <1>1 DEF OSQCreate, Lists, WaitListsAgree, Live, CoreTypeOK
  <2>2. OSEventTbl' = OSEventTbl
    BY <1>t, <1>1, <2>1 DEF OSQCreate, CoreTypeOK
  <2>3. \A f \in Events : Live(f)' <=> f = e \/ Live(f)
    BY <1>t, <1>1 DEF OSQCreate, Live, TypeOK
  <2>4. Contents' = [Contents EXCEPT ![e] = <<>>]
    BY <1>t, <1>1, EmptiedContent DEF OSQCreate
  <2>5. Service!Create(e)
    BY <1>1, <1>u, <2>2, <2>3, <2>4 DEF OSQCreate, Service!Create, Live, Contents
  <2>. QED  BY <2>5 DEF Service!SNext
<1>2. ASSUME NEW e \in Events, OSQDelNoPend(t, e) PROVE Service!SNext
  <2>1. \A f \in Events : Live(f)' <=> f # e /\ Live(f)
    BY <1>t, <1>2 DEF OSQDelNoPend, Live, TypeOK
  <2>2. UNCHANGED <<pc, OSEventTbl>>
    BY <1>2 DEF OSQDelNoPend, coreVars, eventVars
  <2>3. OSEventTbl[e] = {} /\ OSEventTbl' = [OSEventTbl EXCEPT ![e] = @ \ {}]
    BY <1>t, <1>2, <2>2 DEF OSQDelNoPend, CoreTypeOK
  <2>4. Contents' = Contents
    BY <1>t, <1>2, RingsKept DEF OSQDelNoPend
  <2>5. phase' = phase /\ inbox' = inbox /\ result' = result
    BY <1>2, <1>u, <2>2 DEF OSQDelNoPend
  <2>6. Service!Release(e, {}, NoMsg)
    BY <2>3, <2>5 DEF Service!Release
  <2>7. Service!Delete(e)
    BY <1>2, <2>1, <2>3, <2>4, <2>5, <2>6
    DEF OSQDelNoPend, Service!Delete, Contents
  <2>. QED  BY <2>7 DEF Service!SNext
<1>3. ASSUME NEW e \in Events, OSQDelAlways(t, e) PROVE Service!SNext
  <2>1. \A f \in Events : Live(f)' <=> f # e /\ Live(f)
    BY <1>t, <1>3 DEF OSQDelAlways, Live, TypeOK
  <2>2. /\ Hand(e, OSEventTbl[e], NoMsg) /\ NoMsg \in Pointers
        /\ OSEventTbl[e] \in SUBSET OSEventTbl[e]
    BY <1>3 DEF OSQDelAlways, Pointers
  <2>3. \A u \in Tasks : Pending(u)' <=> Pending(u)
    BY <1>3, <1>g DEF OSQDelAlways
  <2>4. Service!Release(e, OSEventTbl[e], NoMsg)
    BY <1>t, <2>2, <2>3, HandReleases
  <2>5. Contents' = Contents
    BY <1>t, <1>3, RingsKept DEF OSQDelAlways
  <2>6. Service!Delete(e)
    BY <1>3, <2>1, <2>4, <2>5 DEF OSQDelAlways, Service!Delete, Contents
  <2>. QED  BY <2>6 DEF Service!SNext
<1>4. ASSUME NEW e \in Events, OSQFlush(t, e) PROVE Service!SNext
  <2>1. Contents' = [Contents EXCEPT ![e] = <<>>]
    BY <1>t, <1>4, EmptiedContent DEF OSQFlush
  <2>2. UNCHANGED <<pc, OSEventTbl>>
    BY <1>4 DEF OSQFlush, coreVars, eventVars
  <2>3. \A f \in Events : Live(f)' = Live(f)
    BY <1>4 DEF OSQFlush, Live
  <2>4. Service!Flush(e)
    BY <1>4, <1>u, <2>1, <2>2, <2>3 DEF OSQFlush, Service!Flush, Contents
  <2>. QED  BY <2>4 DEF Service!SNext
<1>5. ASSUME NEW e \in Events, OSQAccept(t, e) \/ OSQPendTake(t, e)
      PROVE  Service!SNext
  <2>1. /\ Live(e) /\ Calls(t) /\ TakeOut(t, e)
        /\ UNCHANGED <<pc, OSEventTbl, OSEventType, OSTCBMsg>>
    BY <1>5 DEF OSQAccept, OSQPendTake, CallsBlocking, coreVars, eventVars
  <2>2. \A f \in Events : Live(f)' = Live(f)
    BY <2>1 DEF Live
  <2>3. /\ Contents[e] # <<>>
        /\ Contents' = [Contents EXCEPT ![e] = Tail(@)]
        /\ msg' = [msg EXCEPT ![t] = Head(Contents[e])]
    BY <1>t, <2>1, TakeOutContent
  <2>4. result' = [result EXCEPT ![t] = Head(Contents[e])]
    BY <1>t, <2>3 DEF TypeOK, AppTasks
  <2>5. Service!Take(t, e)
    BY <1>c, <1>u, <2>1, <2>2, <2>3, <2>4 DEF Service!Take, Contents
  <2>. QED  BY <2>5 DEF Service!SNext
<1>6. ASSUME NEW e \in Events, NEW n \in 0 .. MaxTicks, OSQPendWait(t, e, n)
      PROVE  Service!SNext
  <2>1. Calls(t) /\ Live(e) /\ OSQEntries[e] = 0
    BY <1>6 DEF OSQPendWait, CallsBlocking
  <2>2. OSEventTbl' = [OSEventTbl EXCEPT ![e] = @ \cup {t}]
    BY <1>6 DEF OSQPendWait, OS_EventTaskWait
  <2>3. \A f \in Events : Live(f)' = Live(f)
    BY <1>6 DEF OSQPendWait, Live
  <2>4. \A u \in Tasks : Pending(u)' <=> u = t \/ Pending(u)
    BY <1>t, <1>6 DEF OSQPendWait, Goto, Pending, CoreTypeOK
  <2>5. \A u \in AppTasks : PhaseOf(u)' = IF u = t THEN "waiting" ELSE PhaseOf(u)
    <3>. SUFFICES ASSUME NEW u \in AppTasks
                  PROVE  PhaseOf(u)' = IF u = t THEN "waiting" ELSE PhaseOf(u)
      OBVIOUS
    <3>1. u \in Tasks
      BY DEF AppTasks
    <3>2. \A f \in Events : OSEventTbl'[f] =
            IF f = e THEN OSEventTbl[f] \cup {t} ELSE OSEventTbl[f]
      BY <1>t, <2>2 DEF CoreTypeOK
    <3>3. CASE u = t
      <4>1. t \in OSEventTbl'[e] /\ Pending(t)'
        BY <1>t, <2>4, <3>2
      <4>. QED  BY <3>3, <4>1 DEF PhaseOf
    <3>4. CASE u # t
      <4>1. \A f \in Events : u \in OSEventTbl'[f] <=> u \in OSEventTbl[f]
        BY <3>2, <3>4
      <4>. QED  BY <2>4, <3>1, <3>4, <4>1 DEF PhaseOf
    <3>. QED  BY <3>3, <3>4
  <2>6. phase' = [phase EXCEPT ![t] = "waiting"]
    BY <2>5
  <2>7. result' = [result EXCEPT ![t] = NoMsg]
    BY <1>t, <1>6 DEF OSQPendWait, TypeOK, AppTasks
  <2>8. Contents' = Contents /\ Contents[e] = <<>>
    BY <1>t, <1>6, <2>1, RingsKept, RingOf DEF OSQPendWait, Contents
  <2>9. Service!Wait(t, e)
    BY <1>6, <1>c, <2>1, <2>2, <2>3, <2>6, <2>7, <2>8
    DEF OSQPendWait, Service!Wait, Contents
  <2>. QED  BY <2>9 DEF Service!SNext
<1>7. CASE OSQPendWake(t)
  <2>1. Pending(t) /\ \A u \in Tasks : Pending(u)' <=> u # t /\ Pending(u)
    BY <1>t, <1>7 DEF OSQPendWake, Goto, Pending, CoreTypeOK
  <2>2. \A f \in Events : Live(f)' = Live(f)
    BY <1>7 DEF OSQPendWake, Live
  <2>3. ASSUME \A f \in Events : OSEventTbl'[f] = OSEventTbl[f] \ {t}
        PROVE  phase' = [phase EXCEPT ![t] = "idle"]
    <3>. SUFFICES ASSUME NEW u \in AppTasks
                  PROVE  PhaseOf(u)' = IF u = t THEN "idle" ELSE PhaseOf(u)
      OBVIOUS
    <3>1. u \in Tasks
      BY DEF AppTasks
    <3>2. CASE u = t
      BY <1>t, <2>1, <3>2 DEF PhaseOf
    <3>3. CASE u # t
      BY <2>1, <2>3, <3>1, <3>3 DEF PhaseOf
    <3>. QED  BY <3>2, <3>3
  <2>4. Contents' = Contents
    BY <1>t, <1>7, RingsKept DEF OSQPendWake
  <2>5. /\ result' = [result EXCEPT ![t] = OSTCBMsg[t]]
        /\ inbox' = [inbox EXCEPT ![t] = NoMsg]
    BY <1>t, <1>7 DEF OSQPendWake, TypeOK, AppTasks
  <2>6. CASE \E f \in Events : t \in OSEventTbl[f]
    <3>1. PICK f \in Events : t \in OSEventTbl[f]
      BY <2>6
    <3>2. pevent[t] = f /\ OSTCBMsg[t] = NoMsg
      BY <1>t, <3>1 DEF Lists, WaitListsAgree
    <3>3. \A g \in Events : t \in OSEventTbl[g] => g = f
      BY <1>t, <3>1 DEF Lists, WaitListsAgree
    <3>4. OSEventTbl' = [OSEventTbl EXCEPT ![f] = @ \ {t}]
      BY <1>7, <3>2 DEF OSQPendWake, OS_EventTO
    <3>5. OSEventTbl' = [g \in Events |-> OSEventTbl[g] \ {t}]
      <4>1. \A g \in Events : g # f => OSEventTbl[g] \ {t} = OSEventTbl[g]
        BY <3>3
      <4>2. OSEventTbl' = [g \in Events |-> IF g = f THEN OSEventTbl[g] \ {t}
                                            ELSE OSEventTbl[g]]
        BY <1>t, <3>4 DEF CoreTypeOK
      <4>. QED  BY <4>1, <4>2
    <3>6. phase' = [phase EXCEPT ![t] = "idle"]
      BY <2>3, <3>5
    <3>7. PhaseOf(t) = "waiting"
      BY <2>1, <3>1 DEF PhaseOf
    <3>8. result' = result /\ inbox' = inbox
      BY <1>t, <2>1, <2>5, <3>2 DEF ResultClear
    <3>9. Service!GiveUp(t)
      BY <1>7, <2>2, <2>4, <3>5, <3>6, <3>7, <3>8
      DEF OSQPendWake, Service!GiveUp, Contents
    <3>. QED  BY <3>9 DEF Service!SNext
  <2>7. CASE \A f \in Events : t \notin OSEventTbl[f]
    <3>1. OSEventTbl' = OSEventTbl
      <4>1. CASE OSTCBMsg[t] # NoMsg
        BY <1>7, <4>1 DEF OSQPendWake
      <4>2. CASE OSTCBMsg[t] = NoMsg
        <5>1. OSEventTbl' = [OSEventTbl EXCEPT ![pevent[t]] = @ \ {t}]
          BY <1>7, <4>2 DEF OSQPendWake, OS_EventTO
        <5>2. OSEventTbl' = [f \in Events |-> IF f = pevent[t]
                               THEN OSEventTbl[f] \ {t} ELSE OSEventTbl[f]]
          BY <1>t, <5>1 DEF CoreTypeOK
        <5>3. \A f \in Events : OSEventTbl[f] \ {t} = OSEventTbl[f]
          BY <2>7
        <5>. QED  BY <1>t, <5>2, <5>3 DEF CoreTypeOK
      <4>. QED  BY <4>1, <4>2
    <3>2. phase' = [phase EXCEPT ![t] = "idle"]
      BY <2>3, <2>7, <3>1
    <3>3. PhaseOf(t) = "released"
      BY <2>1, <2>7 DEF PhaseOf
    <3>4. Service!Collect(t)
      BY <1>7, <2>2, <2>4, <2>5, <3>1, <3>2, <3>3
      DEF OSQPendWake, Service!Collect, Contents
    <3>. QED  BY <3>4 DEF Service!SNext
  <2>. QED  BY <2>6, <2>7
<1>8. ASSUME NEW e \in Events, NEW m \in Msgs, NEW front \in BOOLEAN,
             OSQPost(t, e, m) \/ OSQPostFront(t, e, m)
               \/ OSQPostOpt(t, e, m, front)
      PROVE  [Service!SNext]_(Service!svars)
  <2>1. Calls(t) /\ Live(e) /\ Posted(t, e) /\ Delivers(e, m)
    BY <1>t, <1>8, PostDelivers DEF OSQPost, OSQPostFront, OSQPostOpt
  <2>2. \A u \in Tasks : Pending(u)' <=> Pending(u)
    BY <1>g, <2>1 DEF Posted
  <2>. QED  BY <1>t, <2>1, <2>2, DeliverRefines DEF Posted
<1>. QED
  BY <1>1, <1>2, <1>3, <1>4, <1>5, <1>6, <1>7, <1>8 DEF TaskNext

\* The promise of QueueService is kept in every behaviour of the kernel, with
\* any tasks, interrupts, messages and ring sizes: no message is lost but in a
\* full ring, none is duplicated or overtaken, and each waiting task gets the
\* message that was left for it or, after its timeout, none.
THEOREM ServiceImplemented == Spec => ImplementsService
<1>1. Init => Service!SInit
  <2>. SUFFICES ASSUME Init PROVE Service!SInit
    OBVIOUS
  <2>1. \A e \in Events : Content(e) = <<>>
    <3>1. TypeOK
      BY InitType DEF TypeInv
    <3>. QED  BY <3>1, RingOf DEF Init
  <2>2. \A t \in AppTasks :
          PhaseOf(t) = "idle" /\ OSTCBMsg[t] = NoMsg /\ msg[t] = NoMsg
    BY DEF Init, CoreInit, PhaseOf, Pending, AppTasks
  <2>. QED  BY <2>1, <2>2 DEF Init, CoreInit, Service!SInit
<1>2. RefInv /\ [Next]_vars => [Service!SNext]_(Service!svars)
  <2>. SUFFICES ASSUME RefInv, [Next]_vars
                PROVE  [Service!SNext]_(Service!svars)
    OBVIOUS
  <2>t. SafeInv /\ RingInv /\ TypeOK
    BY DEF RefInv, SafeInv, TypeInv
  <2>1. CASE UNCHANGED vars
    <3>1. UNCHANGED <<OSEventType, OSEventTbl, OSTCBMsg, msg, pc, ringVars>>
      BY <2>1 DEF vars, coreVars, eventVars, queueVars
    <3>2. Contents' = Contents
      BY <2>t, <3>1, RingsKept
    <3>. QED  BY <3>1, <3>2, Stutter DEF Pending
  <2>2. CASE CoreNext /\ UNCHANGED queueVars
    BY <2>2, <2>t, CoreStutters
  <2>3. ASSUME NEW t \in AppTasks, TaskNext(t)
        PROVE  [Service!SNext]_(Service!svars)
    BY <2>3, TaskRefines
  <2>4. ASSUME NEW e \in IrqPosts, NEW m \in Msgs, IrqQPost(e, m)
        PROVE  [Service!SNext]_(Service!svars)
    <3>1. \A t \in Tasks : Pending(t)' <=> Pending(t)
      BY <2>4 DEF IrqQPost, Pending
    <3>2. Live(e) /\ Delivers(e, m) /\ UNCHANGED <<OSEventType, msg>>
      BY <2>4, <2>t, PostDelivers DEF IrqQPost
    <3>. QED  BY <2>t, <3>1, <3>2, DeliverRefines
  <2>. QED  BY <2>1, <2>2, <2>3, <2>4 DEF Next
<1>. QED
  BY <1>1, <1>2, InitRef, NextRef, PTL
  DEF Spec, ImplementsService, Service!SSpec
=============================================================================
