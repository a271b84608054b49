------------------------------- MODULE UcosQueue ------------------------------
(***************************************************************************)
(* The message queues of uC/OS-II (OS_Q.C) over the scheduling core of     *)
(* UcosCore; the mailboxes of lwIP (sys_mbox_* in sys_arch.c) are such     *)
(* queues.  A queue is a ring of pointers: an array, the positions where   *)
(* the next message goes in and comes out, and the number of messages.     *)
(* A message for a waiting task does not pass through the ring: it is left *)
(* in the control block of the task, OSTCBMsg, and OSQPend finds it there  *)
(* when the task runs again.                                               *)
(***************************************************************************)
EXTENDS UcosCore, Sequences

CONSTANTS
  Msgs,     \* the messages, pointers that are not null
  NoMsg,    \* the null pointer
  OSQSize,  \* the number of messages that a queue is created for
  IrqPosts  \* the queues that an interrupt handler posts to

ASSUME QueueAssumption ==
  /\ NoMsg \notin Msgs
  /\ OSQSize \in Nat \ {0}
  /\ IrqPosts \subseteq Events

VARIABLES
  OSEventType,  \* per event control block: "unused" (free) or "q"
  OSQStart,     \* per queue: the ring, the array at OSQStart
  OSQIn,        \* per queue: where the next message is put
  OSQOut,       \* per queue: where the next message is taken
  OSQEntries,   \* per queue: how many messages are in the ring
  OSTCBMsg,     \* per task: the message that OS_EventTaskRdy left
  msg           \* per task: what its last OSQPend or OSQAccept returned

ringVars == <<OSQStart, OSQIn, OSQOut, OSQEntries>>
queueVars == <<OSEventType, ringVars, OSTCBMsg, msg>>
vars == <<coreVars, queueVars>>

Live(e) == OSEventType[e] = "q"

TypeOK ==
  /\ CoreTypeOK
  /\ OSEventType \in [Events -> {"unused", "q"}]
  /\ OSQStart \in [Events -> [0 .. OSQSize - 1 -> Msgs \cup {NoMsg}]]
  /\ OSQIn \in [Events -> 0 .. OSQSize - 1]
  /\ OSQOut \in [Events -> 0 .. OSQSize - 1]
  /\ OSQEntries \in [Events -> 0 .. OSQSize]
  /\ OSTCBMsg \in [Tasks -> Msgs \cup {NoMsg}]
  /\ msg \in [Tasks -> Msgs \cup {NoMsg}]

-----------------------------------------------------------------------------
(* The ring.                                                                *)

\* A position that has reached OSQEnd goes back to OSQStart.
After(i) == IF i + 1 = OSQSize THEN 0 ELSE i + 1
Before(i) == IF i = 0 THEN OSQSize - 1 ELSE i - 1

\* A message is queued at the end, or refused (OS_Q_FULL).
Put(e, m) ==
  IF OSQEntries[e] < OSQSize
  THEN /\ OSQStart' = [OSQStart EXCEPT ![e][OSQIn[e]] = m]
       /\ OSQIn' = [OSQIn EXCEPT ![e] = After(@)]
       /\ OSQEntries' = [OSQEntries EXCEPT ![e] = @ + 1]
       /\ UNCHANGED OSQOut
  ELSE UNCHANGED ringVars

\* A message is queued in front of the others, or refused.
PutFront(e, m) ==
  IF OSQEntries[e] < OSQSize
  THEN /\ OSQOut' = [OSQOut EXCEPT ![e] = Before(@)]
       /\ OSQStart' = [OSQStart EXCEPT ![e][OSQOut'[e]] = m]
       /\ OSQEntries' = [OSQEntries EXCEPT ![e] = @ + 1]
       /\ UNCHANGED OSQIn
  ELSE UNCHANGED ringVars

\* The oldest message comes out of the ring, for task t.
TakeOut(t, e) ==
  /\ OSQEntries[e] > 0
  /\ msg' = [msg EXCEPT ![t] = OSQStart[e][OSQOut[e]]]
  /\ OSQOut' = [OSQOut EXCEPT ![e] = After(@)]
  /\ OSQEntries' = [OSQEntries EXCEPT ![e] = @ - 1]
  /\ UNCHANGED <<OSQStart, OSQIn>>

\* OS_EventTaskRdy leaves m in the control blocks of the tasks W.
Hand(e, W, m) ==
  /\ OS_EventTaskRdy(e, W, "q")
  /\ OSTCBMsg' = [t \in Tasks |-> IF t \in W THEN m ELSE OSTCBMsg[t]]

-----------------------------------------------------------------------------
(* The services.                                                            *)

\* A free event control block and a free OS_Q become an empty queue.
OSQCreate(t, e) ==
  /\ Calls(t)
  /\ OSEventType[e] = "unused"
  /\ OSEventType' = [OSEventType EXCEPT ![e] = "q"]
  /\ OSQIn' = [OSQIn EXCEPT ![e] = 0]
  /\ OSQOut' = [OSQOut EXCEPT ![e] = 0]
  /\ OSQEntries' = [OSQEntries EXCEPT ![e] = 0]
  /\ OSEventTbl' = [OSEventTbl EXCEPT ![e] = {}]
  /\ UNCHANGED <<readyVars, OSTCBEventPtr, cpuVars, OSLockNesting, pc,
                 frameVars, OSQStart, OSTCBMsg, msg>>

\* OS_DEL_NO_PEND: refused while a task is on the waiting list.
OSQDelNoPend(t, e) ==
  /\ Calls(t)
  /\ Live(e)
  /\ OSEventTbl[e] = {}
  /\ OSEventType' = [OSEventType EXCEPT ![e] = "unused"]
  /\ UNCHANGED <<coreVars, ringVars, OSTCBMsg, msg>>

\* OS_DEL_ALWAYS: every waiting task is readied with the null pointer.
OSQDelAlways(t, e) ==
  /\ Calls(t)
  /\ Live(e)
  /\ OSEventType' = [OSEventType EXCEPT ![e] = "unused"]
  /\ Hand(e, OSEventTbl[e], NoMsg)
  /\ Goto(t, IF OSEventTbl[e] # {} THEN "sched" ELSE "app")
  /\ UNCHANGED <<cpuVars, OSLockNesting, frameVars, ringVars, msg>>

\* Mutant: the position to put messages in is kept.
OSQFlushOutOnly(t, e) ==
  /\ Calls(t)
  /\ Live(e)
  /\ OSQOut' = [OSQOut EXCEPT ![e] = 0]
  /\ OSQEntries' = [OSQEntries EXCEPT ![e] = 0]
  /\ UNCHANGED <<coreVars, OSEventType, OSQStart, OSQIn, OSTCBMsg, msg>>

OSQFlush(t, e) ==
  /\ Calls(t)
  /\ Live(e)
  /\ OSQIn' = [OSQIn EXCEPT ![e] = 0]
  /\ OSQOut' = [OSQOut EXCEPT ![e] = 0]
  /\ OSQEntries' = [OSQEntries EXCEPT ![e] = 0]
  /\ UNCHANGED <<coreVars, OSEventType, OSQStart, OSTCBMsg, msg>>

OSQAccept(t, e) ==
  /\ Calls(t)
  /\ Live(e)
  /\ TakeOut(t, e)
  /\ UNCHANGED <<coreVars, OSEventType, OSTCBMsg>>

\* OSQPend when there is a message.
OSQPendTake(t, e) ==
  /\ CallsBlocking(t)
  /\ Live(e)
  /\ TakeOut(t, e)
  /\ UNCHANGED <<coreVars, OSEventType, OSTCBMsg>>

\* OSQPend up to its call of OS_Sched, when there is none.
OSQPendWait(t, e, n) ==
  /\ CallsBlocking(t)
  /\ Live(e)
  /\ OSQEntries[e] = 0
  /\ OS_EventTaskWait(t, e, "q", n)
  /\ pevent' = [pevent EXCEPT ![t] = e]
  /\ timeout' = [timeout EXCEPT ![t] = n]
  /\ msg' = [msg EXCEPT ![t] = NoMsg]
  /\ Goto(t, "pendSched")
  /\ UNCHANGED <<cpuVars, OSLockNesting, OSEventType, ringVars, OSTCBMsg>>

\* The rest of OSQPend: no message in the control block means a timeout.
OSQPendWake(t) ==
  /\ Runs(t)
  /\ pc[t] = "pendWake"
  /\ msg' = [msg EXCEPT ![t] = OSTCBMsg[t]]
  /\ OSTCBMsg' = [OSTCBMsg EXCEPT ![t] = NoMsg]
  /\ IF OSTCBMsg[t] # NoMsg
     THEN /\ OSTCBStat' = [OSTCBStat EXCEPT ![t] = {}]
          /\ OSTCBEventPtr' = [OSTCBEventPtr EXCEPT ![t] = NoEvent]
          /\ UNCHANGED OSEventTbl
     ELSE OS_EventTO(t, pevent[t])
  /\ pevent' = [pevent EXCEPT ![t] = NoEvent]
  /\ timeout' = [timeout EXCEPT ![t] = 0]
  /\ Goto(t, "app")
  /\ UNCHANGED <<OSRdyTbl, OSTCBDly, cpuVars, OSLockNesting, OSEventType,
                 ringVars>>

\* Mutant: the message overtakes the waiting tasks when there is room.
QPostRingFirst(e, m) ==
  IF OSEventTbl[e] # {} /\ OSQEntries[e] = OSQSize
  THEN Hand(e, {HighestOf(OSEventTbl[e])}, m) /\ UNCHANGED ringVars
  ELSE Put(e, m) /\ UNCHANGED <<readyVars, eventVars, OSTCBMsg>>

\* The critical section of OSQPost: the waiting task of the highest priority
\* gets the message, or the ring does.
QPost(e, m) ==
  IF OSEventTbl[e] # {}
  THEN Hand(e, {HighestOf(OSEventTbl[e])}, m) /\ UNCHANGED ringVars
  ELSE Put(e, m) /\ UNCHANGED <<readyVars, eventVars, OSTCBMsg>>

\* The critical section of OSQPostFront.
QPostFront(e, m) ==
  IF OSEventTbl[e] # {}
  THEN Hand(e, {HighestOf(OSEventTbl[e])}, m) /\ UNCHANGED ringVars
  ELSE PutFront(e, m) /\ UNCHANGED <<readyVars, eventVars, OSTCBMsg>>

\* The critical section of OSQPostOpt with OS_POST_OPT_BROADCAST; with the
\* other options it is one of the two above.
QPostAll(e, m, front) ==
  IF OSEventTbl[e] # {}
  THEN Hand(e, OSEventTbl[e], m) /\ UNCHANGED ringVars
  ELSE /\ IF front THEN PutFront(e, m) ELSE Put(e, m)
       /\ UNCHANGED <<readyVars, eventVars, OSTCBMsg>>

\* The rest of each of the three posts, called by a task.
Posted(t, e) ==
  /\ Goto(t, IF OSEventTbl[e] # {} THEN "sched" ELSE "app")
  /\ UNCHANGED <<cpuVars, OSLockNesting, frameVars, OSEventType, msg>>

OSQPost(t, e, m) == Calls(t) /\ Live(e) /\ QPost(e, m) /\ Posted(t, e)

OSQPostFront(t, e, m) ==
  Calls(t) /\ Live(e) /\ QPostFront(e, m) /\ Posted(t, e)

OSQPostOpt(t, e, m, front) ==
  Calls(t) /\ Live(e) /\ QPostAll(e, m, front) /\ Posted(t, e)

\* OSQPost from an interrupt handler, its OS_Sched included: the service allows it,
\* although no handler of the firmware posts to a queue.
IrqQPost(e, m) ==
  /\ CanInterrupt("irq")
  /\ Live(e)
  /\ QPost(e, m)
  /\ IF OSEventTbl[e] # {} THEN OS_Sched(OSRdyTbl') ELSE UNCHANGED switchVars
  /\ UNCHANGED <<OSTCBCur, OSPrioCur, OSLockNesting, pc, frameVars,
                 OSEventType, msg>>

-----------------------------------------------------------------------------
\* The queues may have been created before OSStart.
Init ==
  /\ CoreInit
  /\ OSEventType \in [Events -> {"unused", "q"}]
  /\ OSQStart = [e \in Events |-> [i \in 0 .. OSQSize - 1 |-> NoMsg]]
  /\ OSQIn = [e \in Events |-> 0]
  /\ OSQOut = [e \in Events |-> 0]
  /\ OSQEntries = [e \in Events |-> 0]
  /\ OSTCBMsg = [t \in Tasks |-> NoMsg]
  /\ msg = [t \in Tasks |-> NoMsg]

TaskNext(t) ==
  \/ \E e \in Events :
       \/ OSQCreate(t, e) \/ OSQDelNoPend(t, e) \/ OSQDelAlways(t, e)
       \/ OSQFlush(t, e) \/ OSQAccept(t, e) \/ OSQPendTake(t, e)
  \/ \E e \in Events, n \in 0 .. MaxTicks : OSQPendWait(t, e, n)
  \/ OSQPendWake(t)
  \/ \E e \in Events, m \in Msgs : OSQPost(t, e, m) \/ OSQPostFront(t, e, m)
  \/ \E e \in Events, m \in Msgs, front \in BOOLEAN :
       OSQPostOpt(t, e, m, front)

Next ==
  \/ CoreNext /\ UNCHANGED queueVars
  \/ \E t \in AppTasks : TaskNext(t)
  \/ \E e \in IrqPosts, m \in Msgs : IrqQPost(e, m)

Spec == Init /\ [][Next]_vars

-----------------------------------------------------------------------------
(* Properties.                                                              *)

\* As for the semaphores: a task is on the list of exactly the event that its
\* control block names, which is a live queue, the one of its OSQPend, and
\* nothing has been left for it (OS_EventTaskWait, OS_EventTaskRdy,
\* OS_EventTO, OSQDel).
WaitListsAgree ==
  \A t \in Tasks, e \in Events :
    /\ t \in OSEventTbl[e] <=> OSTCBEventPtr[t] = e
    /\ t \in OSEventTbl[e] =>
         /\ Live(e) /\ Pending(t) /\ pevent[t] = e
         /\ "q" \in OSTCBStat[t] /\ OSTCBMsg[t] = NoMsg

\* No message lies in the ring of a queue that a task waits for, whatever the
\* timeouts, deletions, flushes and suspensions in between (OSQPend, OSQPost,
\* OSQPostFront, OSQPostOpt).
NoMessageWhileWaiting ==
  \A e \in Events : Live(e) /\ OSEventTbl[e] # {} => OSQEntries[e] = 0

\* A message that was left for a task reaches it: one that is not suspended is
\* ready, with its timeout cancelled (OS_EventTaskRdy), so that the tick and
\* the wait do not decide about the message any more.
LeftMessageWakes ==
  \A t \in Tasks :
    OSTCBMsg[t] # NoMsg =>
      /\ Pending(t) /\ OSTCBDly[t] = 0 /\ OSTCBEventPtr[t] = NoEvent
      /\ t \in OSRdyTbl \/ "suspend" \in OSTCBStat[t]

\* The messages of a queue in the order in which they will leave it.
Content(e) ==
  [i \in 1 .. OSQEntries[e] |-> OSQStart[e][(OSQOut[e] + i - 1) % OSQSize]]

PhaseOf(t) ==
  IF ~Pending(t) THEN "idle"
  ELSE IF \E e \in Events : t \in OSEventTbl[e] THEN "waiting" ELSE "released"

Service == INSTANCE QueueService WITH
  Callers <- AppTasks,
  Queues <- Events,
  Messages <- Msgs,
  Nothing <- NoMsg,
  Capacity <- OSQSize,
  live <- {e \in Events : Live(e)},
  content <- [e \in Events |-> Content(e)],
  waiters <- OSEventTbl,
  phase <- [t \in AppTasks |-> PhaseOf(t)],
  inbox <- [t \in AppTasks |-> OSTCBMsg[t]],
  result <- [t \in AppTasks |-> msg[t]]

\* The ring and the hand-over of messages to waiting tasks are a bounded queue
\* per OS_Q: no message is lost, duplicated or overtaken between a post, a
\* timeout that has already expired, a flush, a deletion and the moment the
\* task runs again.
ImplementsService == Service!SSpec
=============================================================================
