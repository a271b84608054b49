------------------------------ MODULE EthReceive ------------------------------
(***************************************************************************)
(* The receive path of the Ethernet interface: the descriptor ring that    *)
(* the controller fills, ENET_IRQHandler, which posts the semaphore        *)
(* LwIPSem, and FlyEthernetTask, which pends on it with a timeout and then *)
(* takes at most one frame from the ring (flyEthernetTask.c,               *)
(* ethernetif.c).                                                          *)
(*                                                                         *)
(* The handler has three steps, for the controller goes on receiving while *)
(* it runs: EMAC_IntGetStatus, which also clears the RxDone bit it finds,  *)
(* OSSemPost, and the clearing of whatever is set by then.  The task does  *)
(* not run while the handler does.  The semaphore is the one that UcosSem  *)
(* shows the kernel to implement.                                          *)
(***************************************************************************)
EXTENDS Naturals, Sequences

CONSTANTS
  Frames,   \* the frames on the wire
  NoFrame,
  RxFrag,   \* EMAC_NUM_RX_FRAG, the fragments of the ring (4 in the code)
  MaxCnt    \* the largest count of a semaphore (65535 in the code)

ASSUME RxAssumption ==
  /\ NoFrame \notin Frames
  /\ RxFrag \in Nat /\ RxFrag > 1
  /\ MaxCnt \in Nat /\ MaxCnt > 0

VARIABLES
  rx_buf,          \* per fragment: the frame that was received into it
  RxProduceIndex,  \* where the controller receives next
  RxConsumeIndex,  \* where the task reads next
  IntStatus,       \* the interrupts that are set, "RxDone" and "TxDone"
  irq,             \* how far ENET_IRQHandler is
  LwIPSem,         \* the count of the semaphore
  task,            \* how far FlyEthernetTask is
  p                \* the pbuf that the task copies a frame to

ringVars == <<rx_buf, RxProduceIndex, RxConsumeIndex>>
vars == <<ringVars, IntStatus, irq, LwIPSem, task, p>>

Indices == 0 .. RxFrag - 1

TypeOK ==
  /\ rx_buf \in [Indices -> Frames \cup {NoFrame}]
  /\ RxProduceIndex \in Indices
  /\ RxConsumeIndex \in Indices
  /\ IntStatus \subseteq {"RxDone", "TxDone"}
  /\ irq \in {"idle", "post", "clear"}
  /\ LwIPSem \in 0 .. MaxCnt
  /\ task \in {"pend", "waiting", "check", "copy", "release", "input"}
  /\ p \in Frames \cup {NoFrame}

\* The fragment after i.
NextFragment(i) == IF i + 1 = RxFrag THEN 0 ELSE i + 1

\* The frames that are in the ring and not yet released.
Used ==
  IF RxProduceIndex >= RxConsumeIndex
  THEN RxProduceIndex - RxConsumeIndex
  ELSE RxProduceIndex + RxFrag - RxConsumeIndex

-----------------------------------------------------------------------------
(* The controller.                                                          *)

\* A frame arrives.  One fragment always stays empty; when no other is free
\* the frame is lost, and nothing changes.
Receive(f) ==
  /\ NextFragment(RxProduceIndex) # RxConsumeIndex
  /\ rx_buf' = [rx_buf EXCEPT ![RxProduceIndex] = f]
  /\ RxProduceIndex' = NextFragment(RxProduceIndex)
  /\ IntStatus' = IntStatus \cup {"RxDone"}
  /\ UNCHANGED <<RxConsumeIndex, irq, LwIPSem, task, p>>

\* EMAC_Init enables the interrupt of the transmitter as well.
TransmitDone ==
  /\ "TxDone" \notin IntStatus
  /\ IntStatus' = IntStatus \cup {"TxDone"}
  /\ UNCHANGED <<ringVars, irq, LwIPSem, task, p>>

-----------------------------------------------------------------------------
(* ENET_IRQHandler.                                                         *)

\* Mutant: any interrupt posts.
IrqTestAny ==
  /\ irq = "idle"
  /\ IntStatus # {}
  /\ irq' = "post"
  /\ IntStatus' = IntStatus \ {"RxDone"}
  /\ UNCHANGED <<ringVars, LwIPSem, task, p>>

\* EMAC_IntGetStatus(EMAC_INT_RX_DONE).
IrqTest ==
  /\ irq = "idle"
  /\ IntStatus # {}
  /\ irq' = IF "RxDone" \in IntStatus THEN "post" ELSE "clear"
  /\ IntStatus' = IntStatus \ {"RxDone"}
  /\ UNCHANGED <<ringVars, LwIPSem, task, p>>

\* OSSemPost: the task that waits is given the event, or it is counted.
IrqPost ==
  /\ irq = "post"
  /\ irq' = "clear"
  /\ IF task = "waiting"
     THEN task' = "check" /\ UNCHANGED LwIPSem
     ELSE /\ LwIPSem' = IF LwIPSem < MaxCnt THEN LwIPSem + 1 ELSE LwIPSem
          /\ UNCHANGED task
  /\ UNCHANGED <<ringVars, IntStatus, p>>

\* IntClear = IntStatus.
IrqClear ==
  /\ irq = "clear"
  /\ irq' = "idle"
  /\ IntStatus' = {}
  /\ UNCHANGED <<ringVars, LwIPSem, task, p>>

-----------------------------------------------------------------------------
(* FlyEthernetTask.                                                         *)

TaskAt(place) == task = place /\ irq = "idle"

\* OSSemPend.
Pend ==
  /\ TaskAt("pend")
  /\ IF LwIPSem > 0
     THEN LwIPSem' = LwIPSem - 1 /\ task' = "check"
     ELSE task' = "waiting" /\ UNCHANGED LwIPSem
  /\ UNCHANGED <<ringVars, IntStatus, irq, p>>

\* Mutant: the pend has no timeout.
PendForever == FALSE /\ UNCHANGED vars

\* The 500 ticks are over; the task goes on as if it had been given the event.
PendTimeout ==
  /\ TaskAt("waiting")
  /\ task' = "check"
  /\ UNCHANGED <<ringVars, IntStatus, irq, LwIPSem, p>>

\* Mutant: the ring is not tested for being empty.
RingTestNot ==
  /\ TaskAt("check")
  /\ task' = "copy"
  /\ UNCHANGED <<ringVars, IntStatus, irq, LwIPSem, p>>

\* low_level_input returns at once when the ring is empty.
RingTest ==
  /\ TaskAt("check")
  /\ task' = IF RxProduceIndex = RxConsumeIndex THEN "pend" ELSE "copy"
  /\ UNCHANGED <<ringVars, IntStatus, irq, LwIPSem, p>>

\* Mutant: the fragment is released before it is copied.
CopyReleased ==
  /\ TaskAt("copy")
  /\ p' = rx_buf[RxConsumeIndex]
  /\ RxConsumeIndex' = NextFragment(RxConsumeIndex)
  /\ task' = "release"
  /\ UNCHANGED <<rx_buf, RxProduceIndex, IntStatus, irq, LwIPSem>>

\* pbuf_alloc finds memory, and the frame is copied.
Copy ==
  /\ TaskAt("copy")
  /\ p' = rx_buf[RxConsumeIndex]
  /\ task' = "release"
  /\ UNCHANGED <<ringVars, IntStatus, irq, LwIPSem>>

\* pbuf_alloc finds none: the frame is given up.
CopyNoMemory ==
  /\ TaskAt("copy")
  /\ p' = NoFrame
  /\ task' = "release"
  /\ UNCHANGED <<ringVars, IntStatus, irq, LwIPSem>>

\* RxConsumeIndex goes on, the controller may use the fragment again.
Release ==
  /\ TaskAt("release")
  /\ RxConsumeIndex' = NextFragment(RxConsumeIndex)
  /\ task' = IF p = NoFrame THEN "pend" ELSE "input"
  /\ UNCHANGED <<rx_buf, RxProduceIndex, IntStatus, irq, LwIPSem, p>>

\* netif->input, or pbuf_free when the type of the frame is unknown.
Input ==
  /\ TaskAt("input")
  /\ p' = NoFrame
  /\ task' = "pend"
  /\ UNCHANGED <<ringVars, IntStatus, irq, LwIPSem>>

-----------------------------------------------------------------------------
Init ==
  /\ rx_buf = [i \in Indices |-> NoFrame]
  /\ RxProduceIndex = 0
  /\ RxConsumeIndex = 0
  /\ IntStatus = {}
  /\ irq = "idle"
  /\ LwIPSem = 0
  /\ task = "pend"
  /\ p = NoFrame

IrqNext == IrqTest \/ IrqPost \/ IrqClear
TaskNext ==
  \/ Pend \/ PendTimeout \/ RingTest \/ Copy \/ CopyNoMemory \/ Release
  \/ Input

Next ==
  \/ \E f \in Frames : Receive(f)
  \/ TransmitDone
  \/ IrqNext
  \/ TaskNext

Spec == Init /\ [][Next]_vars

\* The handler runs to its end and the task, when no interrupt is served,
\* goes on: it has the processor again and again, though not for ever.
FairSpec == Spec /\ WF_vars(IrqNext) /\ SF_vars(TaskNext)

-----------------------------------------------------------------------------
(* Properties.                                                              *)

\* The posts that are counted, being made or signalled never exceed the
\* frames in the ring by more than two, whatever the timeouts of the pend and
\* the interrupts of the transmitter: the count of LwIPSem stays far from its
\* maximum, where a post would be lost (ENET_IRQHandler, OSSemPost).
SignalsBounded == LwIPSem <= Used + 2

\* While the task copies a frame, the frame stays where it is: the controller
\* has not come round to that fragment (low_level_input releases it last).
CopiedFrameInRing ==
  task = "release" /\ p # NoFrame => Used > 0 /\ p = rx_buf[RxConsumeIndex]

\* A frame in the ring is not forgotten: even if its signal is lost, the
\* timeout of FlyEthernetTask makes the task look at the ring.
RingDrains ==
  \A i \in Indices :
    (RxConsumeIndex = i /\ Used > 0) ~> (RxConsumeIndex # i)

\* "This function should be called when a packet is ready to be read from the
\* interface" (ethernetif_input): when the task waits with no signal under
\* way, the ring is empty.
ReadyFrameSignalled ==
  (task = "waiting" /\ LwIPSem = 0 /\ irq = "idle" /\ "RxDone" \notin IntStatus)
    => Used = 0

\* The fragment of the i-th frame in the ring.
FragmentOf(i) ==
  LET j == RxConsumeIndex + i - 1 IN IF j < RxFrag THEN j ELSE j - RxFrag

\* The frames in the ring, the oldest first.
received == [i \in 1 .. Used |-> rx_buf[FragmentOf(i)]]

\* The ring is a FrameQueue between the controller and the task.
Queue == INSTANCE FrameQueue WITH
  Capacity <- RxFrag - 1,
  queue <- received,
  hand <- IF task = "input" THEN p ELSE NoFrame

\* Every frame that the controller has received reaches netif->input once, in
\* the order of arrival and unchanged, unless no pbuf was free for it.
ImplementsQueue == Queue!QSpec
=============================================================================
