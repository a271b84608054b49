--------------------------- MODULE EthReceive_proof ---------------------------
(***************************************************************************)
(* Proofs about EthReceive, for rings of any size and any frames: the      *)
(* posts of ENET_IRQHandler stay bounded by what is in the ring, and the   *)
(* ring implements a FrameQueue.                                           *)
(*                                                                         *)
(* The inductive invariant counts the signals under way: the count of the  *)
(* semaphore, the post that the handler is about to make and the RxDone    *)
(* bit.  While the task makes the one attempt to read the ring that a      *)
(* signal or a timeout entitles it to, there are at most Used + 1 of them. *)
(* A timeout does not break this: the task then finds the count 0 and no   *)
(* handler active.                                                         *)
(***************************************************************************)
EXTENDS EthReceive, SequenceTheorems, TLAPS

Signals ==
  LwIPSem + (IF irq = "post" THEN 1 ELSE 0)
          + (IF "RxDone" \in IntStatus THEN 1 ELSE 0)

SignalsInv ==
  /\ task = "waiting" => LwIPSem = 0
  /\ task \in {"check", "copy", "release"} => Signals <= Used + 1
  /\ Signals <= Used + 2
  /\ task \in {"copy", "release"} => Used > 0

CopyInv ==
  /\ task = "release" /\ p # NoFrame => p = rx_buf[RxConsumeIndex]
  /\ task = "input" => p # NoFrame

\* The fragments between the two indices hold frames.
RingInv == \A i \in 1 .. Used : rx_buf[FragmentOf(i)] \in Frames

IInv == TypeOK /\ SignalsInv /\ CopyInv /\ RingInv

USE RxAssumption

-----------------------------------------------------------------------------
\* The index of a fragment goes on to the index of a fragment.
LEMMA NextFragmentType ==
  ASSUME NEW i \in Indices
  PROVE  NextFragment(i) \in Indices
BY DEF NextFragment, Indices

\* Used is a number of fragments, one of which is always empty.
LEMMA UsedType ==
  ASSUME TypeOK
  PROVE  Used \in 0 .. RxFrag - 1
BY DEF TypeOK, Used, Indices

\* A frame that the controller receives is one more in the ring, and the
\* fragments of the others stay where they are.
LEMMA ReceiveUsed ==
  ASSUME TypeOK, NEW f \in Frames, Receive(f)
  PROVE  /\ Used' = Used + 1
         /\ \A i \in Int : FragmentOf(i)' = FragmentOf(i)
         /\ FragmentOf(Used + 1) = RxProduceIndex
         /\ \A i \in 1 .. Used : FragmentOf(i) \in Indices \ {RxProduceIndex}
BY DEF TypeOK, Receive, Used, Indices, NextFragment, FragmentOf

\* A release makes the ring one frame shorter at its front.
LEMMA ReleaseUsed ==
  ASSUME TypeOK, Used > 0, Release
  PROVE  /\ Used' = Used - 1
         /\ FragmentOf(1) = RxConsumeIndex
         /\ \A i \in 1 .. Used - 1 : FragmentOf(i)' = FragmentOf(i + 1)
BY DEF TypeOK, Release, Used, Indices, NextFragment, FragmentOf

-----------------------------------------------------------------------------
\* Init is typed.
LEMMA TypeInit == Init => TypeOK
BY DEF Init, TypeOK, Indices

\* Every step of the driver, the task and the controller keeps the types.
LEMMA TypeStep == TypeOK /\ [Next]_vars => TypeOK'
<1> SUFFICES ASSUME TypeOK, [Next]_vars PROVE TypeOK'
  OBVIOUS
<1> USE DEF TypeOK
<1>1. ASSUME NEW f \in Frames, Receive(f) PROVE TypeOK'
  BY <1>1, NextFragmentType DEF Receive
<1>2. CASE TransmitDone
  BY <1>2 DEF TransmitDone, ringVars
<1>3. CASE IrqNext
  <2>1. CASE IrqTest
    BY <2>1 DEF IrqTest, ringVars
  <2>2. CASE IrqPost
    BY <2>2 DEF IrqPost, ringVars
  <2>3. CASE IrqClear
    BY <2>3 DEF IrqClear, ringVars
  <2>4. QED BY <1>3, <2>1, <2>2, <2>3 DEF IrqNext
<1>4. CASE TaskNext
  <2>1. CASE Release
    BY <2>1, NextFragmentType DEF Release
  <2>2. CASE Copy
    BY <2>2 DEF Copy, TaskAt, ringVars
  <2>3. CASE Pend
    BY <2>3 DEF Pend, TaskAt, ringVars
  <2>4. CASE PendTimeout \/ RingTest
    BY <2>4 DEF PendTimeout, RingTest, TaskAt, ringVars
  <2>5. CASE CopyNoMemory \/ Input
    BY <2>5 DEF CopyNoMemory, Input, TaskAt, ringVars
  <2>6. QED BY <1>4, <2>1, <2>2, <2>3, <2>4, <2>5 DEF TaskNext
<1>5. CASE UNCHANGED vars
  BY <1>5 DEF vars, ringVars
<1>6. QED BY <1>1, <1>2, <1>3, <1>4, <1>5 DEF Next

-----------------------------------------------------------------------------
\* Every step keeps the part of the invariant about the semaphore.
LEMMA SignalsStep == TypeOK /\ SignalsInv /\ [Next]_vars => SignalsInv'
<1> SUFFICES ASSUME TypeOK, SignalsInv, [Next]_vars PROVE SignalsInv'
  OBVIOUS
<1>0. Used \in Nat
  BY UsedType
<1> USE DEF SignalsInv, Signals
<1>1. ASSUME NEW f \in Frames, Receive(f) PROVE SignalsInv'
  <2>1. Used' = Used + 1
    BY <1>1, ReceiveUsed
  <2>2. QED BY <1>0, <1>1, <2>1 DEF Receive, TypeOK
<1>2. CASE TransmitDone
  BY <1>2 DEF TransmitDone, TypeOK, ringVars, Used
<1>3. CASE IrqTest
  BY <1>3 DEF IrqTest, TypeOK, ringVars, Used
<1>4. CASE IrqPost
  <2>1. Used' = Used
    BY <1>4 DEF IrqPost, ringVars, Used
  <2>2. QED BY <1>0, <1>4, <2>1 DEF IrqPost, TypeOK
<1>5. CASE IrqClear
  <2>1. Used' = Used
    BY <1>5 DEF IrqClear, ringVars, Used
  <2>2. QED BY <1>0, <1>5, <2>1 DEF IrqClear, TypeOK
<1>6. CASE Release
  <2>1. Used' = Used - 1
    BY <1>6, ReleaseUsed DEF Release, TaskAt
  <2>2. QED BY <1>0, <1>6, <2>1 DEF Release, TaskAt, TypeOK
<1>7. CASE Pend
  BY <1>0, <1>7 DEF Pend, TaskAt, TypeOK, ringVars, Used
<1>8. CASE PendTimeout
  <2>1. Used' = Used
    BY <1>8 DEF PendTimeout, ringVars, Used
  <2>2. QED BY <1>0, <1>8, <2>1 DEF PendTimeout, TaskAt, TypeOK
<1>9. CASE RingTest
  <2>1. Used' = Used /\ (RxProduceIndex # RxConsumeIndex => Used > 0)
    BY <1>9 DEF RingTest, ringVars, Used, TypeOK, Indices
  <2>2. QED BY <1>0, <1>9, <2>1 DEF RingTest, TaskAt, TypeOK
<1>10. CASE Copy \/ CopyNoMemory
  BY <1>0, <1>10 DEF Copy, CopyNoMemory, TaskAt, TypeOK, ringVars, Used
<1>11. CASE Input
  BY <1>0, <1>11 DEF Input, TaskAt, TypeOK, ringVars, Used
<1>12. CASE UNCHANGED vars
  BY <1>12 DEF vars, ringVars, Used
<1>13. QED
  BY <1>1, <1>2, <1>3, <1>4, <1>5, <1>6, <1>7, <1>8, <1>9, <1>10, <1>11,
     <1>12 DEF Next, IrqNext, TaskNext

\* Every step keeps the parts of the invariant about the ring and the copy.
LEMMA RingStep ==
  TypeOK /\ SignalsInv /\ CopyInv /\ RingInv /\ [Next]_vars
    => CopyInv' /\ RingInv'
<1> SUFFICES ASSUME TypeOK, SignalsInv, CopyInv, RingInv, [Next]_vars
             PROVE  CopyInv' /\ RingInv'
  OBVIOUS
<1>0. Used \in Nat
  BY UsedType
<1>1. ASSUME NEW f \in Frames, Receive(f) PROVE CopyInv' /\ RingInv'
  <2>1. /\ Used' = Used + 1
        /\ \A i \in Int : FragmentOf(i)' = FragmentOf(i)
        /\ FragmentOf(Used + 1) = RxProduceIndex
        /\ \A i \in 1 .. Used : FragmentOf(i) \in Indices \ {RxProduceIndex}
    BY <1>1, ReceiveUsed
  <2>2. RingInv'
    <3> SUFFICES ASSUME NEW i \in 1 .. Used + 1
                 PROVE  rx_buf'[FragmentOf(i)] \in Frames
      BY <2>1, <1>0 DEF RingInv
    <3>1. CASE i = Used + 1
      BY <3>1, <1>1, <2>1 DEF Receive, TypeOK
    <3>2. CASE i \in 1 .. Used
      BY <3>2, <1>1, <2>1 DEF Receive, TypeOK, RingInv
    <3>3. QED BY <3>1, <3>2, <1>0
  <2>3. CopyInv'
    <3>1. task = "release" =>
            RxConsumeIndex \in Indices /\ RxConsumeIndex # RxProduceIndex
      BY DEF SignalsInv, Used, TypeOK, Indices
    <3>2. QED BY <3>1, <1>1 DEF CopyInv, Receive, TypeOK
  <2>4. QED BY <2>2, <2>3
<1>2. CASE Release
  <2>1. /\ Used > 0
        /\ Used' = Used - 1
        /\ \A i \in 1 .. Used - 1 : FragmentOf(i)' = FragmentOf(i + 1)
    BY <1>2, ReleaseUsed DEF Release, TaskAt, SignalsInv
  <2>2. RingInv'
    BY <1>0, <1>2, <2>1 DEF RingInv, Release
  <2>3. QED BY <1>2, <2>2 DEF CopyInv, Release, TaskAt
<1>3. CASE Copy
  <2>1. FragmentOf(1) = RxConsumeIndex /\ 1 \in 1 .. Used
    BY <1>3, <1>0 DEF Copy, TaskAt, SignalsInv, FragmentOf, TypeOK, Indices
  <2>2. RingInv' /\ CopyInv'
    BY <1>3, <2>1 DEF Copy, TaskAt, CopyInv, RingInv, ringVars, Used, FragmentOf
  <2>3. QED BY <2>2
<1>4. CASE \/ TransmitDone \/ IrqNext \/ Pend \/ PendTimeout \/ RingTest
           \/ CopyNoMemory \/ Input \/ UNCHANGED vars
  <2>1. UNCHANGED ringVars
    BY <1>4 DEF TransmitDone, IrqNext, IrqTest, IrqPost, IrqClear, Pend,
                PendTimeout, RingTest, CopyNoMemory, Input, vars
  <2>2. RingInv'
    BY <2>1 DEF RingInv, ringVars, Used, FragmentOf
  <2>3. CopyInv'
    BY <1>4, <2>1 DEF CopyInv, TransmitDone, IrqNext, IrqTest, IrqPost,
       IrqClear, Pend, PendTimeout, RingTest, CopyNoMemory, Input, vars,
       TaskAt, ringVars
  <2>4. QED BY <2>2, <2>3
<1>5. QED BY <1>1, <1>2, <1>3, <1>4 DEF Next, TaskNext

\* The invariant holds initially.
LEMMA IInvInit == Init => IInv
BY TypeInit DEF Init, IInv, SignalsInv, Signals, CopyInv, RingInv, Used, Indices

\* The invariant holds in every behaviour.
LEMMA IInvInvariant == Spec => []IInv
<1>1. IInv /\ [Next]_vars => IInv'
  BY TypeStep, SignalsStep, RingStep DEF IInv
<1>2. QED BY IInvInit, <1>1, PTL DEF Spec

-----------------------------------------------------------------------------
(* The theorems.                                                            *)

\* Every variable keeps its type; the indices stay in the ring.
THEOREM TypeCorrect == Spec => []TypeOK
BY IInvInvariant, PTL DEF IInv

\* The count of LwIPSem never exceeds the frames in the ring by more than two,
\* so that with a ring of MaxCnt - 2 fragments or less no post is ever lost
\* at the maximum of the count.
THEOREM SignalsStayBounded == Spec => []SignalsBounded
<1>1. IInv => SignalsBounded
  BY UsedType DEF IInv, SignalsInv, Signals, SignalsBounded, TypeOK
<1>2. QED BY IInvInvariant, <1>1, PTL

\* The frame that low_level_input copies is not overwritten while it does.
THEOREM CopySafe == Spec => []CopiedFrameInRing
<1>1. IInv => CopiedFrameInRing
  BY DEF IInv, SignalsInv, CopyInv, CopiedFrameInRing
<1>2. QED BY IInvInvariant, <1>1, PTL

-----------------------------------------------------------------------------
(* The ring implements a FrameQueue.                                        *)

\* A function on 1 .. n is a sequence of length n.
LEMMA FunctionIsSeq ==
  ASSUME NEW S, NEW n \in Nat, NEW s \in [1 .. n -> S]
  PROVE  s \in Seq(S) /\ Len(s) = n
BY LenProperties

ReceivedOK ==
  Used \in 0 .. RxFrag - 1 /\ received \in Seq(Frames) /\ Len(received) = Used

\* The frames of the ring are a sequence of frames.
LEMMA ReceivedType == IInv => ReceivedOK
<1> SUFFICES ASSUME IInv PROVE ReceivedOK
  OBVIOUS
<1>1. Used \in 0 .. RxFrag - 1
  BY UsedType DEF IInv
<1>2. received \in [1 .. Used -> Frames]
  BY DEF received, RingInv, IInv
<1>3. QED BY <1>1, <1>2, FunctionIsSeq DEF ReceivedOK

\* The same after a step.
LEMMA ReceivedTypeNext == IInv' => ReceivedOK'
BY ReceivedType, PTL

\* Receive appends.
LEMMA ReceiveAppends ==
  ASSUME IInv, IInv', NEW f \in Frames, Receive(f)
  PROVE  Len(received) < RxFrag - 1 /\ received' = Append(received, f)
<1>0. Used \in Nat /\ TypeOK /\ TypeOK'
  BY UsedType DEF IInv
<1>1. /\ Used' = Used + 1
      /\ \A i \in Int : FragmentOf(i)' = FragmentOf(i)
      /\ FragmentOf(Used + 1) = RxProduceIndex
      /\ \A i \in 1 .. Used : FragmentOf(i) \in Indices \ {RxProduceIndex}
  BY ReceiveUsed, <1>0
<1>2. received \in Seq(Frames) /\ Len(received) = Used
  BY ReceivedType DEF ReceivedOK
<1>3. ReceivedOK'
  BY ReceivedTypeNext
<1>4. /\ Append(received, f) \in Seq(Frames)
      /\ Len(Append(received, f)) = Used + 1
      /\ \A i \in 1 .. Used : Append(received, f)[i] = received[i]
      /\ Append(received, f)[Used + 1] = f
  BY <1>2, AppendProperties
<1>5. ASSUME NEW i \in 1 .. Used + 1
      PROVE  received'[i] = Append(received, f)[i]
  <2>1. received'[i] = rx_buf'[FragmentOf(i)]
    BY <1>0, <1>1 DEF received
  <2>2. CASE i = Used + 1
    BY <2>1, <2>2, <1>0, <1>1, <1>4 DEF Receive, TypeOK
  <2>3. CASE i \in 1 .. Used
    <3>1. received[i] = rx_buf[FragmentOf(i)]
      BY <2>3 DEF received
    <3>2. QED BY <2>1, <2>3, <3>1, <1>0, <1>1, <1>4 DEF Receive, TypeOK
  <2>4. i = Used + 1 \/ i \in 1 .. Used
    BY <1>0
  <2>5. QED BY <2>2, <2>3, <2>4
<1>6. Used' <= RxFrag - 1
  BY <1>3 DEF ReceivedOK
<1>7. received' = Append(received, f)
  BY <1>1, <1>3, <1>4, <1>5, SeqEqual DEF ReceivedOK
<1>8. QED BY <1>0, <1>1, <1>2, <1>6, <1>7

\* Release takes the head away.
LEMMA ReleaseTakes ==
  ASSUME IInv, IInv', Release
  PROVE  /\ received # <<>>
         /\ received' = Tail(received)
         /\ Head(received) = rx_buf[RxConsumeIndex]
<1>0. Used \in Nat /\ TypeOK /\ Used > 0
  BY UsedType DEF IInv, SignalsInv, Release, TaskAt
<1>1. /\ Used' = Used - 1
      /\ FragmentOf(1) = RxConsumeIndex
      /\ \A i \in 1 .. Used - 1 : FragmentOf(i)' = FragmentOf(i + 1)
  BY ReleaseUsed, <1>0
<1>2. received \in Seq(Frames) /\ Len(received) = Used
  BY ReceivedType DEF ReceivedOK
<1>3. ReceivedOK'
  BY ReceivedTypeNext
<1>4. received # <<>> /\ Head(received) = rx_buf[RxConsumeIndex]
  <2>1. received[1] = rx_buf[RxConsumeIndex]
    BY <1>0, <1>1 DEF received
  <2>2. QED BY <2>1, <1>0, <1>2
<1>5. /\ Tail(received) \in Seq(Frames)
      /\ Len(Tail(received)) = Used - 1
      /\ \A i \in 1 .. Used - 1 : Tail(received)[i] = received[i + 1]
  BY <1>2, <1>4, HeadTailProperties
<1>6. ASSUME NEW i \in 1 .. Used - 1
      PROVE  received'[i] = Tail(received)[i]
  <2>1. received'[i] = rx_buf'[FragmentOf(i)'] /\ rx_buf' = rx_buf
    BY <1>0, <1>1 DEF received, Release
  <2>2. received[i + 1] = rx_buf[FragmentOf(i + 1)]
    BY <1>0 DEF received
  <2>3. QED BY <2>1, <2>2, <1>1, <1>5
<1>7. received' = Tail(received)
  BY <1>1, <1>3, <1>5, <1>6, SeqEqual DEF ReceivedOK
<1>8. QED BY <1>4, <1>7

\* Every step is a step of the abstract queue or leaves it alone.
LEMMA StepRefines == IInv /\ IInv' /\ [Next]_vars => [Queue!QNext]_(Queue!qvars)
<1> SUFFICES ASSUME IInv, IInv', [Next]_vars
             PROVE  Queue!QNext \/ UNCHANGED Queue!qvars
  OBVIOUS
<1> USE DEF Queue!QNext, Queue!qvars, Queue!Produce, Queue!Take, Queue!GiveUp,
            Queue!Done
<1>1. ASSUME NEW f \in Frames, Receive(f) PROVE Queue!Produce(f)
  BY <1>1, ReceiveAppends DEF Receive
<1>2. CASE Release
  BY <1>2, ReleaseTakes DEF Release, TaskAt, IInv, CopyInv
<1>3. CASE Input
  BY <1>3 DEF Input, TaskAt, IInv, CopyInv, ringVars, received, Used, FragmentOf
<1>4. CASE \/ TransmitDone \/ IrqNext \/ Pend \/ PendTimeout \/ RingTest \/ Copy
           \/ CopyNoMemory \/ UNCHANGED vars
  <2>1. UNCHANGED ringVars
    BY <1>4 DEF TransmitDone, IrqNext, IrqTest, IrqPost, IrqClear, Pend,
                PendTimeout, RingTest, Copy, CopyNoMemory, vars
  <2>2. UNCHANGED (IF task = "input" THEN p ELSE NoFrame)
    BY <1>4 DEF TransmitDone, IrqNext, IrqTest, IrqPost, IrqClear, Pend,
       PendTimeout, RingTest, Copy, CopyNoMemory, vars, TaskAt
  <2>3. UNCHANGED received
    BY <2>1 DEF ringVars, received, Used, FragmentOf
  <2>4. QED BY <2>2, <2>3
<1>5. QED BY <1>1, <1>2, <1>3, <1>4 DEF Next, TaskNext

\* Whatever the size of the ring and whatever the interrupts, every frame the
\* controller receives is handed to netif->input once, unchanged and in order,
\* or given up because no pbuf was free.
THEOREM RingImplementsQueue == Spec => ImplementsQueue
<1>1. Init => Queue!QInit
  <2>1. ASSUME Init PROVE Queue!QInit
    <3>1. Used = 0 /\ task = "pend"
      BY <2>1 DEF Init, Used
    <3>2. Len(received) = 0 /\ received \in Seq(Frames)
      BY <2>1, <3>1, IInvInit, ReceivedType DEF ReceivedOK
    <3>3. QED BY <3>1, <3>2, EmptySeq DEF Queue!QInit
  <2>2. QED BY <2>1
<1>2. QED BY IInvInvariant, StepRefines, <1>1, PTL
          DEF Spec, ImplementsQueue, Queue!QSpec
=============================================================================
