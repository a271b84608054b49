--------------------------- MODULE EthTransmit_proof --------------------------
(***************************************************************************)
(* Proofs about EthTransmit, for rings of any size and any frames.  The    *)
(* types are correct for any threads in low_level_output.  What the ring   *)
(* promises is proved for the behaviours in which no two of them are in it *)
(* at once, those of a single sender among them: a sender must be the only *)
(* one that writes to the fragment at TxProduceIndex and to that index,    *)
(* and nothing in the code sees to that when there are two.                *)
(***************************************************************************)
EXTENDS EthTransmit, SequenceTheorems, TLAPS

\* No two threads are in low_level_output.
Serial ==
  \A r, s \in Senders : pc[r] # "idle" /\ pc[s] # "idle" => r = s

\* The index after a fragment, and the i-th fragment from TxConsumeIndex on.
NextFragment(i) == IF i = TxDescriptorNumber THEN 0 ELSE i + 1
FragmentOf(i) == (TxConsumeIndex + i) % TxFrag

\* IndexNext is the index of a fragment once it has been wrapped.
WrappedInv ==
  \A s \in Senders : pc[s] \in {"ctrl", "produce"} => IndexNext[s] \in Indices

TypeInv == TypeOK /\ WrappedInv

\* What the thread in low_level_output knows of the ring: TxProduceIndex is
\* still what it was at its beginning, the fragment there holds what it has
\* written, and after the test there is room for one more.
SenderInv ==
  \A s \in Senders :
    /\ pc[s] # "idle" => slot[s] = TxProduceIndex /\ frame[s] \in Frames
    /\ pc[s] \in {"copy", "test"} => IndexNext[s] = TxProduceIndex + 1
    /\ pc[s] \in {"ctrl", "produce"} =>
         /\ IndexNext[s] = NextFragment(TxProduceIndex)
         /\ IndexNext[s] # TxConsumeIndex
    /\ pc[s] \in {"test", "ctrl", "produce"} => tx_buf[TxProduceIndex] = frame[s]
    /\ pc[s] = "produce" => tx_ctrl[TxProduceIndex] = frame[s]

\* The fragments that the controller may read hold frames and their lengths,
\* and it sends the first of them.
RingInv ==
  /\ \A i \in 0 .. Used - 1 :
       /\ tx_buf[FragmentOf(i)] \in Frames
       /\ tx_ctrl[FragmentOf(i)] = tx_buf[FragmentOf(i)]
  /\ sending # NoFrame => Used > 0 /\ sending = tx_buf[TxConsumeIndex]

IInv == TypeInv /\ SenderInv /\ RingInv

USE TxAssumption

-----------------------------------------------------------------------------
(* The indices.                                                             *)

\* Two indices are less than two rounds apart.
LEMMA Remainder ==
  \A i \in 0 .. TxFrag - 1, j \in 0 .. TxFrag :
    /\ (i + j) % TxFrag \in 0 .. TxFrag - 1
    /\ (i + j) % TxFrag = IF i + j < TxFrag THEN i + j ELSE i + j - TxFrag
<1>. SUFFICES ASSUME NEW i \in 0 .. TxFrag - 1, NEW j \in 0 .. TxFrag
              PROVE  /\ (i + j) % TxFrag \in 0 .. TxFrag - 1
                     /\ (i + j) % TxFrag =
                          IF i + j < TxFrag THEN i + j ELSE i + j - TxFrag
  OBVIOUS
<1>1. (i + j) % TxFrag \in 0 .. TxFrag - 1
  OBVIOUS
<1>2. i + j < TxFrag => (i + j) % TxFrag = i + j
  OBVIOUS
<1>3. TxFrag <= i + j => (i + j) % TxFrag = i + j - TxFrag
  OBVIOUS
<1>. QED  BY <1>1, <1>2, <1>3

UsedOK ==
  /\ Used \in 0 .. TxFrag - 1
  /\ Used = IF TxProduceIndex >= TxConsumeIndex
            THEN TxProduceIndex - TxConsumeIndex
            ELSE TxProduceIndex + TxFrag - TxConsumeIndex

\* The number of the frames in the ring, without the remainder.
LEMMA UsedValue == TypeOK => UsedOK
<1>. SUFFICES ASSUME TypeOK PROVE UsedOK
  OBVIOUS
<1>. DEFINE j == TxFrag - TxConsumeIndex
<1>1. j \in 0 .. TxFrag /\ TxProduceIndex \in 0 .. TxFrag - 1
  BY DEF TypeOK, Indices, TxDescriptorNumber
<1>2. TxProduceIndex + TxFrag - TxConsumeIndex = TxProduceIndex + j
  BY DEF TypeOK, Indices, TxDescriptorNumber
<1>. HIDE DEF j
<1>3. /\ (TxProduceIndex + j) % TxFrag \in 0 .. TxFrag - 1
      /\ (TxProduceIndex + j) % TxFrag = IF TxProduceIndex + j < TxFrag
           THEN TxProduceIndex + j ELSE TxProduceIndex + j - TxFrag
  BY <1>1, Remainder
<1>4. Used = (TxProduceIndex + j) % TxFrag
  BY <1>2 DEF Used
<1>. QED
  BY <1>1, <1>3, <1>4 DEF j, UsedOK, TypeOK, Indices, TxDescriptorNumber

\* The same after a step.
LEMMA UsedValueNext == TypeOK' => UsedOK'
BY UsedValue, PTL

\* The i-th fragment, without the remainder.
LEMMA FragmentValue ==
  ASSUME TypeOK, NEW i \in 0 .. TxFrag - 1
  PROVE  /\ FragmentOf(i) \in Indices
         /\ FragmentOf(i) = IF TxConsumeIndex + i < TxFrag
                            THEN TxConsumeIndex + i
                            ELSE TxConsumeIndex + i - TxFrag
<1>1. i \in 0 .. TxFrag /\ TxConsumeIndex \in 0 .. TxFrag - 1
  BY DEF TypeOK, Indices, TxDescriptorNumber
<1>2. /\ (TxConsumeIndex + i) % TxFrag \in 0 .. TxFrag - 1
      /\ (TxConsumeIndex + i) % TxFrag = IF TxConsumeIndex + i < TxFrag
           THEN TxConsumeIndex + i ELSE TxConsumeIndex + i - TxFrag
  BY <1>1, Remainder
<1>. QED  BY <1>2 DEF FragmentOf, Indices, TxDescriptorNumber

\* The first fragment is the one to send from, and the one to put the next
\* frame in lies behind the readable ones.
LEMMA FragmentsApart ==
  ASSUME TypeOK
  PROVE  /\ FragmentOf(0) = TxConsumeIndex
         /\ FragmentOf(Used) = TxProduceIndex
         /\ \A i \in 0 .. Used - 1 :
              FragmentOf(i) \in Indices \ {TxProduceIndex}
<1>1. /\ Used \in 0 .. TxFrag - 1
      /\ Used = IF TxProduceIndex >= TxConsumeIndex
                THEN TxProduceIndex - TxConsumeIndex
                ELSE TxProduceIndex + TxFrag - TxConsumeIndex
  BY UsedValue DEF UsedOK
<1>2. 0 \in 0 .. TxFrag - 1
  OBVIOUS
<1>3. FragmentOf(0) = TxConsumeIndex
  BY <1>2, FragmentValue DEF TypeOK, Indices, TxDescriptorNumber
<1>4. FragmentOf(Used) = TxProduceIndex
  BY <1>1, FragmentValue DEF TypeOK, Indices, TxDescriptorNumber
<1>5. ASSUME NEW i \in 0 .. Used - 1
      PROVE  FragmentOf(i) \in Indices \ {TxProduceIndex}
  <2>1. i \in 0 .. TxFrag - 1
    BY <1>1
  <2>2. /\ FragmentOf(i) \in Indices
        /\ FragmentOf(i) = IF TxConsumeIndex + i < TxFrag
                           THEN TxConsumeIndex + i
                           ELSE TxConsumeIndex + i - TxFrag
    BY <2>1, FragmentValue
  <2>3. FragmentOf(i) # TxProduceIndex
    BY <1>1, <2>1, <2>2 DEF TypeOK, Indices, TxDescriptorNumber
  <2>. QED  BY <2>2, <2>3
<1>. QED  BY <1>3, <1>4, <1>5

\* When the produce index goes on and there is room, one frame more is used
\* and the others stay where they are.
LEMMA ProduceUsed ==
  ASSUME TypeOK, TypeOK', TxProduceIndex' = NextFragment(TxProduceIndex),
         NextFragment(TxProduceIndex) # TxConsumeIndex,
         TxConsumeIndex' = TxConsumeIndex
  PROVE  /\ Used' = Used + 1
         /\ Used + 1 <= TxFrag - 1
         /\ \A i \in Nat : FragmentOf(i)' = FragmentOf(i)
<1>1. UsedOK /\ UsedOK'
  BY UsedValue, UsedValueNext
<1>2. Used' = Used + 1
  BY <1>1 DEF UsedOK, TypeOK, Indices, TxDescriptorNumber, NextFragment
<1>3. Used + 1 <= TxFrag - 1
  BY <1>1, <1>2 DEF UsedOK
<1>4. \A i \in Nat : FragmentOf(i)' = FragmentOf(i)
  BY DEF FragmentOf
<1>. QED  BY <1>2, <1>3, <1>4

\* When the controller is done with a frame, one is used less and the others
\* move up.
LEMMA DoneUsed ==
  ASSUME TypeOK, TypeOK', Used > 0, TransmitDone
  PROVE  /\ TxConsumeIndex' = NextFragment(TxConsumeIndex)
         /\ Used' = Used - 1
         /\ \A i \in 0 .. Used - 2 : FragmentOf(i)' = FragmentOf(i + 1)
<1>1. UsedOK /\ UsedOK'
  BY UsedValue, UsedValueNext
<1>2. TxConsumeIndex' = NextFragment(TxConsumeIndex)
  <2>1. TxConsumeIndex \in 0 .. TxFrag - 1 /\ 1 \in 0 .. TxFrag
    BY DEF TypeOK, Indices, TxDescriptorNumber
  <2>2. (TxConsumeIndex + 1) % TxFrag = IF TxConsumeIndex + 1 < TxFrag
          THEN TxConsumeIndex + 1 ELSE TxConsumeIndex + 1 - TxFrag
    BY <2>1, Remainder
  <2>. QED
    BY <2>1, <2>2
    DEF TransmitDone, TypeOK, Indices, TxDescriptorNumber, NextFragment
<1>i. TxConsumeIndex \in 0 .. TxFrag - 1 /\ TxConsumeIndex' \in 0 .. TxFrag - 1
  BY <1>2 DEF TypeOK, Indices, TxDescriptorNumber, NextFragment
<1>3. Used' = Used - 1
  <2>1. TxProduceIndex' = TxProduceIndex /\ TxProduceIndex \in 0 .. TxFrag - 1
    BY DEF TransmitDone, TypeOK, Indices, TxDescriptorNumber
  <2>. QED
    BY <1>1, <1>2, <1>i, <2>1 DEF UsedOK, TxDescriptorNumber, NextFragment
<1>4. ASSUME NEW i \in 0 .. Used - 2
      PROVE  FragmentOf(i)' = FragmentOf(i + 1)
  <2>1. i \in 0 .. TxFrag - 1 /\ i + 1 \in 0 .. TxFrag - 1
    BY <1>1 DEF UsedOK
  <2>2. FragmentOf(i + 1) = IF TxConsumeIndex + (i + 1) < TxFrag
                            THEN TxConsumeIndex + (i + 1)
                            ELSE TxConsumeIndex + (i + 1) - TxFrag
    BY <2>1, FragmentValue
  <2>. DEFINE n == NextFragment(TxConsumeIndex)
  <2>3. FragmentOf(i)' = (n + i) % TxFrag
    BY <1>2 DEF FragmentOf
  <2>4. n \in 0 .. TxFrag - 1 /\ i \in 0 .. TxFrag
    BY <1>2, <1>i, <2>1
  <2>. HIDE DEF n
  <2>5. (n + i) % TxFrag = IF n + i < TxFrag THEN n + i ELSE n + i - TxFrag
    BY <2>4, Remainder
  <2>6. n = IF TxConsumeIndex = TxFrag - 1 THEN 0 ELSE TxConsumeIndex + 1
    BY DEF n, TxDescriptorNumber, NextFragment
  <2>. QED  BY <1>i, <2>1, <2>2, <2>3, <2>4, <2>5, <2>6
<1>. QED  BY <1>2, <1>3, <1>4

-----------------------------------------------------------------------------
(* Types, for any threads in low_level_output.                              *)

\* Init is typed.
LEMMA TypeInit == Init => TypeInv
<1>1. 0 \in Indices /\ 0 \in 0 .. TxFrag
  BY DEF Indices, TxDescriptorNumber
<1>. QED  BY <1>1 DEF Init, TypeInv, TypeOK, WrappedInv

\* Every step of the threads and of the controller keeps the types.
LEMMA TypeStep == TypeInv /\ [Next]_vars => TypeInv'
<1>. SUFFICES ASSUME TypeInv, [Next]_vars PROVE TypeInv'
  OBVIOUS
<1>. USE DEF TypeInv, TypeOK, WrappedInv, ringVars
<1>0. TxProduceIndex + 1 \in 0 .. TxFrag
  BY DEF Indices, TxDescriptorNumber
<1>1. ASSUME NEW s \in Senders, NEW f \in Frames, Begin(s, f) PROVE TypeInv'
  BY <1>0, <1>1 DEF Begin, Goto
<1>2. ASSUME NEW s \in Senders, Copy(s) PROVE TypeInv'
  <2>1. tx_buf' \in [Indices -> Frames \cup {NoFrame}]
    BY <1>2 DEF Copy
  <2>2. pc' \in [Senders -> {"idle", "copy", "test", "ctrl", "produce"}]
    BY <1>2 DEF Copy, Goto
  <2>3. \A r \in Senders : pc'[r] \in {"ctrl", "produce"} => pc'[r] = pc[r]
    BY <1>2 DEF Copy, Goto
  <2>. QED  BY <1>2, <2>1, <2>2, <2>3 DEF Copy
<1>3. ASSUME NEW s \in Senders, Test(s) PROVE TypeInv'
  <2>1. /\ IndexNext' \in [Senders -> 0 .. TxFrag]
        /\ IndexNext'[s] \in Indices
        /\ \A r \in Senders : r # s => IndexNext'[r] = IndexNext[r]
    BY <1>3 DEF Test, Indices, TxDescriptorNumber
  <2>2. /\ pc' \in [Senders -> {"idle", "copy", "test", "ctrl", "produce"}]
        /\ \A r \in Senders : r # s => pc'[r] = pc[r]
    BY <1>3 DEF Test, Goto
  <2>. QED  BY <1>3, <2>1, <2>2 DEF Test
<1>4. ASSUME NEW s \in Senders, Control(s) PROVE TypeInv'
  BY <1>4 DEF Control, Goto, Runs
<1>5. ASSUME NEW s \in Senders, Produce(s) PROVE TypeInv'
  BY <1>5 DEF Produce, Goto, Runs
<1>6. CASE Transmit
  BY <1>6 DEF Transmit
<1>7. CASE TransmitDone
  <2>1. TxConsumeIndex' \in Indices
    BY <1>7 DEF TransmitDone, Indices, TxDescriptorNumber
  <2>. QED  BY <1>7, <2>1 DEF TransmitDone
<1>8. CASE UNCHANGED vars
  BY <1>8 DEF vars
<1>. HIDE DEF TypeInv
<1>. QED
  BY <1>1, <1>2, <1>3, <1>4, <1>5, <1>6, <1>7, <1>8 DEF Next, SenderNext

\* The types hold in every behaviour, however the threads preempt each other:
\* neither index ever leaves the ring.
THEOREM TypeCorrect == Spec => []TypeOK
<1>1. TypeInv => TypeOK
  BY DEF TypeInv
<1>. QED  BY <1>1, TypeInit, TypeStep, PTL DEF Spec

-----------------------------------------------------------------------------
(* The invariant, while the senders do not interfere.                       *)

\* The invariant holds initially.
LEMMA InvInit == Init => IInv
<1>. SUFFICES ASSUME Init PROVE IInv
  OBVIOUS
<1>1. TypeInv
  BY TypeInit
<1>2. Used = 0
  BY <1>1, UsedValue DEF Init, TypeInv, UsedOK
<1>. QED  BY <1>1, <1>2 DEF Init, IInv, SenderInv, RingInv

\* A write to the fragment at TxProduceIndex is not to a readable one, and a
\* step that does not move the indices leaves those where they are.
LEMMA ReadableKept ==
  ASSUME TypeOK, RingInv,
         UNCHANGED <<TxProduceIndex, TxConsumeIndex, sending>>,
         \A j \in Indices \ {TxProduceIndex} :
           tx_buf'[j] = tx_buf[j] /\ tx_ctrl'[j] = tx_ctrl[j]
  PROVE  RingInv'
<1>1. Used' = Used /\ \A i \in Nat : FragmentOf(i)' = FragmentOf(i)
  BY DEF Used, FragmentOf
<1>2. /\ FragmentOf(0) = TxConsumeIndex
      /\ \A i \in 0 .. Used - 1 : FragmentOf(i) \in Indices \ {TxProduceIndex}
  BY FragmentsApart
<1>3. Used \in Nat
  BY UsedValue DEF UsedOK
<1>4. ASSUME NEW i \in 0 .. Used - 1
      PROVE  /\ tx_buf'[FragmentOf(i)'] = tx_buf[FragmentOf(i)]
             /\ tx_ctrl'[FragmentOf(i)'] = tx_ctrl[FragmentOf(i)]
  BY <1>1, <1>2, <1>3
<1>5. sending # NoFrame => tx_buf'[TxConsumeIndex] = tx_buf[TxConsumeIndex]
  BY <1>2, <1>3 DEF RingInv
<1>. QED  BY <1>1, <1>4, <1>5 DEF RingInv

\* A sender that is alone keeps what it knows of the ring ...
LEMMA SenderStep ==
  ASSUME Serial, Serial', IInv, NEW s \in Senders, SenderNext(s)
  PROVE  SenderInv' /\ (~Produce(s) => RingInv')
<1>. USE DEF Serial, IInv, TypeInv, TypeOK, SenderInv, Runs, Goto, ringVars
<1>1. ASSUME NEW f \in Frames, Begin(s, f) PROVE SenderInv' /\ RingInv'
  <2>1. SenderInv'
    BY <1>1 DEF Begin
  <2>2. RingInv'
    BY <1>1, ReadableKept DEF Begin
  <2>. QED  BY <2>1, <2>2
<1>2. CASE Copy(s)
  <2>1. slot[s] = TxProduceIndex /\ frame[s] \in Frames
    BY <1>2 DEF Copy
  <2>2. SenderInv'
    BY <1>2, <2>1 DEF Copy
  <2>3. RingInv'
    BY <1>2, <2>1, ReadableKept DEF Copy
  <2>. QED  BY <2>2, <2>3
<1>3. CASE Test(s)
  <2>1. IndexNext'[s] = NextFragment(TxProduceIndex)
    BY <1>3 DEF Test, NextFragment, Indices, TxDescriptorNumber
  <2>2. pc'[s] = IF IndexNext'[s] = TxConsumeIndex THEN "idle" ELSE "ctrl"
    BY <1>3 DEF Test
  <2>3. UNCHANGED <<ringVars, sending, frame, slot>> /\ pc[s] = "test"
    BY <1>3 DEF Test
  <2>4. \A r \in Senders : r # s => pc'[r] = "idle"
    BY <1>3, <2>3 DEF Test
  <2>5. SenderInv'
    BY <2>1, <2>2, <2>3, <2>4
  <2>6. RingInv'
    BY <2>3, ReadableKept
  <2>. QED  BY <2>5, <2>6
<1>4. CASE Control(s)
  <2>1. SenderInv'
    BY <1>4 DEF Control
  <2>2. RingInv'
    BY <1>4, ReadableKept DEF Control
  <2>. QED  BY <2>1, <2>2
<1>5. CASE Produce(s)
  BY <1>5 DEF Produce
<1>. HIDE DEF SenderInv
<1>. QED  BY <1>1, <1>2, <1>3, <1>4, <1>5 DEF SenderNext

\* ... and hands its frame over whole.
LEMMA ProduceStep ==
  ASSUME IInv, TypeInv', NEW s \in Senders, Produce(s)
  PROVE  /\ RingInv'
         /\ Used' = Used + 1
         /\ Used + 1 <= TxFrag - 1
         /\ \A i \in Nat : FragmentOf(i)' = FragmentOf(i)
         /\ tx_buf[FragmentOf(Used)] = frame[s] /\ frame[s] \in Frames
<1>1. /\ pc[s] = "produce" /\ TxProduceIndex' = IndexNext[s]
      /\ UNCHANGED <<tx_buf, tx_ctrl, TxConsumeIndex, sending>>
      /\ TypeOK /\ TypeOK'
  BY DEF Produce, Runs, IInv, TypeInv
<1>2. /\ IndexNext[s] = NextFragment(TxProduceIndex)
      /\ IndexNext[s] # TxConsumeIndex
      /\ frame[s] \in Frames
      /\ tx_buf[TxProduceIndex] = frame[s]
      /\ tx_ctrl[TxProduceIndex] = frame[s]
  BY <1>1 DEF IInv, SenderInv
<1>3. /\ Used' = Used + 1
      /\ Used + 1 <= TxFrag - 1
      /\ \A i \in Nat : FragmentOf(i)' = FragmentOf(i)
  BY <1>1, <1>2, ProduceUsed
<1>4. FragmentOf(Used) = TxProduceIndex /\ Used \in Nat
  BY <1>1, FragmentsApart, UsedValue DEF UsedOK
<1>5. RingInv'
  <2>1. ASSUME NEW i \in 0 .. Used
        PROVE  /\ tx_buf[FragmentOf(i)] \in Frames
               /\ tx_ctrl[FragmentOf(i)] = tx_buf[FragmentOf(i)]
    <3>1. CASE i = Used
      BY <1>2, <1>4, <3>1
    <3>2. CASE i # Used
      <4>1. i \in 0 .. Used - 1
        BY <1>4, <3>2
      <4>. QED  BY <4>1 DEF IInv, RingInv
    <3>. QED  BY <3>1, <3>2
  <2>2. \A i \in 0 .. Used' - 1 : i \in 0 .. Used /\ i \in Nat
    BY <1>3, <1>4
  <2>3. \A i \in 0 .. Used' - 1 :
          /\ tx_buf'[FragmentOf(i)'] \in Frames
          /\ tx_ctrl'[FragmentOf(i)'] = tx_buf'[FragmentOf(i)']
    BY <1>1, <1>3, <2>1, <2>2
  <2>4. sending' # NoFrame => Used' > 0 /\ sending' = tx_buf'[TxConsumeIndex']
    BY <1>1, <1>3, <1>4 DEF IInv, RingInv
  <2>. QED  BY <2>3, <2>4 DEF RingInv
<1>. QED  BY <1>2, <1>3, <1>4, <1>5

\* The controller frees the fragment that it has sent, and never the last one
\* that separates the two indices.
LEMMA DoneStep ==
  ASSUME IInv, TypeInv', TransmitDone
  PROVE  SenderInv' /\ RingInv'
<1>0. TypeOK /\ TypeOK' /\ Used > 0 /\ Used \in Nat
  BY UsedValue DEF IInv, TypeInv, TransmitDone, RingInv, UsedOK
<1>1. /\ TxConsumeIndex' = NextFragment(TxConsumeIndex)
      /\ Used' = Used - 1
      /\ \A i \in 0 .. Used - 2 : FragmentOf(i)' = FragmentOf(i + 1)
  BY <1>0, DoneUsed
<1>2. TxConsumeIndex # TxProduceIndex
  BY <1>0, FragmentsApart
<1>3. NextFragment(TxProduceIndex) # NextFragment(TxConsumeIndex)
  BY <1>0, <1>2 DEF NextFragment, TypeOK, Indices, TxDescriptorNumber
<1>4. SenderInv'
  BY <1>1, <1>3 DEF TransmitDone, IInv, SenderInv
<1>5. RingInv'
  <2>1. UNCHANGED <<tx_buf, tx_ctrl>> /\ sending' = NoFrame
    BY DEF TransmitDone
  <2>2. \A i \in 0 .. Used' - 1 : i \in 0 .. Used - 2 /\ i + 1 \in 0 .. Used - 1
    BY <1>0, <1>1
  <2>3. ASSUME NEW i \in 0 .. Used' - 1
        PROVE  /\ tx_buf'[FragmentOf(i)'] \in Frames
               /\ tx_ctrl'[FragmentOf(i)'] = tx_buf'[FragmentOf(i)']
    BY <1>1, <2>1, <2>2 DEF IInv, RingInv
  <2>. QED  BY <2>1, <2>3 DEF RingInv
<1>. QED  BY <1>4, <1>5

\* Every step keeps the invariant.
LEMMA InvStep == Serial /\ Serial' /\ IInv /\ [Next]_vars => IInv'
<1>. SUFFICES ASSUME Serial, Serial', IInv, [Next]_vars PROVE IInv'
  OBVIOUS
<1>0. TypeInv' /\ TypeOK
  BY TypeStep DEF IInv, TypeInv
<1>1. ASSUME NEW s \in Senders, SenderNext(s) PROVE IInv'
  BY <1>0, <1>1, SenderStep, ProduceStep DEF IInv
<1>2. CASE Transmit
  <2>1. Used > 0
    BY <1>0, <1>2, FragmentsApart, UsedValue DEF Transmit, UsedOK
  <2>2. FragmentOf(0) = TxConsumeIndex /\ 0 \in 0 .. Used - 1
    BY <1>0, <2>1, FragmentsApart, UsedValue DEF UsedOK
  <2>3. SenderInv'
    BY <1>2 DEF Transmit, ringVars, IInv, SenderInv
  <2>4. RingInv'
    BY <1>2, <2>1, <2>2
    DEF Transmit, ringVars, IInv, RingInv, Used, FragmentOf
  <2>. QED  BY <1>0, <2>3, <2>4 DEF IInv
<1>3. CASE TransmitDone
  BY <1>0, <1>3, DoneStep DEF IInv
<1>4. CASE UNCHANGED vars
  BY <1>0, <1>4
  DEF vars, ringVars, IInv, SenderInv, RingInv, Used, FragmentOf
<1>. QED  BY <1>1, <1>2, <1>3, <1>4 DEF Next

\* The invariant holds in every behaviour of senders that do not interfere.
LEMMA InvAlways == Spec /\ []Serial => []IInv
BY InvInit, InvStep, PTL DEF Spec

\* Every fragment that the controller may read holds one frame whole with its
\* length, and the one it sends does not change under it, although
\* low_level_output copies before it tests for room.
THEOREM FragmentsWhole == Spec /\ []Serial => []ReadableFragmentsWhole
<1>1. IInv => ReadableFragmentsWhole
  <2>. SUFFICES ASSUME IInv, NEW i \in 0 .. Used - 1
                PROVE  /\ tx_ctrl[FragmentOf(i)] = tx_buf[FragmentOf(i)]
                       /\ i = 0 /\ sending # NoFrame =>
                            tx_buf[FragmentOf(i)] = sending
    BY DEF ReadableFragmentsWhole, FragmentOf
  <2>1. FragmentOf(0) = TxConsumeIndex
    BY FragmentsApart DEF IInv, TypeInv
  <2>. QED  BY <2>1 DEF IInv, RingInv
<1>. QED  BY <1>1, InvAlways, PTL

-----------------------------------------------------------------------------
(* The ring implements a FrameQueue.                                        *)

\* A function on 1 .. n is a sequence of length n.
LEMMA FunctionIsSeq ==
  ASSUME NEW S, NEW n \in Nat, NEW s \in [1 .. n -> S]
  PROVE  s \in Seq(S) /\ Len(s) = n
<1>1. s \in Seq(S)
  BY SeqDef
<1>2. 1 .. Len(s) = 1 .. n /\ Len(s) \in Nat
  BY <1>1, LenProperties
<1>. QED  BY <1>1, <1>2

\* The frame in the hand of the controller is still the first of the ring.
Busy == IF sending = NoFrame THEN 0 ELSE 1

QueuedOK ==
  /\ Used - Busy \in Nat
  /\ queued \in Seq(Frames)
  /\ Len(queued) = Used - Busy
  /\ \A i \in 1 .. Used - Busy : queued[i] = tx_buf[FragmentOf(Busy + i - 1)]

\* The queued frames are a sequence of frames, in the order of the fragments.
LEMMA QueuedValue == IInv => QueuedOK
<1>. SUFFICES ASSUME IInv PROVE QueuedOK
  OBVIOUS
<1>1. /\ Used \in Nat /\ Busy \in {0, 1} /\ Used - Busy \in Nat
      /\ TxConsumeIndex \in Nat
  BY UsedValue
  DEF IInv, TypeInv, TypeOK, RingInv, UsedOK, Busy, Indices, TxDescriptorNumber
<1>2. queued = [i \in 1 .. Used - Busy |->
                  tx_buf[(TxConsumeIndex + Busy + i - 1) % TxFrag]]
  <2>1. (TxConsumeIndex + Used - 1) + 1 - (TxConsumeIndex + Busy) = Used - Busy
    BY <1>1
  <2>. QED  BY <2>1 DEF queued, Busy
<1>3. \A i \in 1 .. Used - Busy :
        /\ Busy + i - 1 \in 0 .. Used - 1
        /\ TxConsumeIndex + Busy + i - 1 = TxConsumeIndex + (Busy + i - 1)
  BY <1>1
<1>4. queued = [i \in 1 .. Used - Busy |-> tx_buf[FragmentOf(Busy + i - 1)]]
  BY <1>2, <1>3 DEF FragmentOf
<1>5. queued \in [1 .. Used - Busy -> Frames]
  BY <1>3, <1>4 DEF IInv, RingInv
<1>6. queued \in Seq(Frames) /\ Len(queued) = Used - Busy
  BY <1>1, <1>5, FunctionIsSeq
<1>. QED  BY <1>1, <1>4, <1>6 DEF QueuedOK

\* The same after a step.
LEMMA QueuedValueNext == IInv' => QueuedOK'
BY QueuedValue, PTL

\* Produce appends the packet of the sender.
LEMMA ProduceAppends ==
  ASSUME IInv, IInv', NEW s \in Senders, Produce(s)
  PROVE  /\ Len(queued) < TxFrag - 1
         /\ queued' = Append(queued, frame[s])
<1>1. /\ Used' = Used + 1
      /\ Used + 1 <= TxFrag - 1
      /\ \A i \in Nat : FragmentOf(i)' = FragmentOf(i)
      /\ tx_buf[FragmentOf(Used)] = frame[s] /\ frame[s] \in Frames
  BY ProduceStep DEF IInv
<1>2. tx_buf' = tx_buf /\ Busy' = Busy
  BY DEF Produce, Busy
<1>3. QueuedOK /\ QueuedOK'
  BY QueuedValue, QueuedValueNext
<1>4. Used \in Nat /\ Busy \in {0, 1}
  BY UsedValue DEF IInv, TypeInv, UsedOK, Busy
<1>. DEFINE n == Used - Busy
<1>5. n \in Nat /\ Used' - Busy' = n + 1 /\ n <= Used
  BY <1>1, <1>2, <1>3, <1>4 DEF QueuedOK
<1>6. /\ queued \in Seq(Frames) /\ Len(queued) = n
      /\ queued' \in Seq(Frames) /\ Len(queued') = n + 1
  BY <1>3, <1>5 DEF QueuedOK
<1>7. /\ Append(queued, frame[s]) \in Seq(Frames)
      /\ Len(Append(queued, frame[s])) = n + 1
      /\ \A i \in 1 .. n : Append(queued, frame[s])[i] = queued[i]
      /\ Append(queued, frame[s])[n + 1] = frame[s]
  BY <1>1, <1>6, AppendProperties
<1>8. ASSUME NEW i \in 1 .. n + 1
      PROVE  queued'[i] = Append(queued, frame[s])[i]
  <2>1. queued'[i] = tx_buf[FragmentOf(Busy + i - 1)]
    <3>1. i \in 1 .. Used' - Busy'
      BY <1>5
    <3>2. queued'[i] = tx_buf'[FragmentOf(Busy + i - 1)']
      BY <1>3, <3>1 DEF QueuedOK
    <3>3. Busy + i - 1 \in Nat
      BY <1>4, <1>5
    <3>. QED  BY <1>1, <1>2, <3>2, <3>3
  <2>2. CASE i = n + 1
    <3>1. Busy + i - 1 = Used
      BY <1>4, <2>2
    <3>. QED  BY <1>1, <1>7, <2>1, <2>2, <3>1
  <2>3. CASE i \in 1 .. n
    <3>1. queued[i] = tx_buf[FragmentOf(Busy + i - 1)]
      BY <1>3, <2>3 DEF QueuedOK
    <3>. QED  BY <1>7, <2>1, <2>3, <3>1
  <2>4. i = n + 1 \/ i \in 1 .. n
    BY <1>5
  <2>. QED  BY <2>2, <2>3, <2>4
<1>9. Len(queued) < TxFrag - 1
  BY <1>1, <1>4, <1>5, <1>6
<1>. HIDE DEF n
<1>10. queued' = Append(queued, frame[s])
  BY <1>6, <1>7, <1>8, SeqEqual
<1>. QED  BY <1>9, <1>10

\* The controller takes the first frame in hand.
LEMMA TransmitTakes ==
  ASSUME IInv, IInv', Transmit
  PROVE  /\ queued # <<>> /\ sending = NoFrame
         /\ sending' = Head(queued)
         /\ queued' = Tail(queued)
<1>1. QueuedOK /\ QueuedOK'
  BY QueuedValue, QueuedValueNext
<1>2. /\ FragmentOf(0) = TxConsumeIndex
      /\ FragmentOf(Used) = TxProduceIndex
      /\ Used \in Nat
  BY FragmentsApart, UsedValue DEF IInv, TypeInv, UsedOK
<1>3. Used > 0
  BY <1>2 DEF Transmit
<1>4. /\ sending = NoFrame /\ sending' = tx_buf[FragmentOf(0)]
      /\ Used' = Used /\ tx_buf' = tx_buf
      /\ \A i \in Nat : FragmentOf(i)' = FragmentOf(i)
  BY <1>2 DEF Transmit, ringVars, Used, FragmentOf
<1>5. sending' \in Frames
  BY <1>2, <1>3, <1>4 DEF IInv, RingInv
<1>6. Busy = 0 /\ Busy' = 1
  BY <1>4, <1>5 DEF Busy
<1>7. /\ queued \in Seq(Frames) /\ Len(queued) = Used
      /\ queued' \in Seq(Frames) /\ Len(queued') = Used - 1
      /\ queued # <<>>
  BY <1>1, <1>2, <1>3, <1>4, <1>6, EmptySeq DEF QueuedOK
<1>8. \A i \in 1 .. Used : queued[i] = tx_buf[FragmentOf(i - 1)]
  BY <1>1, <1>2, <1>6 DEF QueuedOK
<1>9. ASSUME NEW i \in 1 .. Used - 1 PROVE queued'[i] = tx_buf[FragmentOf(i)]
  <2>1. i \in Nat /\ i \in 1 .. Used' - Busy' /\ Busy' + i - 1 = i
    BY <1>2, <1>4, <1>6
  <2>2. queued'[i] = tx_buf'[FragmentOf(Busy + i - 1)']
    BY <1>1, <2>1 DEF QueuedOK
  <2>. QED  BY <1>4, <2>1, <2>2
<1>10. Head(queued) = tx_buf[FragmentOf(0)]
  <2>1. Head(queued) = queued[1] /\ 1 \in 1 .. Used
    BY <1>2, <1>3, <1>7
  <2>. QED  BY <1>8, <2>1
<1>11. /\ Tail(queued) \in Seq(Frames)
       /\ Len(Tail(queued)) = Used - 1
       /\ \A i \in 1 .. Used - 1 : Tail(queued)[i] = queued[i + 1]
  BY <1>7, HeadTailProperties
<1>12. ASSUME NEW i \in 1 .. Used - 1 PROVE queued'[i] = Tail(queued)[i]
  <2>1. i + 1 \in 1 .. Used /\ (i + 1) - 1 = i
    BY <1>2
  <2>. QED  BY <1>8, <1>9, <1>11, <2>1
<1>13. queued' = Tail(queued)
  BY <1>7, <1>11, <1>12, SeqEqual
<1>. QED  BY <1>4, <1>7, <1>10, <1>13

\* When it is done with the frame the rest of the queue is the same.
LEMMA DoneKeeps ==
  ASSUME IInv, IInv', TransmitDone
  PROVE  queued' = queued
<1>1. QueuedOK /\ QueuedOK'
  BY QueuedValue, QueuedValueNext
<1>2. Used > 0 /\ Used \in Nat /\ TypeOK /\ TypeOK'
  BY UsedValue DEF IInv, TypeInv, RingInv, TransmitDone, UsedOK
<1>3. /\ Used' = Used - 1
      /\ \A i \in 0 .. Used - 2 : FragmentOf(i)' = FragmentOf(i + 1)
  BY <1>2, DoneUsed
<1>4. Busy = 1 /\ Busy' = 0 /\ tx_buf' = tx_buf
  BY DEF TransmitDone, Busy
<1>5. /\ queued \in Seq(Frames) /\ Len(queued) = Used - 1
      /\ queued' \in Seq(Frames) /\ Len(queued') = Used - 1
  BY <1>1, <1>2, <1>3, <1>4 DEF QueuedOK
<1>6. ASSUME NEW i \in 1 .. Used - 1 PROVE queued'[i] = queued[i]
  <2>1. /\ i \in 1 .. Used' - Busy' /\ i \in 1 .. Used - Busy
        /\ i - 1 \in 0 .. Used - 2 /\ (i - 1) + 1 = i
        /\ Busy' + i - 1 = i - 1 /\ Busy + i - 1 = i
    BY <1>2, <1>3, <1>4
  <2>2. queued'[i] = tx_buf'[FragmentOf(Busy + i - 1)']
    BY <1>1, <2>1 DEF QueuedOK
  <2>3. queued[i] = tx_buf[FragmentOf(i)]
    BY <1>1, <2>1 DEF QueuedOK
  <2>4. FragmentOf(i - 1)' = FragmentOf(i)
    BY <1>3, <2>1
  <2>. QED  BY <1>4, <2>1, <2>2, <2>3, <2>4
<1>. QED  BY <1>5, <1>6, SeqEqual

\* The other steps leave it alone, a copy to the ring included.
LEMMA CopyKeeps ==
  ASSUME IInv, IInv', NEW s \in Senders,
         SenderNext(s), ~Produce(s)
  PROVE  queued' = queued /\ sending' = sending
<1>1. QueuedOK /\ QueuedOK'
  BY QueuedValue, QueuedValueNext
<1>2. UNCHANGED <<TxProduceIndex, TxConsumeIndex, sending>>
  BY DEF SenderNext, Begin, Copy, Test, Control, ringVars
<1>3. tx_buf' = tx_buf \/ Copy(s)
  BY DEF SenderNext, Begin, Test, Control, ringVars
<1>4. /\ Used' = Used /\ Busy' = Busy /\ Used \in Nat /\ Busy \in {0, 1}
      /\ \A i \in Nat : FragmentOf(i)' = FragmentOf(i)
  BY <1>2, UsedValue DEF IInv, TypeInv, UsedOK, Used, Busy, FragmentOf
<1>5. \A i \in 0 .. Used - 1 : FragmentOf(i) \in Indices \ {TxProduceIndex}
  BY FragmentsApart DEF IInv, TypeInv
<1>6. \A j \in Indices \ {TxProduceIndex} : tx_buf'[j] = tx_buf[j]
  <2>1. CASE Copy(s)
    <3>1. slot[s] = TxProduceIndex
      BY <2>1 DEF Copy, Runs, IInv, SenderInv
    <3>. QED  BY <2>1, <3>1 DEF Copy, IInv, TypeInv, TypeOK
  <2>. QED  BY <1>3, <2>1
<1>7. ASSUME NEW i \in 1 .. Used - Busy PROVE queued'[i] = queued[i]
  <2>1. Busy + i - 1 \in 0 .. Used - 1 /\ Busy + i - 1 \in Nat
    BY <1>4
  <2>2. /\ queued'[i] = tx_buf'[FragmentOf(Busy + i - 1)']
        /\ queued[i] = tx_buf[FragmentOf(Busy + i - 1)]
    BY <1>1, <1>4 DEF QueuedOK
  <2>. QED  BY <1>4, <1>5, <1>6, <2>1, <2>2
<1>8. /\ queued \in Seq(Frames) /\ Len(queued) = Used - Busy
      /\ queued' \in Seq(Frames) /\ Len(queued') = Used - Busy
  BY <1>1, <1>4 DEF QueuedOK
<1>. QED  BY <1>2, <1>7, <1>8, SeqEqual

\* Every step is a step of the abstract queue or leaves it alone.
LEMMA StepRefines ==
  IInv /\ IInv' /\ [Next]_vars => [Queue!QNext]_(Queue!qvars)
<1>. SUFFICES ASSUME IInv, IInv', [Next]_vars
              PROVE  Queue!QNext \/ UNCHANGED Queue!qvars
  OBVIOUS
<1>. USE DEF Queue!QNext, Queue!qvars
<1>1. ASSUME NEW s \in Senders, Produce(s) PROVE Queue!QNext
  <2>1. /\ Len(queued) < TxFrag - 1 /\ queued' = Append(queued, frame[s])
        /\ frame[s] \in Frames /\ sending' = sending
    BY <1>1, ProduceAppends, ProduceStep DEF Produce, IInv
  <2>2. Queue!Produce(frame[s])
    BY <2>1 DEF Queue!Produce
  <2>. QED  BY <2>1, <2>2
<1>2. ASSUME NEW s \in Senders, SenderNext(s), ~Produce(s)
      PROVE  UNCHANGED Queue!qvars
  BY <1>2, CopyKeeps
<1>3. CASE Transmit
  BY <1>3, TransmitTakes DEF Queue!Take
<1>4. CASE TransmitDone
  BY <1>4, DoneKeeps DEF TransmitDone, Queue!Done
<1>5. CASE UNCHANGED vars
  BY <1>5 DEF vars, ringVars, queued, Used
<1>. QED  BY <1>1, <1>2, <1>3, <1>4, <1>5 DEF Next

\* Whatever the size of the ring, what threads hand over with one
\* low_level_output after the other leaves the controller once, unchanged and
\* in order.
THEOREM RingImplementsQueue == Spec /\ []Serial => ImplementsQueue
<1>1. Init => Queue!QInit
  <2>. SUFFICES ASSUME Init PROVE Queue!QInit
    OBVIOUS
  <2>1. IInv /\ TxProduceIndex = 0 /\ TxConsumeIndex = 0 /\ sending = NoFrame
    BY InvInit DEF Init
  <2>2. Used = 0
    BY <2>1, UsedValue DEF IInv, TypeInv, UsedOK
  <2>3. queued \in Seq(Frames) /\ Len(queued) = 0
    BY <2>1, <2>2, QueuedValue DEF QueuedOK, Busy
  <2>. QED  BY <2>1, <2>3, EmptySeq DEF Queue!QInit
<1>. QED
  BY <1>1, InvAlways, StepRefines, PTL DEF Spec, ImplementsQueue, Queue!QSpec

\* A call that has passed the test for room appends the packet that it was
\* called with, when no other thread is in low_level_output.
THEOREM PacketsQueued == Spec /\ []Serial => PacketQueued
<1>1. IInv /\ IInv' /\ [Next]_vars
        => [\A s \in Senders : pc[s] = "produce" /\ pc'[s] = "idle"
              => queued' = Append(queued, frame[s])]_vars
  <2>. SUFFICES ASSUME IInv, IInv', Next, NEW s \in Senders,
                       pc[s] = "produce", pc'[s] = "idle"
                PROVE  queued' = Append(queued, frame[s])
    OBVIOUS
  <2>1. PICK r \in Senders : SenderNext(r)
    BY DEF Next, Transmit, TransmitDone
  <2>2. s # r => pc'[s] = pc[s]
    BY <2>1
    DEF SenderNext, Begin, Copy, Test, Control, Produce, Goto, IInv, TypeInv,
        TypeOK
  <2>3. Produce(r) /\ r = s
    BY <2>1, <2>2 DEF SenderNext, Begin, Copy, Test, Control, Runs, Goto
  <2>. QED  BY <2>3, ProduceAppends
<1>. QED  BY <1>1, InvAlways, PTL DEF Spec, PacketQueued
=============================================================================
