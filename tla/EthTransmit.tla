------------------------------ MODULE EthTransmit -----------------------------
(***************************************************************************)
(* The transmit path of the Ethernet interface: low_level_output           *)
(* (ethernetif.c), which puts a frame into the descriptor ring of the      *)
(* controller, and the controller, which sends the frames of the ring.     *)
(*                                                                         *)
(* low_level_output holds no lock.  The threads that may be in it at once  *)
(* are a parameter: FlyEthernetTask, which runs the lwIP core because      *)
(* netif->input is ethernet_input, and tcpip_thread, which runs its        *)
(* timers.  A thread is its priority, a smaller number is a higher one,    *)
(* and a thread runs only while no higher one is in low_level_output.      *)
(***************************************************************************)
EXTENDS Naturals, Sequences

CONSTANTS
  Senders,  \* the priorities of the threads that send
  Frames,   \* the frames to send
  TooLong,  \* those that do not fit into a fragment (mtu 1500: none)
  NoFrame,
  TxFrag    \* EMAC_NUM_TX_FRAG, the fragments of the ring (3 in the code)

ASSUME TxAssumption ==
  /\ Senders \subseteq Nat
  /\ NoFrame \notin Frames /\ TooLong \subseteq Frames
  /\ TxFrag \in Nat /\ TxFrag > 1

VARIABLES
  tx_buf,          \* per fragment: the frame that was copied to it
  tx_ctrl,         \* per fragment: the frame whose length it is to send
  TxProduceIndex,  \* where the next frame is to be put
  TxConsumeIndex,  \* where the controller sends from
  sending,         \* the frame that the controller is sending
  pc,              \* per thread: how far it is in low_level_output
  frame,           \* per thread: the pbuf it was called with
  slot,            \* per thread: the fragment that tx_buffer points to
  IndexNext        \* per thread: its local variable

ringVars == <<tx_buf, tx_ctrl, TxProduceIndex, TxConsumeIndex>>
vars == <<ringVars, sending, pc, frame, slot, IndexNext>>

TxDescriptorNumber == TxFrag - 1
Indices == 0 .. TxDescriptorNumber

TypeOK ==
  /\ tx_buf \in [Indices -> Frames \cup {NoFrame}]
  /\ tx_ctrl \in [Indices -> Frames \cup {NoFrame}]
  /\ TxProduceIndex \in Indices
  /\ TxConsumeIndex \in Indices
  /\ sending \in Frames \cup {NoFrame}
  /\ pc \in [Senders -> {"idle", "copy", "test", "ctrl", "produce"}]
  /\ frame \in [Senders -> Frames \cup {NoFrame}]
  /\ slot \in [Senders -> Indices]
  /\ IndexNext \in [Senders -> 0 .. TxFrag]

Runs(s, place) ==
  pc[s] = place /\ \A r \in Senders : r < s => pc[r] = "idle"

Goto(s, place) == pc' = [pc EXCEPT ![s] = place]

-----------------------------------------------------------------------------
(* low_level_output.                                                        *)

\* The two reads of TxProduceIndex at its beginning.
Begin(s, f) ==
  /\ Runs(s, "idle")
  /\ frame' = [frame EXCEPT ![s] = f]
  /\ IndexNext' = [IndexNext EXCEPT ![s] = TxProduceIndex + 1]
  /\ slot' = [slot EXCEPT ![s] = TxProduceIndex]
  /\ Goto(s, "copy")
  /\ UNCHANGED <<ringVars, sending>>

\* The copying of the pbufs, before the ring is tested for room.  A frame
\* that is too long is copied in part, and the function returns ERR_OK.
Copy(s) ==
  /\ Runs(s, "copy")
  /\ tx_buf' = [tx_buf EXCEPT ![slot[s]] = frame[s]]
  /\ Goto(s, IF frame[s] \in TooLong THEN "idle" ELSE "test")
  /\ UNCHANGED <<tx_ctrl, TxProduceIndex, TxConsumeIndex, sending, frame, slot,
                 IndexNext>>

\* Mutant: a full ring is not noticed.
TestNoRoom(s) ==
  /\ Runs(s, "test")
  /\ IndexNext' = [IndexNext EXCEPT ![s] =
                     IF @ > TxDescriptorNumber THEN 0 ELSE @]
  /\ Goto(s, "ctrl")
  /\ UNCHANGED <<ringVars, sending, frame, slot>>

\* IndexNext wraps; when the ring is full the function returns FALSE, which
\* its caller takes for ERR_OK.
Test(s) ==
  /\ Runs(s, "test")
  /\ IndexNext' = [IndexNext EXCEPT ![s] =
                     IF @ > TxDescriptorNumber THEN 0 ELSE @]
  /\ Goto(s, IF IndexNext'[s] = TxConsumeIndex THEN "idle" ELSE "ctrl")
  /\ UNCHANGED <<ringVars, sending, frame, slot>>

\* Mutant: the length is set in the fragment of the next frame.
ControlNext(s) ==
  /\ Runs(s, "ctrl")
  /\ tx_ctrl' = [tx_ctrl EXCEPT ![IndexNext[s]] = frame[s]]
  /\ Goto(s, "produce")
  /\ UNCHANGED <<tx_buf, TxProduceIndex, TxConsumeIndex, sending, frame, slot,
                 IndexNext>>

\* TxProduceIndex is read again for the fragment whose length is set.
Control(s) ==
  /\ Runs(s, "ctrl")
  /\ tx_ctrl' = [tx_ctrl EXCEPT ![TxProduceIndex] = frame[s]]
  /\ Goto(s, "produce")
  /\ UNCHANGED <<tx_buf, TxProduceIndex, TxConsumeIndex, sending, frame, slot,
                 IndexNext>>

\* The frame is handed to the controller, and the function returns ERR_OK.
Produce(s) ==
  /\ Runs(s, "produce")
  /\ TxProduceIndex' = IndexNext[s]
  /\ Goto(s, "idle")
  /\ UNCHANGED <<tx_buf, tx_ctrl, TxConsumeIndex, sending, frame, slot,
                 IndexNext>>

-----------------------------------------------------------------------------
(* The controller.                                                          *)

Transmit ==
  /\ sending = NoFrame
  /\ TxConsumeIndex # TxProduceIndex
  /\ sending' = tx_buf[TxConsumeIndex]
  /\ UNCHANGED <<ringVars, pc, frame, slot, IndexNext>>

TransmitDone ==
  /\ sending # NoFrame
  /\ sending' = NoFrame
  /\ TxConsumeIndex' = (TxConsumeIndex + 1) % TxFrag
  /\ UNCHANGED <<tx_buf, tx_ctrl, TxProduceIndex, pc, frame, slot, IndexNext>>

-----------------------------------------------------------------------------
Init ==
  /\ tx_buf = [i \in Indices |-> NoFrame]
  /\ tx_ctrl = [i \in Indices |-> NoFrame]
  /\ TxProduceIndex = 0
  /\ TxConsumeIndex = 0
  /\ sending = NoFrame
  /\ pc = [s \in Senders |-> "idle"]
  /\ frame = [s \in Senders |-> NoFrame]
  /\ slot = [s \in Senders |-> 0]
  /\ IndexNext = [s \in Senders |-> 0]

SenderNext(s) ==
  \/ \E f \in Frames : Begin(s, f)
  \/ Copy(s) \/ Test(s) \/ Control(s) \/ Produce(s)

Next == (\E s \in Senders : SenderNext(s)) \/ Transmit \/ TransmitDone

Spec == Init /\ [][Next]_vars

-----------------------------------------------------------------------------
(* Properties.                                                              *)

\* The frames that are handed to the controller and not yet sent.
Used == (TxProduceIndex + TxFrag - TxConsumeIndex) % TxFrag

\* The ring without the frame that is being sent.
queued ==
  LET first == TxConsumeIndex + (IF sending = NoFrame THEN 0 ELSE 1)
      last == TxConsumeIndex + Used - 1
  IN  [i \in 1 .. last + 1 - first |-> tx_buf[(first + i - 1) % TxFrag]]

\* Every fragment that the controller may read from, the one being sent
\* included, holds one frame and the length of the same frame, although
\* low_level_output copies to the ring before it looks for room.
ReadableFragmentsWhole ==
  \A i \in 0 .. Used - 1 :
    LET j == (TxConsumeIndex + i) % TxFrag
    IN  tx_ctrl[j] = tx_buf[j] /\ (i = 0 /\ sending # NoFrame => tx_buf[j] = sending)

\* low_level_output "should do the actual transmission of the packet ...
\* contained in the pbuf that is passed to the function": when it has passed
\* the test for room, it appends just that packet to the ring.
PacketQueued ==
  [][\A s \in Senders :
       pc[s] = "produce" /\ pc'[s] = "idle"
         => queued' = Append(queued, frame[s])]_vars

\* "@return ERR_OK if the packet could be sent, an err_t value if the packet
\* couldn't be sent": a call that returns ERR_OK, which is 0 as FALSE is, has
\* queued its packet.
OkMeansQueued ==
  [][\A s \in Senders :
       pc[s] # "idle" /\ pc'[s] = "idle"
         => queued' = Append(queued, frame[s])]_vars

\* The ring is a FrameQueue between the threads and the controller.
Queue == INSTANCE FrameQueue WITH
  Capacity <- TxFrag - 1,
  queue <- queued,
  hand <- sending

\* What low_level_output has handed over goes out once, in order, unchanged.
ImplementsQueue == Queue!QSpec
=============================================================================
