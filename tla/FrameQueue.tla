------------------------------ MODULE FrameQueue ------------------------------
(***************************************************************************)
(* What either descriptor ring of the Ethernet controller promises to the  *)
(* two sides that share it: a bounded queue of frames.  The producer       *)
(* appends a frame, the consumer takes the oldest one in hand and then is  *)
(* done with it.  A frame is never reordered, duplicated or made up; only  *)
(* the oldest one may be given up by the consumer (no memory to copy it    *)
(* to).                                                                    *)
(***************************************************************************)
EXTENDS Naturals, Sequences

CONSTANTS
  Frames,    \* the frames
  NoFrame,   \* nothing in hand
  Capacity   \* the most frames that are queued

VARIABLES
  queue,  \* the frames that are queued, the oldest first
  hand    \* the frame that the consumer is working on

qvars == <<queue, hand>>

QInit == queue = <<>> /\ hand = NoFrame

Produce(f) ==
  /\ Len(queue) < Capacity
  /\ queue' = Append(queue, f)
  /\ UNCHANGED hand

Take ==
  /\ queue # <<>>
  /\ hand = NoFrame
  /\ hand' = Head(queue)
  /\ queue' = Tail(queue)

GiveUp ==
  /\ queue # <<>>
  /\ hand = NoFrame
  /\ queue' = Tail(queue)
  /\ UNCHANGED hand

Done ==
  /\ hand # NoFrame
  /\ hand' = NoFrame
  /\ UNCHANGED queue

QNext == (\E f \in Frames : Produce(f)) \/ Take \/ GiveUp \/ Done

QSpec == QInit /\ [][QNext]_qvars
=============================================================================
