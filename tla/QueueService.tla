----------------------------- MODULE QueueService -----------------------------
(***************************************************************************)
(* What a uC/OS-II message queue promises to the code that calls it (the   *)
(* headers of OSQPend, OSQPost, OSQPostFront, OSQPostOpt, OSQFlush and     *)
(* OSQDel in OS_Q.C), with nothing of the scheduler and of the ring of     *)
(* pointers: a bounded sequence of messages per queue, callers that wait   *)
(* for one, and waits that end with a message or without.  UcosQueue is    *)
(* shown to implement it.                                                  *)
(***************************************************************************)
EXTENDS Naturals, Sequences

CONSTANTS
  Callers,   \* the tasks, smaller numbers are served first
  Queues,
  Messages,
  Nothing,   \* no message
  Capacity

VARIABLES
  live,     \* the queues that exist
  content,  \* per queue: the messages in it, the next one to leave first
  waiters,  \* per queue: the callers that wait for a message
  phase,    \* per caller: "idle", "waiting" or "released"
  inbox,    \* per caller: the message it was released with
  result    \* per caller: what its last wait returned

svars == <<live, content, waiters, phase, inbox, result>>

SInit ==
  /\ live \subseteq Queues
  /\ content = [q \in Queues |-> <<>>]
  /\ waiters = [q \in Queues |-> {}]
  /\ phase = [c \in Callers |-> "idle"]
  /\ inbox = [c \in Callers |-> Nothing]
  /\ result = [c \in Callers |-> Nothing]

Create(q) ==
  /\ q \notin live
  /\ live' = live \cup {q}
  /\ content' = [content EXCEPT ![q] = <<>>]
  /\ UNCHANGED <<waiters, phase, inbox, result>>

\* The callers W stop to wait for q, each with the message m.
Release(q, W, m) ==
  /\ waiters' = [waiters EXCEPT ![q] = @ \ W]
  /\ phase' = [c \in Callers |-> IF c \in W THEN "released" ELSE phase[c]]
  /\ inbox' = [c \in Callers |-> IF c \in W THEN m ELSE inbox[c]]

\* Deleting a queue lets all of its waiters go without a message.
Delete(q) ==
  /\ q \in live
  /\ live' = live \ {q}
  /\ Release(q, waiters[q], Nothing)
  /\ UNCHANGED <<content, result>>

Flush(q) ==
  /\ q \in live
  /\ content' = [content EXCEPT ![q] = <<>>]
  /\ UNCHANGED <<live, waiters, phase, inbox, result>>

\* The first message is taken at once, by OSQPend or OSQAccept.
Take(c, q) ==
  /\ q \in live
  /\ phase[c] = "idle"
  /\ content[q] # <<>>
  /\ content' = [content EXCEPT ![q] = Tail(@)]
  /\ result' = [result EXCEPT ![c] = Head(content[q])]
  /\ UNCHANGED <<live, waiters, phase, inbox>>

Wait(c, q) ==
  /\ q \in live
  /\ phase[c] = "idle"
  /\ content[q] = <<>>
  /\ waiters' = [waiters EXCEPT ![q] = @ \cup {c}]
  /\ phase' = [phase EXCEPT ![c] = "waiting"]
  /\ result' = [result EXCEPT ![c] = Nothing]
  /\ UNCHANGED <<live, content, inbox>>

\* A message goes past the queue to the first waiter, or to all of them.
Hand(q, m) ==
  /\ q \in live
  /\ \E W \in SUBSET waiters[q] :
       /\ W # {}
       /\ \/ W = waiters[q]
          \/ \E c \in W : W = {c} /\ \A d \in waiters[q] : c <= d
       /\ Release(q, W, m)
  /\ UNCHANGED <<live, content, result>>

\* Nobody waits: the message is queued, at the end or at the front.
Keep(q, m) ==
  /\ q \in live
  /\ waiters[q] = {}
  /\ Len(content[q]) < Capacity
  /\ content' \in {[content EXCEPT ![q] = Append(@, m)],
                   [content EXCEPT ![q] = <<m>> \o @]}
  /\ UNCHANGED <<live, waiters, phase, inbox, result>>

\* A wait ends: with the message, if there was one, and else with nothing.
Collect(c) ==
  /\ phase[c] = "released"
  /\ phase' = [phase EXCEPT ![c] = "idle"]
  /\ result' = [result EXCEPT ![c] = inbox[c]]
  /\ inbox' = [inbox EXCEPT ![c] = Nothing]
  /\ UNCHANGED <<live, content, waiters>>

GiveUp(c) ==
  /\ phase[c] = "waiting"
  /\ phase' = [phase EXCEPT ![c] = "idle"]
  /\ waiters' = [q \in Queues |-> waiters[q] \ {c}]
  /\ UNCHANGED <<live, content, inbox, result>>

SNext ==
  \/ \E q \in Queues : Create(q) \/ Delete(q) \/ Flush(q)
  \/ \E q \in Queues, m \in Messages : Hand(q, m) \/ Keep(q, m)
  \/ \E c \in Callers, q \in Queues : Take(c, q) \/ Wait(c, q)
  \/ \E c \in Callers : Collect(c) \/ GiveUp(c)

SSpec == SInit /\ [][SNext]_svars
=============================================================================
