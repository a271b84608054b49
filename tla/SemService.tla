------------------------------ MODULE SemService -----------------------------
(***************************************************************************)
(* What a uC/OS-II semaphore promises to the code that calls it (the       *)
(* headers of OSSemPend, OSSemPost and OSSemDel in OS_SEM.C), with nothing *)
(* of the scheduler: tokens that are handed to callers, highest priority   *)
(* first, callers that wait, and waits that end either with a grant or     *)
(* with a timeout.  UcosSem is shown to implement it.                      *)
(***************************************************************************)
EXTENDS Naturals

CONSTANTS
  Callers,   \* the tasks, smaller numbers are served first
  Sems,
  MaxTokens

VARIABLES
  live,      \* the semaphores that exist
  tokens,    \* per semaphore: the events not handed out yet
  waiters,   \* per semaphore: the callers that wait for it
  phase,     \* per caller: "idle", "waiting" or "granted"
  result     \* per caller: how its last pend ended

svars == <<live, tokens, waiters, phase, result>>

SInit ==
  /\ live \subseteq Sems
  /\ tokens = [s \in Sems |-> 0]
  /\ waiters = [s \in Sems |-> {}]
  /\ phase = [c \in Callers |-> "idle"]
  /\ result = [c \in Callers |-> "none"]

Create(s, n) ==
  /\ s \notin live
  /\ live' = live \cup {s}
  /\ tokens' = [tokens EXCEPT ![s] = n]
  /\ UNCHANGED <<waiters, phase, result>>

\* Deleting a semaphore lets all of its waiters go.
Delete(s) ==
  /\ s \in live
  /\ live' = live \ {s}
  /\ waiters' = [waiters EXCEPT ![s] = {}]
  /\ phase' = [c \in Callers |-> IF c \in waiters[s] THEN "granted" ELSE phase[c]]
  /\ UNCHANGED <<tokens, result>>

\* A token is available and taken at once, by OSSemPend or OSSemAccept.
Take(c, s) ==
  /\ s \in live
  /\ phase[c] = "idle"
  /\ tokens[s] > 0
  /\ tokens' = [tokens EXCEPT ![s] = @ - 1]
  /\ result' \in {result, [result EXCEPT ![c] = "OS_NO_ERR"]}
  /\ UNCHANGED <<live, waiters, phase>>

Wait(c, s) ==
  /\ s \in live
  /\ phase[c] = "idle"
  /\ tokens[s] = 0
  /\ waiters' = [waiters EXCEPT ![s] = @ \cup {c}]
  /\ phase' = [phase EXCEPT ![c] = "waiting"]
  /\ result' = [result EXCEPT ![c] = "none"]
  /\ UNCHANGED <<live, tokens>>

\* The event is handed to the first waiter, or kept if nobody waits.
Grant(s, c) ==
  /\ s \in live
  /\ c \in waiters[s]
  /\ \A d \in waiters[s] : c <= d
  /\ waiters' = [waiters EXCEPT ![s] = @ \ {c}]
  /\ phase' = [phase EXCEPT ![c] = "granted"]
  /\ UNCHANGED <<live, tokens, result>>

Keep(s) ==
  /\ s \in live
  /\ waiters[s] = {}
  /\ tokens[s] < MaxTokens
  /\ tokens' = [tokens EXCEPT ![s] = @ + 1]
  /\ UNCHANGED <<live, waiters, phase, result>>

\* A wait ends: with the grant, if there was one, and else with a timeout.
Collect(c) ==
  /\ phase[c] = "granted"
  /\ phase' = [phase EXCEPT ![c] = "idle"]
  /\ result' = [result EXCEPT ![c] = "OS_NO_ERR"]
  /\ UNCHANGED <<live, tokens, waiters>>

GiveUp(c) ==
  /\ phase[c] = "waiting"
  /\ phase' = [phase EXCEPT ![c] = "idle"]
  /\ waiters' = [s \in Sems |-> waiters[s] \ {c}]
  /\ result' = [result EXCEPT ![c] = "OS_TIMEOUT"]
  /\ UNCHANGED <<live, tokens>>

SNext ==
  \/ \E s \in Sems, n \in 0 .. MaxTokens : Create(s, n)
  \/ \E s \in Sems : Delete(s) \/ Keep(s)
  \/ \E c \in Callers, s \in Sems : Take(c, s) \/ Wait(c, s) \/ Grant(s, c)
  \/ \E c \in Callers : Collect(c) \/ GiveUp(c)

SSpec == SInit /\ [][SNext]_svars
=============================================================================
