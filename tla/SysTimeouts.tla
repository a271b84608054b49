------------------------------ MODULE SysTimeouts -----------------------------
(***************************************************************************)
(* The timers of lwIP (core/timers.c) as this firmware runs them.  They    *)
(* are a linked list of struct sys_timeo, each with the time that passes   *)
(* between the one before it and itself.  tcpip_thread sleeps in           *)
(* sys_arch_mbox_fetch for the time of the first one, runs its handler and *)
(* starts over.  A message that arrives meanwhile shortens that time by    *)
(* what sys_arch_mbox_fetch says has been slept (sys_arch.c).              *)
(*                                                                         *)
(* The list is meant for tcpip_thread alone, but FlyEthernetTask calls     *)
(* ethernet_input directly, so that the registration of a connection       *)
(* (TCP_REG, tcp_timer_needed, sys_timeout) runs in that task, and         *)
(* tcpip_thread, which has the higher priority, may preempt it between any *)
(* two statements.  sys_timeout is therefore modelled statement by         *)
(* statement, for both threads.                                            *)
(*                                                                         *)
(* Time is counted in ticks of one millisecond (OS_TICKS_PER_SEC is 1000). *)
(* What tcpip_thread does when it is awake takes less than a tick.         *)
(***************************************************************************)
EXTENDS Integers, Sequences, FiniteSets, SequencesExt

CONSTANTS
  NULL,
  Word,        \* the modulus of u32_t, scaled down
  Settings     \* the ways in which the timers are used, see below

Timers == {"ip", "arp", "tcp"}
Threads == {"tcpip", "input"}

\* The pool MEMP_SYS_TIMEOUT, numbered in the order of their first use:
\* MEMP_NUM_SYS_TIMEOUT is the number of timers.
Structs == 1 .. Cardinality(Timers)

\* interval: IP_TMR_INTERVAL, ARP_TMR_INTERVAL and TCP_TMR_INTERVAL;
\* maxMsgs: how many messages posted by interrupts tcpip_thread is behind;
\* registrars: the threads that register connections.
ASSUME TimersAssumption ==
  /\ NULL \notin Structs
  /\ Word \in Nat
  /\ \A s \in Settings :
       /\ s.interval \in [Timers -> Nat \ {0}]
       /\ \A timer \in Timers : Word > 2 * s.interval[timer]
       /\ s.maxMsgs \in Nat
       /\ s.registrars \subseteq Threads

VARIABLES
  setting,       \* the one of Settings that is in use
  next_timeout,  \* the head of the list
  next, time, h, \* per struct: its fields
  memp,          \* the free structs of the pool, last freed first
  tcpip_tcp_timer_active,
  pcbs,          \* tcp_active_pcbs or tcp_tw_pcbs is not empty
  mbox,          \* the number of messages in the mailbox of tcpip_thread
  asked, wait,   \* the ticks that tcpip_thread asked to sleep, those left
  pc,            \* per thread: the statement it is at
  handler,       \* per thread: the argument of sys_timeout
  timeout, t,    \* per thread: the local variables of sys_timeout
  due            \* per timer: the ticks until it should expire, 0 if late

listVars == <<next_timeout, next, time, h>>
localVars == <<handler, timeout, t>>
sleepVars == <<asked, wait>>
tcpVars == <<tcpip_tcp_timer_active, pcbs>>
vars == <<setting, listVars, memp, tcpVars, mbox, sleepVars, pc, localVars, due>>

Interval == setting.interval
MaxMsgs == setting.maxMsgs
Registrars == setting.registrars

Pointers == Structs \cup {NULL}
Inserting == {"first", "before", "link1", "link2", "pass", "test", "shift",
              "link3", "link4"}

TypeOK ==
  /\ setting \in Settings
  /\ next_timeout \in Pointers
  /\ next \in [Structs -> Pointers]
  /\ time \in [Structs -> 0 .. Word - 1]
  /\ h \in [Structs -> Timers]
  /\ Range(memp) \subseteq Structs
  /\ tcpip_tcp_timer_active \in BOOLEAN /\ pcbs \in BOOLEAN
  /\ mbox \in 0 .. MaxMsgs
  /\ asked \in 0 .. Word - 1 /\ wait \in 0 .. Word - 1
  /\ pc \in [Threads -> {"out", "again", "asleep", "timedout", "message",
                         "needed", "malloc"} \cup Inserting]
  /\ handler \in [Threads -> Timers]
  /\ timeout \in [Threads -> Pointers] /\ t \in [Threads -> Pointers]
  /\ due \in [Timers -> Int]

-----------------------------------------------------------------------------
(* Helpers.                                                                 *)

Minus(a, b) == (a - b) % Word

Goto(th, place) == pc' = [pc EXCEPT ![th] = place]

\* The end of sys_timeout: tcpip_thread goes on waiting for messages, the
\* other thread returns to what it was doing.
Rest(th) == IF th = "tcpip" THEN "again" ELSE "out"

\* tcpip_thread has the higher priority: the other thread runs when it sleeps.
Runs(th) == th = "input" => pc["tcpip"] = "asleep"

\* What sys_arch_mbox_fetch returns after that many ticks.  In the same tick
\* it takes 0xFFFFFFFF for the difference, which comes out as more than an
\* hour; and it loses a tick when OSTime wraps in between.
Fetched(ticks) == IF ticks = 0 THEN {Word - 1} ELSE {ticks, ticks + 1}

-----------------------------------------------------------------------------
(* sys_timeout, called by thread th.                                        *)

Malloc(th) ==
  /\ pc[th] = "malloc" /\ Runs(th)
  /\ IF memp = <<>>
     THEN Goto(th, Rest(th)) /\ UNCHANGED <<next, time, h, memp, timeout>>
     ELSE LET n == Head(memp)
          IN  /\ memp' = Tail(memp)
              /\ next' = [next EXCEPT ![n] = NULL]
              /\ h' = [h EXCEPT ![n] = handler[th]]
              /\ time' = [time EXCEPT ![n] = Interval[handler[th]]]
              /\ timeout' = [timeout EXCEPT ![th] = n]
              /\ Goto(th, "first")
  /\ UNCHANGED <<next_timeout, tcpVars, mbox, sleepVars, handler, t, due>>

\* The timer is in the list, msecs before it should expire.
Linked(th) ==
  /\ due' = [due EXCEPT ![handler[th]] = Interval[handler[th]]]
  /\ Goto(th, Rest(th))

First(th) ==
  /\ pc[th] = "first" /\ Runs(th)
  /\ IF next_timeout = NULL
     THEN /\ next_timeout' = timeout[th]
          /\ Linked(th)
          /\ UNCHANGED t
     ELSE /\ IF time[next_timeout] > Interval[handler[th]]
             THEN Goto(th, "before") /\ UNCHANGED t
             ELSE Goto(th, "pass") /\ t' = [t EXCEPT ![th] = next_timeout]
          /\ UNCHANGED <<next_timeout, due>>
  /\ UNCHANGED <<next, time, h, memp, tcpVars, mbox, sleepVars, handler,
                 timeout>>

\* The three statements that put it in front of the others.
InFront(th) ==
  /\ Runs(th)
  /\ \/ /\ pc[th] = "before"
        /\ time' = [time EXCEPT ![next_timeout] =
                      Minus(@, Interval[handler[th]])]
        /\ Goto(th, "link1")
        /\ UNCHANGED <<next_timeout, next, due>>
     \/ /\ pc[th] = "link1"
        /\ next' = [next EXCEPT ![timeout[th]] = next_timeout]
        /\ Goto(th, "link2")
        /\ UNCHANGED <<next_timeout, time, due>>
     \/ /\ pc[th] = "link2"
        /\ next_timeout' = timeout[th]
        /\ Linked(th)
        /\ UNCHANGED <<next, time>>
  /\ UNCHANGED <<h, memp, tcpVars, mbox, sleepVars, localVars>>

\* A faulty loop that keeps the whole time for the new timer.
PassKeepsTime(th) ==
  /\ pc[th] = "pass" /\ Runs(th)
  /\ Goto(th, "test")
  /\ UNCHANGED <<listVars, memp, tcpVars, mbox, sleepVars, localVars, due>>

\* The loop that finds its place among the others.
Pass(th) ==
  /\ pc[th] = "pass" /\ Runs(th)
  /\ time' = [time EXCEPT ![timeout[th]] = Minus(@, time[t[th]])]
  /\ Goto(th, "test")
  /\ UNCHANGED <<next_timeout, next, h, memp, tcpVars, mbox, sleepVars,
                 localVars, due>>

\* The condition of the loop, with its two reads of t->next, is one step, as is
\* the reading and writing of next_timeout->time in InFront.  tcpip_thread is never
\* preempted by FlyEthernetTask.  That it may come between those of FlyEthernetTask is
\* left out: with equal intervals InFront is not reached, and the timers of IP and
\* ARP, between which t->next leads, come due together and are put back in their
\* order before tcpip_thread sleeps again.  With other intervals behaviours are
\* missing, none is added.
Test(th) ==
  LET after == next[t[th]]
  IN  /\ pc[th] = "test" /\ Runs(th)
      /\ IF after = NULL \/ time[after] > time[timeout[th]]
         THEN Goto(th, "shift") /\ UNCHANGED t
         ELSE Goto(th, "pass") /\ t' = [t EXCEPT ![th] = after]
      /\ UNCHANGED <<listVars, memp, tcpVars, mbox, sleepVars, handler,
                     timeout, due>>

\* A faulty order: t points to the new timer before that points to the next.
BehindSwapped(th) ==
  /\ Runs(th)
  /\ \/ /\ pc[th] = "shift"
        /\ next' = [next EXCEPT ![t[th]] = timeout[th]]
        /\ Goto(th, "link3")
        /\ UNCHANGED due
     \/ /\ pc[th] = "link3"
        /\ next' = [next EXCEPT ![timeout[th]] = next[t[th]]]
        /\ Linked(th)
  /\ UNCHANGED <<next_timeout, time, h, memp, tcpVars, mbox, sleepVars,
                 localVars>>

\* The three statements that put it behind t.
Behind(th) ==
  /\ Runs(th)
  /\ \/ /\ pc[th] = "shift"
        /\ IF next[t[th]] = NULL
           THEN UNCHANGED time
           ELSE time' = [time EXCEPT ![next[t[th]]] =
                           Minus(@, time[timeout[th]])]
        /\ Goto(th, "link3")
        /\ UNCHANGED <<next, due>>
     \/ /\ pc[th] = "link3"
        /\ next' = [next EXCEPT ![timeout[th]] = next[t[th]]]
        /\ Goto(th, "link4")
        /\ UNCHANGED <<time, due>>
     \/ /\ pc[th] = "link4"
        /\ next' = [next EXCEPT ![t[th]] = timeout[th]]
        /\ Linked(th)
        /\ UNCHANGED time
  /\ UNCHANGED <<next_timeout, h, memp, tcpVars, mbox, sleepVars, localVars>>

SysTimeout(th) ==
  Malloc(th) \/ First(th) \/ InFront(th) \/ Pass(th) \/ Test(th) \/ Behind(th)

-----------------------------------------------------------------------------
(* Connections.                                                             *)

\* tcp_timer_needed, after TCP_REG has put the new pcb in its list.
TimerNeeded(th) ==
  /\ pc[th] = "needed" /\ Runs(th)
  /\ IF ~tcpip_tcp_timer_active /\ pcbs
     THEN /\ tcpip_tcp_timer_active' = TRUE
          /\ handler' = [handler EXCEPT ![th] = "tcp"]
          /\ Goto(th, "malloc")
     ELSE /\ Goto(th, Rest(th))
          /\ UNCHANGED <<tcpip_tcp_timer_active, handler>>
  /\ UNCHANGED <<listVars, memp, pcbs, mbox, sleepVars, timeout, t, due>>

\* FlyEthernetTask processes a segment: a connection is registered, or the
\* last one goes away (TCP_RMV).
InputSegment ==
  /\ "input" \in Registrars
  /\ pc["input"] = "out" /\ Runs("input")
  /\ pcbs' \in BOOLEAN
  /\ IF pcbs' THEN Goto("input", "needed") ELSE UNCHANGED pc
  /\ UNCHANGED <<listVars, memp, tcpip_tcp_timer_active, mbox, sleepVars,
                 localVars, due>>

-----------------------------------------------------------------------------
(* tcpip_thread, in sys_timeouts_mbox_fetch.                                *)

\* memp_free; the faulty form forgets it.
FreeNothing(n) == memp' = memp
Free(n) == memp' = <<n>> \o memp

\* The end of the TCP timer; the faulty form leaves it marked as scheduled.
TcpTimerOffUnmarked == UNCHANGED tcpip_tcp_timer_active
TcpTimerOff == tcpip_tcp_timer_active' = FALSE

\* The handler of the first timer: it runs, and calls sys_timeout for itself
\* again; tcpip_tcp_timer does so only while there are connections, which
\* tcp_tmr may have removed.
Expire ==
  LET n == next_timeout
  IN  /\ \/ pc["tcpip"] = "timedout"
         \/ pc["tcpip"] = "again" /\ n # NULL /\ time[n] = 0
      /\ next_timeout' = next[n]
      /\ Free(n)
      /\ handler' = [handler EXCEPT !["tcpip"] = h[n]]
      /\ pcbs' \in IF h[n] = "tcp" THEN {pcbs, FALSE} ELSE {pcbs}
      /\ IF h[n] = "tcp" /\ ~pcbs'
         THEN TcpTimerOff /\ Goto("tcpip", "again")
         ELSE UNCHANGED tcpip_tcp_timer_active /\ Goto("tcpip", "malloc")
      /\ UNCHANGED <<next, time, h, mbox, sleepVars, timeout, t, due>>

\* A message comes after that many ticks: the first timer is brought forward
\* by them.
Fetch(ticks) ==
  /\ \E needed \in Fetched(ticks) :
       time' = [time EXCEPT ![next_timeout] =
                  IF needed < @ THEN @ - needed ELSE 0]
  /\ Goto("tcpip", "message")

\* The mailbox is looked at, for as long as the first timer has left.
Again ==
  /\ pc["tcpip"] = "again"
  /\ next_timeout # NULL => time[next_timeout] > 0
  /\ IF mbox > 0
     THEN /\ mbox' = mbox - 1
          /\ IF next_timeout = NULL
             THEN Goto("tcpip", "message") /\ UNCHANGED time
             ELSE Fetch(0)
          /\ UNCHANGED sleepVars
     ELSE /\ asked' = IF next_timeout = NULL THEN 0 ELSE time[next_timeout]
          /\ wait' = asked'
          /\ Goto("tcpip", "asleep")
          /\ UNCHANGED <<mbox, time>>
  /\ UNCHANGED <<next_timeout, next, h, memp, tcpVars, localVars, due>>

\* An interrupt handler posts a message; it is refused by a full mailbox.
Post ==
  /\ MaxMsgs > 0
  /\ IF pc["tcpip"] = "asleep"
     THEN /\ IF asked = 0
             THEN Goto("tcpip", "message") /\ UNCHANGED time
             ELSE Fetch(asked - wait)
          /\ UNCHANGED mbox
     ELSE /\ mbox < MaxMsgs
          /\ mbox' = mbox + 1
          /\ UNCHANGED <<pc, time>>
  /\ UNCHANGED <<next_timeout, next, h, memp, tcpVars, sleepVars, localVars,
                 due>>

\* tcpip_thread does what the message asks for, which may be to register a
\* connection.
HandleMessage ==
  /\ pc["tcpip"] = "message"
  /\ \E registers \in BOOLEAN :
       /\ registers => "tcpip" \in Registrars
       /\ pcbs' = (pcbs \/ registers)
       /\ Goto("tcpip", IF registers THEN "needed" ELSE "again")
  /\ UNCHANGED <<listVars, memp, tcpip_tcp_timer_active, mbox, sleepVars,
                 localVars, due>>

\* The timers that are in the list while tcpip_thread sleeps.
Armed ==
  {"ip", "arp"} \cup
    IF tcpip_tcp_timer_active /\ pc["input"] \notin Inserting \cup {"malloc"}
    THEN {"tcp"} ELSE {}

\* SysTick_Handler: the tick ends the sleep of tcpip_thread, or not.  How late
\* a timer is, is counted up to its interval.
Tick ==
  /\ pc["tcpip"] = "asleep"
  /\ wait' = IF wait > 0 THEN wait - 1 ELSE 0
  /\ IF wait = 1 THEN Goto("tcpip", "timedout") ELSE UNCHANGED pc
  /\ due' = [timer \in Timers |->
               IF timer \in Armed /\ due[timer] > -Interval[timer]
               THEN due[timer] - 1 ELSE due[timer]]
  /\ UNCHANGED <<listVars, memp, tcpVars, mbox, asked, localVars>>

-----------------------------------------------------------------------------
\* sys_timeouts_init has run in the task that called tcpip_init: IP and ARP
\* are in the list, in the order of their intervals.
Init ==
  \E first, second \in {"ip", "arp"} :
    /\ setting \in Settings
    /\ first # second
    /\ IF first = "ip" THEN Interval["ip"] <= Interval["arp"]
                       ELSE Interval["arp"] < Interval["ip"]
    /\ next_timeout = 1
    /\ next = [n \in Structs |-> IF n = 1 THEN 2 ELSE NULL]
    /\ time = <<Interval[first], Interval[second] - Interval[first], 0>>
    /\ h = <<first, second, "tcp">>
    /\ memp = <<3>>
    /\ tcpip_tcp_timer_active = FALSE
    /\ pcbs = FALSE
    /\ mbox = 0
    /\ asked = 0
    /\ wait = 0
    /\ pc = [th \in Threads |-> Rest(th)]
    /\ handler = [th \in Threads |-> "tcp"]
    /\ timeout = [th \in Threads |-> NULL]
    /\ t = [th \in Threads |-> NULL]
    /\ due = Interval

Next ==
  /\ \/ \E th \in Threads : SysTimeout(th) \/ TimerNeeded(th)
     \/ InputSegment
     \/ Expire \/ Again \/ Post \/ HandleMessage
     \/ Tick
  /\ UNCHANGED setting

Spec == Init /\ [][Next]_vars

\* The tick is latched and the threads do not stop in the middle of their work;
\* FlyEthernetTask gets the processor again and again.
FairSpec ==
  /\ Spec
  /\ SF_vars(Tick /\ UNCHANGED setting)
  /\ WF_vars((Expire \/ Again \/ HandleMessage) /\ UNCHANGED setting)
  /\ WF_vars((SysTimeout("tcpip") \/ TimerNeeded("tcpip"))
                /\ UNCHANGED setting)
  /\ SF_vars((SysTimeout("input") \/ TimerNeeded("input"))
                /\ UNCHANGED setting)

-----------------------------------------------------------------------------
(* Properties.                                                              *)

\* The first k structs of the list.
Nodes(k) ==
  LET node[i \in Nat] ==
        IF i = 0 THEN next_timeout
        ELSE IF node[i - 1] = NULL THEN NULL ELSE next[node[i - 1]]
  IN  {node[i] : i \in 0 .. k - 1} \ {NULL}

InHand == {timeout[th] : th \in {th \in Threads : pc[th] \in Inserting}}

\* sys_timeout and sys_timeouts_mbox_fetch, in two threads, keep the list a
\* list: it ends, no struct in it is free or not yet linked, and every struct
\* is in the list, in the pool or about to be linked.
ListIntact ==
  LET N == Cardinality(Structs)
      listed == Nodes(N)
  IN  /\ Cardinality(listed) = Cardinality(Nodes(N + 1))
      /\ listed \cap Range(memp) = {}
      /\ listed \cup Range(memp) \cup InHand = Structs

\* No timer is lost or started twice: each of them is in the list once, or its
\* sys_timeout is under way (arp_timer, ip_reass_timer, tcpip_tcp_timer).
EachTimerOnce ==
  pc["tcpip"] = "asleep" =>
    \A timer \in Armed :
      Cardinality({n \in Nodes(Cardinality(Structs)) : h[n] = timer}) = 1

\* A timer does not expire late, whatever messages arrive and connections
\* come in between (sys_timeouts_mbox_fetch goes by what sys_arch_mbox_fetch
\* says it has slept).
NoTimerLate == \A timer \in Timers : due[timer] >= 0

Expires(timer) == pc["tcpip"] = "malloc" /\ handler["tcpip"] = timer

\* IP reassembly and ARP go on being timed for ever: no message, connection or
\* failed allocation ends the chain in which each run starts the next
\* (ip_reass_timer, arp_timer).
CyclicTimersGoOn == \A timer \in {"ip", "arp"} : []<>Expires(timer)

\* As long as there is a connection, its timer runs: tcpip_tcp_timer_active is
\* never left TRUE without the timer (tcp_timer_needed, tcpip_tcp_timer).
ConnectionsTimed == pcbs ~> Expires("tcp") \/ ~pcbs

\* A timer does not expire before its time (timers.c, sys_timeout: "time in
\* milliseconds after that the timer should expire").
NoTimerEarly ==
  [][\A timer \in Timers :
       next_timeout # next_timeout' /\ Expire /\ handler'["tcpip"] = timer
         => due[timer] <= 0]_vars
=============================================================================
