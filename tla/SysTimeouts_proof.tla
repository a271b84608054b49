-------------------------- MODULE SysTimeouts_proof ---------------------------
(***************************************************************************)
(* Proofs about SysTimeouts, in the two uses in which the list of timers   *)
(* is sound: tcpip_thread alone changes it, with any intervals and         *)
(* messages, as lwIP means it; or FlyEthernetTask does as well, but the    *)
(* intervals are equal and no messages come, as in this firmware.          *)
(***************************************************************************)
EXTENDS SysTimeouts, FiniteSetTheorems, TLAPS

-----------------------------------------------------------------------------
(* The two uses.                                                            *)

Alone == Registrars \subseteq {"tcpip"}
InStep ==
  /\ MaxMsgs = 0
  /\ \A timer, other \in Timers : Interval[timer] = Interval[other]

-----------------------------------------------------------------------------
(* The list.  It has one to three structs.                                  *)

After(n) == IF n = NULL THEN NULL ELSE next[n]
N1 == next_timeout
N2 == After(N1)
N3 == After(N2)
Listed == {N1, N2, N3} \ {NULL}

ListOK ==
  /\ N1 \in Structs
  /\ N2 # N1
  /\ N3 # NULL => N3 # N1 /\ N3 # N2 /\ next[N3] = NULL

\* The time from the beginning of the list until n expires.
Ends(n) ==
  IF n = N1 THEN time[N1]
  ELSE IF n = N2 THEN time[N1] + time[N2]
  ELSE time[N1] + time[N2] + time[N3]

\* A thread is in sys_timeout; it has a struct for its timer in hand.
Starting(th) == pc[th] \in Inserting \cup {"malloc"}
Holds(th) == pc[th] \in Inserting

\* Every struct is in the list, in the pool or in the hand of one thread.
PoolOK ==
  /\ memp \in Seq(Structs)
  /\ \A i, j \in 1 .. Len(memp) : memp[i] = memp[j] => i = j
  /\ \A n \in Structs :
       (\E i \in 1 .. Len(memp) : memp[i] = n) <=> n \notin Listed \cup InHand
  /\ \A th \in Threads : Holds(th) => timeout[th] \in Structs \ Listed
  /\ Holds("tcpip") /\ Holds("input") => timeout["tcpip"] # timeout["input"]

\* Every timer that goes on is in the list once, or being started by one thread.
Running(timer) == \E n \in Listed : h[n] = timer
Started(timer) == \E th \in Threads : Starting(th) /\ handler[th] = timer

TimersOK ==
  /\ \A m, n \in Listed : h[m] = h[n] => m = n
  /\ \A timer \in Timers : ~(Running(timer) /\ Started(timer))
  /\ \A timer \in {"ip", "arp"} : Running(timer) \/ Started(timer)
  /\ tcpip_tcp_timer_active <=> Running("tcp") \/ Started("tcp")
  /\ \A th \in Threads : Holds(th) => h[timeout[th]] = handler[th]
  /\ Starting("input") => handler["input"] = "tcp"
  /\ Starting("input") /\ Starting("tcpip") => handler["tcpip"] # "tcp"

-----------------------------------------------------------------------------
(* The times.                                                               *)

\* What tcpip_thread has slept and not yet subtracted from the list.
Slept ==
  IF pc["tcpip"] = "asleep" THEN asked - wait
  ELSE IF pc["tcpip"] = "timedout" THEN asked
  ELSE 0

\* What sys_timeout has already taken from the time of n for the timer that it
\* will put before it.
Taken(n) ==
  IF pc["tcpip"] \in {"link1", "link2"} THEN time[timeout["tcpip"]]
  ELSE IF pc["tcpip"] \in {"link3", "link4"} /\ t["tcpip"] = N1 /\ n # N1
       THEN time[timeout["tcpip"]]
  ELSE 0

\* No timer in the list will expire later than it should, and none has more left
\* than its interval.
TimesOK ==
  /\ \A n \in Listed :
       /\ Ends(n) + Taken(n) <= Interval[h[n]]
       /\ Ends(n) + Taken(n) <= Slept + due[h[n]]
  /\ \A timer \in Timers : due[timer] >= 0
  /\ pc["tcpip"] \in {"asleep", "timedout"} => asked = time[N1]
  /\ pc["tcpip"] = "asleep" => wait \in 1 .. asked

\* tcpip_thread in sys_timeout: what is left for the new timer, n, after what it
\* has passed.
InsertOK(n, at) ==
  /\ pc["tcpip"] \in {"first", "before", "link1", "link2"} =>
       time[n] = Interval[h[n]]
  /\ pc["tcpip"] = "before" => time[N1] > time[n]
  /\ pc["tcpip"] = "link2" => next[n] = N1
  /\ pc["tcpip"] \in {"pass", "test", "shift", "link3", "link4"} => at \in Listed
  /\ pc["tcpip"] = "pass" =>
       time[at] <= time[n] /\ time[n] + Ends(at) - time[at] = Interval[h[n]]
  /\ pc["tcpip"] \in {"test", "shift", "link3", "link4"} =>
       time[n] + Ends(at) = Interval[h[n]]
  /\ pc["tcpip"] = "shift" => next[at] = NULL \/ time[next[at]] > time[n]
  /\ pc["tcpip"] = "link4" => next[n] = next[at]

-----------------------------------------------------------------------------
(* FlyEthernetTask in sys_timeout, for timers that are in step.             *)

\* A timer that has been started again since tcpip_thread woke up.
Renewed(n) == n \in Listed /\ Ends(n) > 0

\* The order in which m and n will be in the list when tcpip_thread sleeps.
Before(m, n) ==
  \/ Renewed(m) /\ ~Renewed(n)
  \/ m = N1 /\ n = N2 /\ (Renewed(m) <=> Renewed(n))
  \/ m \notin Listed /\ n \in Listed /\ ~Renewed(n)

\* Of the two structs that input has not in hand, the one that comes first, and
\* the one that comes last.
Leads(m) == \E n \in Structs \ {m, timeout["input"]} : Before(m, n)
Trails(n) == \E m \in Structs \ {n, timeout["input"]} : Before(m, n)

InputOK(n, at) ==
  /\ pc["input"] \notin {"before", "link1", "link2"}
  /\ pc["input"] = "first" => time[n] = Interval["tcp"]
  /\ pc["input"] \in {"pass", "test", "shift", "link3", "link4"} =>
       at \in Structs \ {n}
  /\ pc["input"] = "pass" => \/ Leads(at) /\ time[n] = Interval["tcp"]
                             \/ Trails(at) /\ time[n] = 0
  /\ pc["input"] \in {"test", "shift", "link3", "link4"} => time[n] = 0
  /\ pc["input"] \in {"shift", "link3", "link4"} => Trails(at)
  /\ pc["input"] = "link4" => next[n] = NULL

InStepOK ==
  /\ mbox = 0
  /\ pc["tcpip"] \in {"again", "asleep", "timedout", "malloc", "first", "pass",
                      "test", "shift", "link3", "link4"}
  /\ \A n \in Listed : Ends(n) \in {0, Interval[h[n]]}
  /\ pc["tcpip"] \in {"asleep", "timedout"} =>
       \A n \in Listed : Ends(n) = Interval[h[n]]
  /\ InputOK(timeout["input"], t["input"])

UseOK ==
  \/ Alone /\ pc["input"] = "out"
  \/ InStep /\ InStepOK

IInv ==
  /\ TypeOK /\ ListOK /\ PoolOK /\ TimersOK /\ TimesOK
  /\ InsertOK(timeout["tcpip"], t["tcpip"])
  /\ UseOK

-----------------------------------------------------------------------------
(* Constants.                                                               *)

LEMMA StructsAre == Structs = {1, 2, 3} /\ NULL \notin Structs
<1>1. Cardinality({}) = 0 /\ IsFiniteSet({})
  BY FS_EmptySet
<1>2. Cardinality({"ip"}) = 1 /\ IsFiniteSet({"ip"})
  BY FS_Singleton
<1>3. Cardinality({"ip"} \cup {"arp"}) = 2 /\ IsFiniteSet({"ip"} \cup {"arp"})
  BY <1>2, FS_AddElement
<1>4. Cardinality(({"ip"} \cup {"arp"}) \cup {"tcp"}) = 3
  BY <1>3, FS_AddElement
<1>5. Timers = ({"ip"} \cup {"arp"}) \cup {"tcp"}
  BY DEF Timers
<1>6. Structs = 1 .. 3
  BY <1>4, <1>5 DEF Structs
<1> QED BY <1>6, TimersAssumption

LEMMA SettingType ==
  ASSUME setting \in Settings
  PROVE  /\ Interval \in [Timers -> Nat \ {0}]
         /\ \A timer \in Timers : 2 * Interval[timer] < Word
         /\ MaxMsgs \in Nat
         /\ Word \in Nat /\ Word > 0
<1>1. /\ Interval \in [Timers -> Nat \ {0}]
      /\ \A timer \in Timers : Word > 2 * Interval[timer]
      /\ MaxMsgs \in Nat /\ Word \in Nat
  BY TimersAssumption DEF Interval, MaxMsgs
<1>2. Word > 2 * Interval["ip"] /\ Interval["ip"] \in Nat
  BY <1>1 DEF Timers
<1> QED BY <1>1, <1>2

LEMMA MinusType ==
  ASSUME Word \in Nat, Word > 0, NEW a \in Int, NEW b \in Int
  PROVE  /\ Minus(a, b) \in 0 .. Word - 1
         /\ a - b \in 0 .. Word - 1 => Minus(a, b) = a - b
BY DEF Minus

-----------------------------------------------------------------------------
(* Types.                                                                   *)

Places == {"out", "again", "asleep", "timedout", "message", "needed", "malloc"}
            \cup Inserting

LEMMA InitIInv ==
  ASSUME \A s \in Settings :
           \/ s.registrars \subseteq {"tcpip"}
           \/ /\ s.maxMsgs = 0
              /\ \A timer, other \in Timers : s.interval[timer] = s.interval[other]
  PROVE  Init => IInv
<1>. SUFFICES ASSUME Init PROVE IInv
  OBVIOUS
<1>1. PICK first, second \in {"ip", "arp"} :
        /\ setting \in Settings
        /\ first # second
        /\ IF first = "ip" THEN Interval["ip"] <= Interval["arp"]
                           ELSE Interval["arp"] < Interval["ip"]
        /\ next_timeout = 1
        /\ next = [n \in Structs |-> IF n = 1 THEN 2 ELSE NULL]
        /\ time = <<Interval[first], Interval[second] - Interval[first], 0>>
        /\ h = <<first, second, "tcp">>
        /\ memp = <<3>>
        /\ tcpip_tcp_timer_active = FALSE
        /\ pcbs = FALSE
        /\ mbox = 0
        /\ asked = 0
        /\ wait = 0
        /\ pc = [th \in Threads |-> Rest(th)]
        /\ handler = [th \in Threads |-> "tcp"]
        /\ timeout = [th \in Threads |-> NULL]
        /\ t = [th \in Threads |-> NULL]
        /\ due = Interval
  BY DEF Init
<1>2. /\ Interval \in [Timers -> Nat \ {0}]
      /\ \A timer \in Timers : 2 * Interval[timer] < Word
      /\ MaxMsgs \in Nat /\ Word \in Nat /\ Word > 0
  BY <1>1, SettingType
<1>3. Interval[first] <= Interval[second] /\ first \in Timers /\ second \in Timers
  BY <1>1, <1>2 DEF Timers
<1>4. /\ Interval[first] \in 1 .. Word - 1
      /\ Interval[second] \in 1 .. Word - 1
      /\ Interval[second] - Interval[first] \in 0 .. Word - 1
  BY <1>2, <1>3
<1>5. pc["tcpip"] = "again" /\ pc["input"] = "out"
  BY <1>1 DEF Threads, Rest
<1>6. /\ N1 = 1 /\ N2 = 2 /\ N3 = NULL /\ Listed = {1, 2} /\ next[2] = NULL
  BY <1>1, StructsAre DEF N1, N2, N3, After, Listed
<1>7. Range(memp) = {3} /\ Len(memp) = 1 /\ memp[1] = 3 /\ memp \in Seq(Structs)
  BY <1>1, StructsAre DEF Range
<1>8. /\ time[1] = Interval[first] /\ time[2] = Interval[second] - Interval[first]
      /\ h[1] = first /\ h[2] = second
  BY <1>1
<1>9. TypeOK
  <2>1. time \in [Structs -> 0 .. Word - 1]
    BY <1>1, <1>4, StructsAre, <1>2
  <2>2. h \in [Structs -> Timers]
    BY <1>1, StructsAre DEF Timers
  <2>3. pc \in [Threads -> Places]
    BY <1>1 DEF Threads, Rest, Places
  <2>4. next \in [Structs -> Pointers] /\ next_timeout \in Pointers
    BY <1>1, StructsAre DEF Pointers
  <2>5. mbox \in 0 .. MaxMsgs /\ asked \in 0 .. Word - 1 /\ wait \in 0 .. Word - 1
    BY <1>1, <1>2
  <2>6. /\ handler \in [Threads -> Timers]
        /\ timeout \in [Threads -> Pointers] /\ t \in [Threads -> Pointers]
    BY <1>1 DEF Threads, Pointers, Timers
  <2>7. due \in [Timers -> Int] /\ Range(memp) \subseteq Structs
    BY <1>1, <1>2, <1>7, StructsAre
  <2> QED BY <1>1, <2>1, <2>2, <2>3, <2>4, <2>5, <2>6, <2>7 DEF TypeOK, Places
<1>10. \A th \in Threads : ~Starting(th) /\ ~Holds(th)
  BY <1>5 DEF Threads, Starting, Holds, Inserting
<1>11. ListOK
  BY <1>6, StructsAre DEF ListOK
<1>12. PoolOK
  <2>1. InHand = {}
    BY <1>10 DEF InHand, Holds
  <2> QED BY <1>6, <1>7, <1>10, <2>1, StructsAre DEF PoolOK, Threads
<1>13. TimersOK
  BY <1>1, <1>3, <1>6, <1>8, <1>10 DEF TimersOK, Running, Started, Threads, Timers
<1>14. TimesOK
  <2>1. Slept = 0 /\ \A n \in Listed : Taken(n) = 0
    BY <1>5 DEF Slept, Taken
  <2>2. Ends(1) = Interval[first] /\ Ends(2) = Interval[second]
    BY <1>2, <1>3, <1>6, <1>8 DEF Ends
  <2> QED BY <1>1, <1>2, <1>3, <1>5, <1>6, <1>8, <2>1, <2>2 DEF TimesOK
<1>15. InsertOK(timeout["tcpip"], t["tcpip"])
  BY <1>5 DEF InsertOK
<1>16. UseOK
  <2>1. Alone \/ InStep
    BY <1>1 DEF Alone, InStep, Registrars, MaxMsgs, Interval
  <2>2. InStep => InStepOK
    <3>. SUFFICES ASSUME InStep PROVE InStepOK
      OBVIOUS
    <3>1. Ends(1) = Interval[first] /\ Ends(2) = Interval[second]
      BY <1>2, <1>3, <1>6, <1>8 DEF Ends
    <3>2. InputOK(timeout["input"], t["input"])
      BY <1>5 DEF InputOK
    <3> QED BY <1>1, <1>5, <1>6, <1>8, <3>1, <3>2 DEF InStepOK
  <2> QED BY <1>5, <2>1, <2>2 DEF UseOK
<1> QED BY <1>9, <1>11, <1>12, <1>13, <1>14, <1>15, <1>16 DEF IInv

-----------------------------------------------------------------------------
(* The list, as one step changes it.                                        *)

\* What is used of the types.
Types ==
  /\ Interval \in [Timers -> Nat \ {0}]
  /\ \A timer \in Timers : 2 * Interval[timer] < Word
  /\ MaxMsgs \in Nat /\ Word \in Nat /\ Word > 0
  /\ Structs = {1, 2, 3} /\ NULL \notin Structs /\ Listed \subseteq Structs
  /\ next \in [Structs -> Pointers]
  /\ time \in [Structs -> 0 .. Word - 1] /\ \A n \in Structs : time[n] \in Nat
  /\ h \in [Structs -> Timers]
  /\ N1 \in Structs /\ N2 \in Structs \cup {NULL} /\ N3 \in Structs \cup {NULL}
  /\ N2 = NULL => N3 = NULL
  /\ \A n \in Listed : Ends(n) \in Nat
  /\ N2 # NULL => Ends(N2) = Ends(N1) + time[N2]
  /\ N3 # NULL => Ends(N3) = Ends(N2) + time[N3]
  /\ Ends(N1) = time[N1]

LEMMA TypesHold == ASSUME TypeOK, ListOK PROVE Types
<1>1. /\ Interval \in [Timers -> Nat \ {0}]
      /\ \A timer \in Timers : 2 * Interval[timer] < Word
      /\ MaxMsgs \in Nat /\ Word \in Nat /\ Word > 0
  BY SettingType DEF TypeOK
<1>2. /\ N1 \in Structs /\ N2 \in Structs \cup {NULL} /\ N3 \in Structs \cup {NULL}
      /\ N2 = NULL => N3 = NULL
  BY StructsAre DEF TypeOK, ListOK, Pointers, N2, N3, After
<1>3. time \in [Structs -> 0 .. Word - 1] /\ \A n \in Structs : time[n] \in Nat
  BY <1>1 DEF TypeOK
<1>4. next \in [Structs -> Pointers] /\ h \in [Structs -> Timers]
  BY DEF TypeOK
<1> QED BY <1>1, <1>2, <1>3, <1>4, StructsAre DEF Types, Ends, Listed, ListOK

LEMMA SameList ==
  ASSUME TypeOK, ListOK, next_timeout' = next_timeout,
         \A n \in Listed : next'[n] = next[n]
  PROVE  N1' = N1 /\ N2' = N2 /\ N3' = N3 /\ Listed' = Listed /\ ListOK'
<1>1. Types
  BY TypesHold
<1>2. N1' = N1
  BY DEF N1
<1>3. N2' = N2
  BY <1>1, <1>2 DEF N2, After, Types, Listed
<1>4. N3' = N3
  BY <1>1, <1>3 DEF N3, After, Types, Listed
<1>5. Listed' = Listed
  BY <1>2, <1>3, <1>4 DEF Listed
<1> QED BY <1>1, <1>2, <1>3, <1>4, <1>5 DEF ListOK, Listed, Types

LEMMA SameEnds ==
  ASSUME TypeOK, ListOK, N1' = N1, N2' = N2, N3' = N3,
         \A n \in Listed : time'[n] = time[n]
  PROVE  \A n \in Listed : Ends(n)' = Ends(n)
BY TypesHold DEF Ends, Listed, Types, ListOK

LEMMA NextListed ==
  ASSUME TypeOK, ListOK, NEW n \in Listed, next[n] # NULL
  PROVE  /\ next[n] \in Listed /\ next[n] # n /\ next[n] # N1
         /\ Ends(next[n]) = Ends(n) + time[next[n]]
<1>1. Types
  BY TypesHold
<1>2. n = N1 \/ n = N2 \/ n = N3
  BY DEF Listed
<1>3. CASE n = N1
  BY <1>1, <1>3 DEF Types, ListOK, N2, After, Listed
<1>4. CASE n = N2
  BY <1>1, <1>4 DEF Types, ListOK, N3, After, Listed
<1>5. n # N3
  BY <1>1 DEF ListOK, Listed
<1> QED BY <1>2, <1>3, <1>4, <1>5

LEMMA HoldsOne ==
  ASSUME TypeOK, ListOK, PoolOK, NEW th \in Threads, Holds(th)
  PROVE  /\ timeout[th] \in Structs /\ timeout[th] \notin Listed
         /\ time[timeout[th]] \in Nat /\ h[timeout[th]] \in Timers
BY TypesHold DEF Types, PoolOK

LEMMA GotoPc ==
  ASSUME TypeOK, NEW th \in Threads, NEW place \in Places, Goto(th, place)
  PROVE  /\ pc' \in [Threads -> Places] /\ pc'[th] = place
         /\ \A other \in Threads \ {th} : pc'[other] = pc[other]
BY DEF TypeOK, Goto, Places

-----------------------------------------------------------------------------
(* What a step of sys_timeout leaves as it was.                             *)

LEMMA SameHands ==
  ASSUME TypeOK, ListOK, PoolOK, TimersOK,
         N1' = N1, N2' = N2, N3' = N3, h' = h, memp' = memp,
         tcpip_tcp_timer_active' = tcpip_tcp_timer_active,
         handler' = handler, timeout' = timeout,
         \A th \in Threads : (Holds(th)' <=> Holds(th)) /\ (Starting(th)' <=> Starting(th))
  PROVE  PoolOK' /\ TimersOK'
<1>1. Listed' = Listed
  BY DEF Listed
<1>2. InHand' = InHand
  BY DEF InHand, Holds
<1>3. PoolOK'
  BY <1>1, <1>2 DEF PoolOK, Threads
<1>4. TimersOK'
  <2>2. "tcp" \in Timers /\ "ip" \in Timers /\ "arp" \in Timers
        /\ "tcpip" \in Threads /\ "input" \in Threads
    BY DEF Timers, Threads
  <2>3. (\A m, n \in Listed : h[m] = h[n] => m = n)'
    BY <1>1 DEF TimersOK
  <2>4. /\ (\A timer \in Timers : ~(Running(timer) /\ Started(timer)))'
        /\ (\A timer \in {"ip", "arp"} : Running(timer) \/ Started(timer))'
    BY <1>1, <2>2 DEF TimersOK, Running, Started
  <2>5. (tcpip_tcp_timer_active <=> Running("tcp") \/ Started("tcp"))'
    BY <1>1, <2>2 DEF TimersOK, Running, Started
  <2>6. \A th \in Threads : Holds(th)' => h'[timeout'[th]] = handler'[th]
    BY DEF TimersOK
  <2>7. /\ Starting("input")' => handler'["input"] = "tcp"
        /\ Starting("input")' /\ Starting("tcpip")' => handler'["tcpip"] # "tcp"
    BY <2>2 DEF TimersOK
  <2> QED BY <2>3, <2>4, <2>5, <2>6, <2>7 DEF TimersOK
<1> QED BY <1>3, <1>4

LEMMA SameInput ==
  ASSUME N1' = N1, N2' = N2, N3' = N3, \A n \in Listed : Ends(n)' = Ends(n),
         Interval' = Interval, pc'["input"] = pc["input"],
         timeout'["input"] = timeout["input"], t'["input"] = t["input"],
         Holds("input") => /\ time'[timeout["input"]] = time[timeout["input"]]
                           /\ next'[timeout["input"]] = next[timeout["input"]],
         InputOK(timeout["input"], t["input"])
  PROVE  InputOK(timeout["input"], t["input"])'
<1>1. Listed' = Listed
  BY DEF Listed
<1>2. \A n : Renewed(n)' <=> Renewed(n)
  BY <1>1 DEF Renewed
<1>3. \A m, n : Before(m, n)' <=> Before(m, n)
  BY <1>1, <1>2 DEF Before
<1>4. \A n : (Leads(n)' <=> Leads(n)) /\ (Trails(n)' <=> Trails(n))
  BY <1>3 DEF Leads, Trails
<1> QED BY <1>4 DEF InputOK, Holds, Inserting

-----------------------------------------------------------------------------
(* The steps of tcpip_thread in sys_timeout.                                *)

LEMMA TestOK == ASSUME IInv, UNCHANGED setting, Test("tcpip") PROVE IInv'
<1>1. /\ pc["tcpip"] = "test"
      /\ next_timeout' = next_timeout /\ next' = next /\ time' = time /\ h' = h
      /\ memp' = memp /\ tcpip_tcp_timer_active' = tcpip_tcp_timer_active
      /\ pcbs' = pcbs /\ mbox' = mbox /\ asked' = asked /\ wait' = wait
      /\ handler' = handler /\ timeout' = timeout /\ due' = due
      /\ setting' = setting
  BY DEF Test, listVars, tcpVars, sleepVars
<1>2. TypeOK /\ ListOK /\ PoolOK /\ TimersOK /\ TimesOK /\ UseOK
      /\ InsertOK(timeout["tcpip"], t["tcpip"])
  BY DEF IInv
<1>3. Types
  BY <1>2, TypesHold
<1>4. N1' = N1 /\ N2' = N2 /\ N3' = N3 /\ Listed' = Listed /\ ListOK'
  BY <1>1, <1>2, SameList
<1>5. \A n \in Listed : Ends(n)' = Ends(n)
  BY <1>1, <1>2, <1>4, SameEnds
<1>6. /\ pc' \in [Threads -> Places]
      /\ pc'["input"] = pc["input"] /\ t'["input"] = t["input"]
      /\ t' \in [Threads -> Pointers]
      /\ \/ /\ pc'["tcpip"] = "shift" /\ t' = t
            /\ next[t["tcpip"]] = NULL \/ time[next[t["tcpip"]]] > time[timeout["tcpip"]]
         \/ /\ pc'["tcpip"] = "pass" /\ t'["tcpip"] = next[t["tcpip"]]
            /\ next[t["tcpip"]] # NULL
            /\ ~(time[next[t["tcpip"]]] > time[timeout["tcpip"]])
  <2>1. "tcpip" \in Threads /\ "input" \in Threads /\ "input" # "tcpip"
    BY DEF Threads
  <2>2. "shift" \in Places /\ "pass" \in Places
    BY DEF Places, Inserting
  <2>3. t["tcpip"] \in Listed /\ Listed \subseteq Structs
    BY <1>1, <1>2, <1>3 DEF InsertOK, Listed, Types
  <2>4. CASE /\ next[t["tcpip"]] = NULL \/ time[next[t["tcpip"]]] > time[timeout["tcpip"]]
             /\ Goto("tcpip", "shift") /\ t' = t
    BY <1>2, <2>1, <2>2, <2>4, GotoPc DEF TypeOK
  <2>5. CASE /\ ~(next[t["tcpip"]] = NULL \/ time[next[t["tcpip"]]] > time[timeout["tcpip"]])
             /\ Goto("tcpip", "pass")
             /\ t' = [t EXCEPT !["tcpip"] = next[t["tcpip"]]]
    <3>1. t \in [Threads -> Pointers] /\ next[t["tcpip"]] \in Pointers
      BY <1>2, <2>3 DEF TypeOK
    <3>2. /\ t' \in [Threads -> Pointers] /\ t'["tcpip"] = next[t["tcpip"]]
          /\ t'["input"] = t["input"]
      BY <2>1, <2>5, <3>1
    <3> QED BY <1>2, <2>1, <2>2, <2>5, <3>2, GotoPc
  <2> QED BY <2>4, <2>5 DEF Test
<1>7. TypeOK'
  BY <1>1, <1>2, <1>6 DEF TypeOK, Places, MaxMsgs, Interval
<1>8. InHand' = InHand /\ Interval' = Interval /\ MaxMsgs' = MaxMsgs
  BY <1>1, <1>6 DEF InHand, Threads, Inserting, Interval, MaxMsgs
<1>9. PoolOK'
  BY <1>1, <1>2, <1>4, <1>6, <1>8 DEF PoolOK, Holds, Inserting, Threads
<1>10. TimersOK'
  BY <1>1, <1>2, <1>4, <1>6, <1>8 DEF TimersOK, Holds, Starting, Running, Started, Inserting, Threads
<1>11. TimesOK'
  BY <1>1, <1>2, <1>3, <1>4, <1>5, <1>6, <1>8 DEF TimesOK, Slept, Taken
<1>12. InsertOK(timeout["tcpip"], t["tcpip"])'
  <2>1. /\ t["tcpip"] \in Listed
        /\ time[timeout["tcpip"]] + Ends(t["tcpip"]) = Interval[h[timeout["tcpip"]]]
    BY <1>1, <1>2 DEF InsertOK
  <2>2. CASE /\ pc'["tcpip"] = "shift" /\ t' = t
             /\ next[t["tcpip"]] = NULL \/ time[next[t["tcpip"]]] > time[timeout["tcpip"]]
    BY <1>1, <1>4, <1>5, <1>8, <2>1, <2>2 DEF InsertOK
  <2>3. CASE /\ pc'["tcpip"] = "pass" /\ t'["tcpip"] = next[t["tcpip"]]
             /\ next[t["tcpip"]] # NULL
             /\ ~(time[next[t["tcpip"]]] > time[timeout["tcpip"]])
    <3> DEFINE at == next[t["tcpip"]]
               n == timeout["tcpip"]
    <3>1. at \in Listed /\ Ends(at) = Ends(t["tcpip"]) + time[at]
      BY <1>2, <2>1, <2>3, NextListed
    <3>2. time[at] \in Nat /\ time[n] \in Nat /\ Ends(t["tcpip"]) \in Nat
      <4>1. Holds("tcpip") /\ "tcpip" \in Threads
        BY <1>1 DEF Holds, Inserting, Threads
      <4> QED BY <1>2, <1>3, <2>1, <3>1, <4>1, HoldsOne DEF Types
    <3>3. time[at] <= time[n] /\ time[n] + Ends(at) - time[at] = Interval[h[n]]
      BY <2>1, <2>3, <3>1, <3>2
    <3>4. Ends(t["tcpip"])' = Ends(at)
      BY <1>1, <1>4, <1>5, <2>3, <3>1 DEF Ends
    <3> QED BY <1>1, <1>4, <1>8, <2>3, <3>1, <3>3, <3>4 DEF InsertOK
  <2> QED BY <1>6, <2>2, <2>3
<1>13. UseOK'
  BY <1>1, <1>2, <1>3, <1>4, <1>5, <1>6, <1>8 DEF UseOK, Alone, InStep, InStepOK, InputOK, Registrars, Leads, Trails, Before, Renewed
<1> QED BY <1>4, <1>7, <1>9, <1>10, <1>11, <1>12, <1>13 DEF IInv

LEMMA FirstOK == ASSUME IInv, UNCHANGED setting, First("tcpip") PROVE IInv'
<1>1. /\ pc["tcpip"] = "first"
      /\ next' = next /\ time' = time /\ h' = h
      /\ memp' = memp /\ tcpip_tcp_timer_active' = tcpip_tcp_timer_active
      /\ pcbs' = pcbs /\ mbox' = mbox /\ asked' = asked /\ wait' = wait
      /\ handler' = handler /\ timeout' = timeout /\ setting' = setting
  BY DEF First, tcpVars, sleepVars
<1>2. TypeOK /\ ListOK /\ PoolOK /\ TimersOK /\ TimesOK /\ UseOK
      /\ InsertOK(timeout["tcpip"], t["tcpip"])
  BY DEF IInv
<1>3. Types
  BY <1>2, TypesHold
<1>4. /\ Holds("tcpip") /\ "tcpip" \in Threads /\ "input" \in Threads
      /\ "before" \in Places /\ "pass" \in Places
  BY <1>1 DEF Holds, Inserting, Threads, Places
<1>5. /\ timeout["tcpip"] \in Structs /\ timeout["tcpip"] \notin Listed
      /\ time[timeout["tcpip"]] = Interval[handler["tcpip"]]
      /\ h[timeout["tcpip"]] = handler["tcpip"]
  BY <1>1, <1>2, <1>4, HoldsOne DEF InsertOK, TimersOK
<1>6. /\ next_timeout' = next_timeout /\ due' = due
      /\ pc' \in [Threads -> Places] /\ pc'["input"] = pc["input"]
      /\ t' \in [Threads -> Pointers] /\ t'["input"] = t["input"]
      /\ \/ /\ pc'["tcpip"] = "before" /\ time[N1] > time[timeout["tcpip"]]
         \/ /\ pc'["tcpip"] = "pass" /\ t'["tcpip"] = N1
            /\ ~(time[N1] > time[timeout["tcpip"]])
  <2>1. next_timeout # NULL /\ next_timeout \in Pointers /\ t \in [Threads -> Pointers]
    BY <1>2, <1>3 DEF Types, N1, TypeOK
  <2>2. CASE /\ time[next_timeout] > Interval[handler["tcpip"]]
             /\ Goto("tcpip", "before") /\ t' = t
             /\ next_timeout' = next_timeout /\ due' = due
    BY <1>2, <1>4, <1>5, <2>1, <2>2, GotoPc DEF Threads, N1
  <2>3. CASE /\ ~(time[next_timeout] > Interval[handler["tcpip"]])
             /\ Goto("tcpip", "pass") /\ t' = [t EXCEPT !["tcpip"] = next_timeout]
             /\ next_timeout' = next_timeout /\ due' = due
    BY <1>2, <1>4, <1>5, <2>1, <2>3, GotoPc DEF Threads, N1
  <2> QED BY <2>1, <2>2, <2>3 DEF First
<1>7. N1' = N1 /\ N2' = N2 /\ N3' = N3 /\ Listed' = Listed /\ ListOK'
  BY <1>1, <1>2, <1>6, SameList
<1>8. \A n \in Listed : Ends(n)' = Ends(n)
  BY <1>1, <1>2, <1>7, SameEnds
<1>9. TypeOK' /\ Interval' = Interval /\ MaxMsgs' = MaxMsgs
  BY <1>1, <1>2, <1>6 DEF TypeOK, Places, MaxMsgs, Interval
<1>10. PoolOK' /\ TimersOK'
  <2>1. \A th \in Threads : (Holds(th)' <=> Holds(th)) /\ (Starting(th)' <=> Starting(th))
    BY <1>1, <1>6 DEF Threads, Holds, Starting, Inserting
  <2> QED BY <1>1, <1>2, <1>7, <2>1, SameHands
<1>11. TimesOK'
  BY <1>1, <1>2, <1>3, <1>6, <1>7, <1>8, <1>9 DEF TimesOK, Slept, Taken
<1>12. InsertOK(timeout["tcpip"], t["tcpip"])'
  <2>1. N1 \in Listed /\ Ends(N1) = time[N1]
    BY <1>3 DEF Types, Listed
  <2>2. Ends(N1)' = time[N1]
    BY <1>1, <1>7, <2>1 DEF Ends
  <2>3. time[N1] \in Nat /\ time[timeout["tcpip"]] \in Nat
    BY <1>3, <1>5 DEF Types
  <2>4. Ends(t["tcpip"])' = time[N1] \/ pc'["tcpip"] # "pass"
    BY <1>1, <1>6, <1>7, <2>2 DEF Ends
  <2>5. (time[timeout["tcpip"]] = Interval[h[timeout["tcpip"]]])'
    BY <1>1, <1>5, <1>9
  <2>6. (pc["tcpip"] = "before" => time[N1] > time[timeout["tcpip"]])'
    BY <1>1, <1>6, <1>7
  <2>7. (pc["tcpip"] = "pass" =>
           /\ t["tcpip"] \in Listed /\ time[t["tcpip"]] <= time[timeout["tcpip"]]
           /\ time[timeout["tcpip"]] + Ends(t["tcpip"]) - time[t["tcpip"]]
                = Interval[h[timeout["tcpip"]]])'
    BY <1>1, <1>6, <1>7, <2>1, <2>3, <2>4, <2>5
  <2>8. pc'["tcpip"] \in {"before", "pass"}
    BY <1>6
  <2> QED BY <2>5, <2>6, <2>7, <2>8 DEF InsertOK
<1>13. UseOK'
  <2>1. CASE Alone /\ pc["input"] = "out"
    BY <1>1, <1>6, <2>1 DEF UseOK, Alone, Registrars
  <2>2. CASE InStep /\ InStepOK
    <3>1. InputOK(timeout["input"], t["input"])'
      BY <1>1, <1>6, <1>7, <1>8, <1>9, <2>2, SameInput DEF InStepOK
    <3>2. ~(time[N1] > time[timeout["tcpip"]])
      <4>1. N1 \in Listed /\ Ends(N1) = time[N1]
        BY <1>3 DEF Types, Listed
      <4>2. Ends(N1) \in {0, Interval[h[N1]]} /\ h[N1] \in Timers /\ handler["tcpip"] \in Timers
        BY <1>2, <1>3, <1>4, <2>2, <4>1 DEF InStepOK, TypeOK, Types
      <4>3. Interval[h[N1]] = Interval[handler["tcpip"]]
        BY <2>2, <4>2 DEF InStep
      <4>4. Interval[handler["tcpip"]] \in Nat
        BY <1>3, <4>2 DEF Types
      <4> QED BY <1>5, <4>1, <4>2, <4>3, <4>4
    <3>3. InStep'
      BY <1>9, <2>2 DEF InStep
    <3>4. InStepOK'
      BY <1>1, <1>6, <1>7, <1>8, <1>9, <2>2, <3>1, <3>2 DEF InStepOK
    <3> QED BY <3>3, <3>4 DEF UseOK
  <2> QED BY <1>2, <2>1, <2>2 DEF UseOK
<1> QED BY <1>7, <1>9, <1>10, <1>11, <1>12, <1>13 DEF IInv

LEMMA PassOK == ASSUME IInv, UNCHANGED setting, Pass("tcpip") PROVE IInv'
<1>1. /\ pc["tcpip"] = "pass" /\ Goto("tcpip", "test")
      /\ time' = [time EXCEPT ![timeout["tcpip"]] =
                    Minus(time[timeout["tcpip"]], time[t["tcpip"]])]
      /\ next_timeout' = next_timeout /\ next' = next /\ h' = h
      /\ memp' = memp /\ tcpip_tcp_timer_active' = tcpip_tcp_timer_active
      /\ pcbs' = pcbs /\ mbox' = mbox /\ asked' = asked /\ wait' = wait
      /\ handler' = handler /\ timeout' = timeout /\ t' = t /\ due' = due
      /\ setting' = setting
  BY DEF Pass, tcpVars, sleepVars, localVars
<1>2. TypeOK /\ ListOK /\ PoolOK /\ TimersOK /\ TimesOK /\ UseOK
      /\ InsertOK(timeout["tcpip"], t["tcpip"])
  BY DEF IInv
<1>3. Types
  BY <1>2, TypesHold
<1>4. /\ Holds("tcpip") /\ "tcpip" \in Threads /\ "input" \in Threads
      /\ "test" \in Places
  BY <1>1 DEF Holds, Inserting, Threads, Places
<1>5. /\ timeout["tcpip"] \in Structs /\ timeout["tcpip"] \notin Listed
      /\ t["tcpip"] \in Listed /\ t["tcpip"] \in Structs
      /\ time[t["tcpip"]] <= time[timeout["tcpip"]]
      /\ time[timeout["tcpip"]] + Ends(t["tcpip"]) - time[t["tcpip"]]
           = Interval[h[timeout["tcpip"]]]
  BY <1>1, <1>2, <1>3, <1>4, HoldsOne DEF InsertOK, Types
<1>6. /\ time[timeout["tcpip"]] \in 0 .. Word - 1 /\ time[t["tcpip"]] \in 0 .. Word - 1
      /\ time[timeout["tcpip"]] - time[t["tcpip"]] \in 0 .. Word - 1
  BY <1>3, <1>5 DEF Types
<1>7. /\ time' \in [Structs -> 0 .. Word - 1]
      /\ time'[timeout["tcpip"]] = time[timeout["tcpip"]] - time[t["tcpip"]]
      /\ \A n \in Structs \ {timeout["tcpip"]} : time'[n] = time[n]
  <2>1. Minus(time[timeout["tcpip"]], time[t["tcpip"]])
          = time[timeout["tcpip"]] - time[t["tcpip"]]
    <3>1. time[timeout["tcpip"]] \in Int /\ time[t["tcpip"]] \in Int
      BY <1>6
    <3>2. Word \in Nat /\ Word > 0
      BY <1>3 DEF Types
    <3> QED BY <1>6, <3>1, <3>2, MinusType
  <2>2. time \in [Structs -> 0 .. Word - 1]
    BY <1>3 DEF Types
  <2> QED BY <1>1, <1>5, <1>6, <2>1, <2>2
<1>8. /\ pc' \in [Threads -> Places] /\ pc'["tcpip"] = "test"
      /\ pc'["input"] = pc["input"]
  BY <1>1, <1>2, <1>4, GotoPc DEF Threads
<1>9. N1' = N1 /\ N2' = N2 /\ N3' = N3 /\ Listed' = Listed /\ ListOK'
  BY <1>1, <1>2, SameList
<1>10. \A n \in Listed : time'[n] = time[n] /\ Ends(n)' = Ends(n)
  <2>1. \A n \in Listed : time'[n] = time[n]
    BY <1>3, <1>5, <1>7 DEF Types
  <2> QED BY <1>2, <1>9, <2>1, SameEnds
<1>11. TypeOK' /\ Interval' = Interval /\ MaxMsgs' = MaxMsgs
  BY <1>1, <1>2, <1>7, <1>8 DEF TypeOK, Places, MaxMsgs, Interval
<1>12. PoolOK' /\ TimersOK'
  <2>1. \A th \in Threads : (Holds(th)' <=> Holds(th)) /\ (Starting(th)' <=> Starting(th))
    BY <1>1, <1>8 DEF Threads, Holds, Starting, Inserting
  <2> QED BY <1>1, <1>2, <1>9, <2>1, SameHands
<1>13. TimesOK'
  <2>1. \A n \in Listed : Taken(n)' = Taken(n)
    BY <1>1, <1>8 DEF Taken
  <2>2. Slept' = Slept
    BY <1>1, <1>8 DEF Slept
  <2>3. \A n \in Listed : Ends(n)' = Ends(n)
    BY <1>10
  <2> QED BY <1>1, <1>2, <1>8, <1>9, <1>11, <2>1, <2>2, <2>3 DEF TimesOK
<1>14. InsertOK(timeout["tcpip"], t["tcpip"])'
  <2>1. Ends(t["tcpip"])' = Ends(t["tcpip"]) /\ Ends(t["tcpip"]) \in Nat
    BY <1>1, <1>3, <1>5, <1>10 DEF Types
  <2>2. time'[timeout["tcpip"]] + Ends(t["tcpip"]) = Interval[h[timeout["tcpip"]]]
    BY <1>5, <1>6, <1>7, <2>1
  <2>3. (t["tcpip"] \in Listed
         /\ time[timeout["tcpip"]] + Ends(t["tcpip"]) = Interval[h[timeout["tcpip"]]])'
    BY <1>1, <1>5, <1>9, <1>11, <2>1, <2>2
  <2> QED BY <1>8, <2>3 DEF InsertOK
<1>15. UseOK'
  <2>1. CASE Alone /\ pc["input"] = "out"
    BY <1>1, <1>8, <2>1 DEF UseOK, Alone, Registrars
  <2>2. CASE InStep /\ InStepOK
    <3>1. Holds("input") => time'[timeout["input"]] = time[timeout["input"]]
      BY <1>2, <1>4, <1>7, HoldsOne DEF PoolOK
    <3>2. InputOK(timeout["input"], t["input"])'
      BY <1>1, <1>8, <1>9, <1>10, <1>11, <2>2, <3>1, SameInput DEF InStepOK
    <3>3. InStep'
      BY <1>11, <2>2 DEF InStep
    <3>4. InStepOK'
      BY <1>1, <1>8, <1>9, <1>10, <1>11, <2>2, <3>2 DEF InStepOK
    <3> QED BY <3>3, <3>4 DEF UseOK
  <2> QED BY <1>2, <2>1, <2>2 DEF UseOK
<1> QED BY <1>9, <1>11, <1>12, <1>13, <1>14, <1>15 DEF IInv

LEMMA SameUse ==
  ASSUME UseOK, setting' = setting, mbox' = mbox, \A n \in Listed : h'[n] = h[n],
         N1' = N1, N2' = N2, N3' = N3, \A n \in Listed : Ends(n)' = Ends(n),
         pc'["input"] = pc["input"],
         timeout'["input"] = timeout["input"], t'["input"] = t["input"],
         Holds("input") => /\ time'[timeout["input"]] = time[timeout["input"]]
                           /\ next'[timeout["input"]] = next[timeout["input"]],
         InStep => pc'["tcpip"] \in {"again", "malloc", "first", "pass", "test",
                                     "shift", "link3", "link4"}
  PROVE  UseOK'
<1>1. Interval' = Interval /\ MaxMsgs' = MaxMsgs /\ Listed' = Listed
  BY DEF Interval, MaxMsgs, Listed
<1>2. CASE Alone /\ pc["input"] = "out"
  BY <1>2 DEF UseOK, Alone, Registrars
<1>3. CASE InStep /\ InStepOK
  <2>1. InputOK(timeout["input"], t["input"])'
    BY <1>1, <1>3, SameInput DEF InStepOK
  <2>2. InStep'
    BY <1>1, <1>3 DEF InStep
  <2>3. InStepOK'
    BY <1>1, <1>3, <2>1 DEF InStepOK
  <2> QED BY <2>2, <2>3 DEF UseOK
<1> QED BY <1>2, <1>3 DEF UseOK

LEMMA BeforeOK ==
  ASSUME IInv, UNCHANGED setting, InFront("tcpip"), pc["tcpip"] = "before"
  PROVE  IInv'
<1>1. /\ Goto("tcpip", "link1")
      /\ time' = [time EXCEPT ![N1] = Minus(time[N1], Interval[handler["tcpip"]])]
      /\ next_timeout' = next_timeout /\ next' = next /\ h' = h
      /\ memp' = memp /\ tcpip_tcp_timer_active' = tcpip_tcp_timer_active
      /\ pcbs' = pcbs /\ mbox' = mbox /\ asked' = asked /\ wait' = wait
      /\ handler' = handler /\ timeout' = timeout /\ t' = t /\ due' = due
      /\ setting' = setting
  BY DEF InFront, tcpVars, sleepVars, localVars, N1
<1>2. TypeOK /\ ListOK /\ PoolOK /\ TimersOK /\ TimesOK /\ UseOK
      /\ InsertOK(timeout["tcpip"], t["tcpip"])
  BY DEF IInv
<1>3. Types
  BY <1>2, TypesHold
<1>4. /\ Holds("tcpip") /\ "tcpip" \in Threads /\ "input" \in Threads
      /\ "link1" \in Places
  BY DEF Holds, Inserting, Threads, Places
<1>5. /\ timeout["tcpip"] \in Structs /\ timeout["tcpip"] \notin Listed
      /\ time[timeout["tcpip"]] = Interval[handler["tcpip"]]
      /\ h[timeout["tcpip"]] = handler["tcpip"]
      /\ time[N1] > time[timeout["tcpip"]]
      /\ N1 \in Structs /\ N1 # timeout["tcpip"]
  BY <1>2, <1>3, <1>4, HoldsOne DEF InsertOK, TimersOK, Types, Listed
<1>6. /\ time[timeout["tcpip"]] \in 0 .. Word - 1 /\ time[N1] \in 0 .. Word - 1
      /\ time[N1] - time[timeout["tcpip"]] \in 0 .. Word - 1
  BY <1>3, <1>5 DEF Types
<1>7. /\ time' \in [Structs -> 0 .. Word - 1]
      /\ time'[N1] = time[N1] - time[timeout["tcpip"]]
      /\ \A n \in Structs \ {N1} : time'[n] = time[n]
  <2>1. Minus(time[N1], Interval[handler["tcpip"]]) = time[N1] - time[timeout["tcpip"]]
    <3>1. time[timeout["tcpip"]] \in Int /\ time[N1] \in Int
      BY <1>6
    <3>2. Word \in Nat /\ Word > 0
      BY <1>3 DEF Types
    <3> QED BY <1>5, <1>6, <3>1, <3>2, MinusType
  <2>2. time \in [Structs -> 0 .. Word - 1]
    BY <1>3 DEF Types
  <2> QED BY <1>1, <1>5, <1>6, <2>1, <2>2
<1>8. /\ pc' \in [Threads -> Places] /\ pc'["tcpip"] = "link1"
      /\ pc'["input"] = pc["input"]
  BY <1>1, <1>2, <1>4, GotoPc DEF Threads
<1>9. N1' = N1 /\ N2' = N2 /\ N3' = N3 /\ Listed' = Listed /\ ListOK'
  BY <1>1, <1>2, SameList
<1>10. \A n \in Listed : Ends(n)' = Ends(n) - time[timeout["tcpip"]]
  <2>1. N2 # NULL => time'[N2] = time[N2] /\ time[N2] \in Nat
    BY <1>2, <1>3, <1>7 DEF Types, ListOK
  <2>2. N3 # NULL => time'[N3] = time[N3] /\ time[N3] \in Nat
    BY <1>2, <1>3, <1>7 DEF Types, ListOK
  <2>3. N3 # NULL => N2 # NULL
    BY <1>3 DEF Types
  <2> QED BY <1>6, <1>7, <1>9, <2>1, <2>2, <2>3 DEF Ends, Listed
<1>11. TypeOK' /\ Interval' = Interval /\ MaxMsgs' = MaxMsgs
  BY <1>1, <1>2, <1>7, <1>8 DEF TypeOK, Places, MaxMsgs, Interval
<1>12. PoolOK' /\ TimersOK'
  <2>1. \A th \in Threads : (Holds(th)' <=> Holds(th)) /\ (Starting(th)' <=> Starting(th))
    BY <1>8 DEF Threads, Holds, Starting, Inserting
  <2> QED BY <1>1, <1>2, <1>9, <2>1, SameHands
<1>13. TimesOK'
  <2>1. \A n \in Listed : Taken(n)' = time[timeout["tcpip"]] /\ Taken(n) = 0
    BY <1>1, <1>5, <1>7, <1>8 DEF Taken
  <2>2. Slept' = Slept
    BY <1>1, <1>8 DEF Slept
  <2>3. \A n \in Listed : Ends(n)' + Taken(n)' = Ends(n) + Taken(n)
    BY <1>3, <1>6, <1>10, <2>1 DEF Types
  <2> QED BY <1>1, <1>2, <1>8, <1>9, <1>11, <2>2, <2>3 DEF TimesOK
<1>14. InsertOK(timeout["tcpip"], t["tcpip"])'
  BY <1>1, <1>2, <1>5, <1>7, <1>8, <1>11 DEF InsertOK
<1>15. UseOK'
  <2>1. ~(InStep /\ InStepOK)
    BY DEF InStepOK
  <2> QED BY <1>1, <1>2, <1>8, <2>1 DEF UseOK, Alone, Registrars
<1> QED BY <1>9, <1>11, <1>12, <1>13, <1>14, <1>15 DEF IInv

LEMMA Link1OK ==
  ASSUME IInv, UNCHANGED setting, InFront("tcpip"), pc["tcpip"] = "link1"
  PROVE  IInv'
<1>1. /\ Goto("tcpip", "link2")
      /\ next' = [next EXCEPT ![timeout["tcpip"]] = N1]
      /\ next_timeout' = next_timeout /\ time' = time /\ h' = h
      /\ memp' = memp /\ tcpip_tcp_timer_active' = tcpip_tcp_timer_active
      /\ pcbs' = pcbs /\ mbox' = mbox /\ asked' = asked /\ wait' = wait
      /\ handler' = handler /\ timeout' = timeout /\ t' = t /\ due' = due
      /\ setting' = setting
  BY DEF InFront, tcpVars, sleepVars, localVars, N1
<1>2. TypeOK /\ ListOK /\ PoolOK /\ TimersOK /\ TimesOK /\ UseOK
      /\ InsertOK(timeout["tcpip"], t["tcpip"])
  BY DEF IInv
<1>3. Types
  BY <1>2, TypesHold
<1>4. /\ Holds("tcpip") /\ "tcpip" \in Threads /\ "input" \in Threads
      /\ "link2" \in Places
  BY DEF Holds, Inserting, Threads, Places
<1>5. timeout["tcpip"] \in Structs /\ timeout["tcpip"] \notin Listed
  BY <1>2, <1>4, HoldsOne
<1>6. /\ next' \in [Structs -> Pointers] /\ next'[timeout["tcpip"]] = N1
      /\ \A n \in Listed : next'[n] = next[n]
  BY <1>1, <1>3, <1>5 DEF Types, Pointers
<1>7. /\ pc' \in [Threads -> Places] /\ pc'["tcpip"] = "link2"
      /\ pc'["input"] = pc["input"]
  BY <1>1, <1>2, <1>4, GotoPc DEF Threads
<1>8. N1' = N1 /\ N2' = N2 /\ N3' = N3 /\ Listed' = Listed /\ ListOK'
  BY <1>1, <1>2, <1>6, SameList
<1>9. \A n \in Listed : Ends(n)' = Ends(n)
  BY <1>1, <1>2, <1>8, SameEnds
<1>10. TypeOK' /\ Interval' = Interval
  BY <1>1, <1>2, <1>6, <1>7 DEF TypeOK, Places, MaxMsgs, Interval
<1>11. PoolOK' /\ TimersOK'
  <2>1. \A th \in Threads : (Holds(th)' <=> Holds(th)) /\ (Starting(th)' <=> Starting(th))
    BY <1>7 DEF Threads, Holds, Starting, Inserting
  <2> QED BY <1>1, <1>2, <1>8, <2>1, SameHands
<1>12. TimesOK'
  <2>1. Slept' = Slept /\ \A n \in Listed : Taken(n)' = Taken(n)
    BY <1>1, <1>7 DEF Slept, Taken
  <2> QED BY <1>1, <1>2, <1>7, <1>8, <1>9, <1>10, <2>1 DEF TimesOK
<1>13. InsertOK(timeout["tcpip"], t["tcpip"])'
  BY <1>1, <1>2, <1>6, <1>7, <1>8, <1>10 DEF InsertOK
<1>14. UseOK'
  <2>1. ~(InStep /\ InStepOK)
    BY DEF InStepOK
  <2> QED BY <1>1, <1>2, <1>7, <2>1 DEF UseOK, Alone, Registrars
<1> QED BY <1>8, <1>10, <1>11, <1>12, <1>13, <1>14 DEF IInv

LEMMA RoomForOne ==
  ASSUME Types, ListOK, NEW n \in Structs, n \notin Listed
  PROVE  N3 = NULL /\ \A m \in Structs \ {n} : m = N1 \/ N2 \in {m, NULL}
BY DEF Types, ListOK, Listed

LEMMA ShiftOK ==
  ASSUME IInv, UNCHANGED setting, Behind("tcpip"), pc["tcpip"] = "shift"
  PROVE  IInv'
<1>1. /\ Goto("tcpip", "link3")
      /\ IF next[t["tcpip"]] = NULL THEN time' = time
         ELSE time' = [time EXCEPT ![next[t["tcpip"]]] =
                         Minus(time[next[t["tcpip"]]], time[timeout["tcpip"]])]
      /\ next_timeout' = next_timeout /\ next' = next /\ h' = h
      /\ memp' = memp /\ tcpip_tcp_timer_active' = tcpip_tcp_timer_active
      /\ pcbs' = pcbs /\ mbox' = mbox /\ asked' = asked /\ wait' = wait
      /\ handler' = handler /\ timeout' = timeout /\ t' = t /\ due' = due
      /\ setting' = setting
  BY DEF Behind, tcpVars, sleepVars, localVars
<1>2. TypeOK /\ ListOK /\ PoolOK /\ TimersOK /\ TimesOK /\ UseOK
      /\ InsertOK(timeout["tcpip"], t["tcpip"])
  BY DEF IInv
<1>3. Types
  BY <1>2, TypesHold
<1>4. /\ Holds("tcpip") /\ "tcpip" \in Threads /\ "input" \in Threads
      /\ "link3" \in Places
  BY DEF Holds, Inserting, Threads, Places
<1>5. /\ timeout["tcpip"] \in Structs /\ timeout["tcpip"] \notin Listed
      /\ t["tcpip"] \in Listed /\ t["tcpip"] \in Structs
      /\ time[timeout["tcpip"]] + Ends(t["tcpip"]) = Interval[h[timeout["tcpip"]]]
      /\ next[t["tcpip"]] = NULL \/ time[next[t["tcpip"]]] > time[timeout["tcpip"]]
      /\ N3 = NULL
  <2>1. timeout["tcpip"] \in Structs /\ timeout["tcpip"] \notin Listed
    BY <1>2, <1>4, HoldsOne
  <2> QED BY <1>2, <1>3, <2>1, RoomForOne DEF InsertOK, Types
<1>6. /\ pc' \in [Threads -> Places] /\ pc'["tcpip"] = "link3"
      /\ pc'["input"] = pc["input"]
  BY <1>1, <1>2, <1>4, GotoPc DEF Threads
<1>7. N1' = N1 /\ N2' = N2 /\ N3' = N3 /\ Listed' = Listed /\ ListOK'
  BY <1>1, <1>2, SameList
<1>8. PoolOK' /\ TimersOK'
  <2>1. \A th \in Threads : (Holds(th)' <=> Holds(th)) /\ (Starting(th)' <=> Starting(th))
    BY <1>6 DEF Threads, Holds, Starting, Inserting
  <2> QED BY <1>1, <1>2, <1>7, <2>1, SameHands
<1>9. Interval' = Interval /\ MaxMsgs' = MaxMsgs /\ Slept' = Slept
  BY <1>1, <1>6 DEF Interval, MaxMsgs, Slept
<1>10. CASE next[t["tcpip"]] = NULL
  <2>1. time' = time
    BY <1>1, <1>10
  <2>2. \A n \in Listed : Ends(n)' = Ends(n)
    BY <1>2, <1>7, <2>1, SameEnds
  <2>3. TypeOK'
    BY <1>1, <1>2, <1>6, <1>9, <2>1 DEF TypeOK, Places
  <2>4. \A n \in Listed : Taken(n) = 0 /\ Taken(n)' = 0
    <3>1. t["tcpip"] = N1 => N2 = NULL
      BY <1>3, <1>10 DEF N2, After, Types
    <3> QED BY <1>1, <1>5, <1>6, <1>7, <3>1 DEF Taken, Listed
  <2>5. TimesOK'
    BY <1>1, <1>2, <1>6, <1>7, <1>9, <2>1, <2>2, <2>4 DEF TimesOK
  <2>6. InsertOK(timeout["tcpip"], t["tcpip"])'
    <3>1. Ends(t["tcpip"])' = Ends(t["tcpip"])
      BY <1>1, <1>5, <2>2
    <3> QED BY <1>1, <1>5, <1>6, <1>7, <1>9, <2>1, <3>1 DEF InsertOK
  <2>7. UseOK'
    BY <1>1, <1>2, <1>6, <1>7, <2>1, <2>2, SameUse
  <2> QED BY <1>7, <1>8, <2>3, <2>5, <2>6, <2>7 DEF IInv
<1>11. CASE next[t["tcpip"]] # NULL
  <2>1. t["tcpip"] = N1 /\ next[t["tcpip"]] = N2 /\ N2 \in Structs /\ N2 # N1
        /\ N2 # timeout["tcpip"] /\ N1 # timeout["tcpip"]
    <3>1. next[t["tcpip"]] \in Listed /\ next[t["tcpip"]] # N1
      BY <1>2, <1>5, <1>11, NextListed
    <3>2. next[t["tcpip"]] = N2
      BY <1>5, <3>1 DEF Listed
    <3>3. t["tcpip"] # N2
      BY <1>2, <1>5, <1>11, <3>2, NextListed
    <3> QED BY <1>3, <1>5, <3>1, <3>2, <3>3 DEF Listed, Types
  <2>2. time[N2] \in 0 .. Word - 1 /\ time[timeout["tcpip"]] \in 0 .. Word - 1
        /\ time[N2] > time[timeout["tcpip"]] /\ Word \in Nat /\ Word > 0
    BY <1>3, <1>5, <1>11, <2>1 DEF Types
  <2>3. /\ time' \in [Structs -> 0 .. Word - 1]
        /\ time'[N2] = time[N2] - time[timeout["tcpip"]]
        /\ \A n \in Structs \ {N2} : time'[n] = time[n]
    <3>1. Minus(time[N2], time[timeout["tcpip"]]) = time[N2] - time[timeout["tcpip"]]
      <4>1. time[N2] \in Int /\ time[timeout["tcpip"]] \in Int
            /\ time[N2] - time[timeout["tcpip"]] \in 0 .. Word - 1
        BY <2>2
      <4> QED BY <2>2, <4>1, MinusType
    <3>2. time[N2] - time[timeout["tcpip"]] \in 0 .. Word - 1
      BY <2>2
    <3> QED BY <1>1, <1>3, <1>11, <2>1, <3>1, <3>2 DEF Types
  <2>4. Ends(N1)' = Ends(N1) /\ Ends(N2)' = Ends(N2) - time[timeout["tcpip"]]
    BY <1>3, <1>7, <2>1, <2>2, <2>3 DEF Ends, Types
  <2>5. TypeOK'
    BY <1>1, <1>2, <1>6, <1>9, <2>3 DEF TypeOK, Places
  <2>6. /\ Taken(N1) = 0 /\ Taken(N1)' = 0 /\ Taken(N2) = 0
        /\ Taken(N2)' = time[timeout["tcpip"]]
    BY <1>1, <1>6, <1>7, <2>1, <2>3, <1>5 DEF Taken
  <2>7. \A n \in Listed : Ends(n)' + Taken(n)' = Ends(n) + Taken(n)
    <3>1. Ends(N2)' + Taken(N2)' = Ends(N2) + Taken(N2)
      BY <1>3, <2>1, <2>2, <2>4, <2>6 DEF Types, Listed
    <3>2. Ends(N1)' + Taken(N1)' = Ends(N1) + Taken(N1)
      BY <2>4, <2>6
    <3>3. \A n \in Listed : n = N1 \/ n = N2
      BY <1>5 DEF Listed
    <3>4. SUFFICES ASSUME NEW n \in Listed PROVE Ends(n)' + Taken(n)' = Ends(n) + Taken(n)
      OBVIOUS
    <3>5. CASE n = N1
      BY <1>1, <1>7, <3>2, <3>5 DEF Ends, Taken
    <3>6. CASE n = N2
      BY <1>1, <1>7, <3>1, <3>6 DEF Ends, Taken
    <3> QED BY <3>3, <3>5, <3>6
  <2>8. TimesOK'
    <3>1. time'[N1'] = time[N1]
      BY <1>5, <1>7, <2>1, <2>3
    <3> QED BY <1>1, <1>2, <1>6, <1>7, <1>9, <2>7, <3>1 DEF TimesOK
  <2>9. InsertOK(timeout["tcpip"], t["tcpip"])'
    <3>1. Ends(t["tcpip"])' = Ends(t["tcpip"])
      BY <1>1, <1>7, <2>1, <2>4 DEF Ends
    <3>2. time'[timeout["tcpip"]] = time[timeout["tcpip"]]
      BY <1>5, <2>1, <2>3
    <3> QED BY <1>1, <1>5, <1>6, <1>7, <1>9, <3>1, <3>2 DEF InsertOK
  <2>10. UseOK'
    <3>1. ~(InStep /\ InStepOK)
      <4>. SUFFICES ASSUME InStep, InStepOK PROVE FALSE
        OBVIOUS
      <4>1. Ends(N2) = Ends(N1) + time[N2] /\ Ends(N1) \in Nat /\ N1 \in Listed /\ N2 \in Listed
        BY <1>3, <2>1 DEF Types, Listed
      <4>2. Ends(N2) \in {0, Interval[h[N2]]}
        BY <4>1 DEF InStepOK
      <4>3. h[N2] \in Timers /\ h[timeout["tcpip"]] \in Timers
        BY <1>3, <1>5, <2>1 DEF Types
      <4>4. Interval[h[N2]] = Interval[h[timeout["tcpip"]]]
        BY <4>3 DEF InStep
      <4> QED BY <1>5, <2>1, <2>2, <4>1, <4>2, <4>4
    <3> QED BY <1>1, <1>2, <1>6, <3>1 DEF UseOK, Alone, Registrars
  <2> QED BY <1>7, <1>8, <2>5, <2>8, <2>9, <2>10 DEF IInv
<1> QED BY <1>10, <1>11

LEMMA Link3OK ==
  ASSUME IInv, UNCHANGED setting, Behind("tcpip"), pc["tcpip"] = "link3"
  PROVE  IInv'
<1>1. /\ Goto("tcpip", "link4")
      /\ next' = [next EXCEPT ![timeout["tcpip"]] = next[t["tcpip"]]]
      /\ next_timeout' = next_timeout /\ time' = time /\ h' = h
      /\ memp' = memp /\ tcpip_tcp_timer_active' = tcpip_tcp_timer_active
      /\ pcbs' = pcbs /\ mbox' = mbox /\ asked' = asked /\ wait' = wait
      /\ handler' = handler /\ timeout' = timeout /\ t' = t /\ due' = due
      /\ setting' = setting
  BY DEF Behind, tcpVars, sleepVars, localVars
<1>2. TypeOK /\ ListOK /\ PoolOK /\ TimersOK /\ TimesOK /\ UseOK
      /\ InsertOK(timeout["tcpip"], t["tcpip"])
  BY DEF IInv
<1>3. Types
  BY <1>2, TypesHold
<1>4. /\ Holds("tcpip") /\ "tcpip" \in Threads /\ "input" \in Threads
      /\ "link4" \in Places
  BY DEF Holds, Inserting, Threads, Places
<1>5. /\ timeout["tcpip"] \in Structs /\ timeout["tcpip"] \notin Listed
      /\ t["tcpip"] \in Listed /\ t["tcpip"] \in Structs
      /\ time[timeout["tcpip"]] + Ends(t["tcpip"]) = Interval[h[timeout["tcpip"]]]
      /\ next[t["tcpip"]] \in Pointers
  BY <1>2, <1>3, <1>4, HoldsOne DEF InsertOK, Types
<1>6. /\ next' \in [Structs -> Pointers] /\ next'[timeout["tcpip"]] = next[t["tcpip"]]
      /\ \A n \in Structs \ {timeout["tcpip"]} : next'[n] = next[n]
      /\ \A n \in Listed : next'[n] = next[n]
  BY <1>1, <1>3, <1>5 DEF Types
<1>7. /\ pc' \in [Threads -> Places] /\ pc'["tcpip"] = "link4"
      /\ pc'["input"] = pc["input"]
  BY <1>1, <1>2, <1>4, GotoPc DEF Threads
<1>8. N1' = N1 /\ N2' = N2 /\ N3' = N3 /\ Listed' = Listed /\ ListOK'
  BY <1>1, <1>2, <1>6, SameList
<1>9. \A n \in Listed : Ends(n)' = Ends(n)
  BY <1>1, <1>2, <1>8, SameEnds
<1>10. TypeOK' /\ Interval' = Interval
  BY <1>1, <1>2, <1>6, <1>7 DEF TypeOK, Places, MaxMsgs, Interval
<1>11. PoolOK' /\ TimersOK'
  <2>1. \A th \in Threads : (Holds(th)' <=> Holds(th)) /\ (Starting(th)' <=> Starting(th))
    BY <1>7 DEF Threads, Holds, Starting, Inserting
  <2> QED BY <1>1, <1>2, <1>8, <2>1, SameHands
<1>12. TimesOK'
  <2>1. Slept' = Slept /\ \A n \in Listed : Taken(n)' = Taken(n)
    BY <1>1, <1>7, <1>8 DEF Slept, Taken
  <2> QED BY <1>1, <1>2, <1>7, <1>8, <1>9, <1>10, <2>1 DEF TimesOK
<1>13. InsertOK(timeout["tcpip"], t["tcpip"])'
  <2>1. Ends(t["tcpip"])' = Ends(t["tcpip"])
    BY <1>1, <1>5, <1>9
  <2>2. (next[timeout["tcpip"]] = next[t["tcpip"]])'
    BY <1>1, <1>5, <1>6
  <2> QED BY <1>1, <1>5, <1>7, <1>8, <1>10, <2>1, <2>2 DEF InsertOK
<1>14. UseOK'
  <2>1. Holds("input") => next'[timeout["input"]] = next[timeout["input"]]
    BY <1>2, <1>4, <1>6, HoldsOne DEF PoolOK
  <2> QED BY <1>1, <1>2, <1>7, <1>8, <1>9, <2>1, SameUse
<1> QED BY <1>8, <1>10, <1>11, <1>12, <1>13, <1>14 DEF IInv

\* The last statement of sys_timeout puts the struct in hand in the list.
LEMMA LinkedOne ==
  ASSUME TypeOK, ListOK, PoolOK, TimersOK, NEW th \in Threads, Holds(th),
         Listed' = Listed \cup {timeout[th]}, h' = h, memp' = memp,
         tcpip_tcp_timer_active' = tcpip_tcp_timer_active,
         handler' = handler, timeout' = timeout,
         pc'[th] = Rest(th),
         \A other \in Threads \ {th} : pc'[other] = pc[other],
         due' = [due EXCEPT ![handler[th]] = Interval[handler[th]]],
         Interval \in [Timers -> Nat \ {0}]
  PROVE  /\ PoolOK' /\ TimersOK'
         /\ due' \in [Timers -> Int] /\ due'[h[timeout[th]]] = Interval[h[timeout[th]]]
         /\ \A n \in Listed : due'[h[n]] = due[h[n]]
         /\ \A timer \in Timers : due[timer] >= 0 => due'[timer] >= 0
<1>1. /\ timeout[th] \in Structs /\ timeout[th] \notin Listed
      /\ h[timeout[th]] = handler[th] /\ h[timeout[th]] \in Timers /\ Starting(th)
  BY HoldsOne DEF TimersOK, Starting, Holds
<1>2. /\ ~Starting(th)' /\ ~Holds(th)'
      /\ \A other \in Threads \ {th} : /\ Holds(other)' <=> Holds(other)
                                       /\ Starting(other)' <=> Starting(other)
  BY DEF Starting, Holds, Rest, Inserting
<1>3. PICK other : Threads = {th, other} /\ other # th
  BY DEF Threads
<1>4. Holds(other) => timeout[other] \in Structs \ Listed /\ timeout[other] # timeout[th]
  BY <1>3 DEF PoolOK, Threads
<1>5. InHand' \cup Listed' = InHand \cup Listed
  <2>1. InHand = {timeout[x] : x \in {x \in Threads : Holds(x)}}
    BY DEF InHand, Holds
  <2>2. InHand' = {timeout[x] : x \in {x \in Threads : Holds(x)'}}
    BY DEF InHand, Holds
  <2>3. InHand = InHand' \cup {timeout[th]}
    BY <1>2, <1>3, <2>1, <2>2
  <2> QED BY <2>3
<1>6. PoolOK'
  <2>1. (\A x \in Threads : Holds(x) => timeout[x] \in Structs \ Listed)'
    BY <1>2, <1>3, <1>4
  <2>2. (Holds("tcpip") /\ Holds("input") => timeout["tcpip"] # timeout["input"])'
    BY <1>2 DEF Threads
  <2> QED BY <1>5, <2>1, <2>2 DEF PoolOK
<1>7. TimersOK'
  <2>1. Started(handler[th])
    BY <1>1 DEF Started
  <2>2. \A n \in Listed : h[n] # handler[th]
    BY <1>1, <2>1 DEF TimersOK, Running
  <2>3. (\A m, n \in Listed : h[m] = h[n] => m = n)'
    BY <1>1, <2>2 DEF TimersOK
  <2>4. Starting(other) => handler[other] # handler[th]
    BY <1>1, <1>3 DEF TimersOK, Threads
  <2>5. \A timer \in Timers : Running(timer)' <=> Running(timer) \/ timer = handler[th]
    BY <1>1 DEF Running
  <2>6. \A timer \in Timers : Started(timer)' <=> Started(timer) /\ timer # handler[th]
    BY <1>1, <1>2, <1>3, <2>4 DEF Started
  <2>7. \A timer \in Timers : ~(Running(timer)' /\ Started(timer)')
    BY <2>5, <2>6 DEF TimersOK
  <2>8. \A timer \in Timers : (Running(timer)' \/ Started(timer)') <=> (Running(timer) \/ Started(timer))
    BY <1>1, <2>1, <2>5, <2>6
  <2>9. \A timer \in {"ip", "arp"} : Running(timer)' \/ Started(timer)'
    BY <2>8 DEF TimersOK, Timers
  <2>10. tcpip_tcp_timer_active' <=> Running("tcp")' \/ Started("tcp")'
    BY <2>8 DEF TimersOK, Timers, Running, Started
  <2>11. \A x \in Threads : Holds(x)' => h'[timeout'[x]] = handler'[x]
    BY <1>2 DEF TimersOK
  <2>12. /\ Starting("input")' => handler'["input"] = "tcp"
         /\ Starting("input")' /\ Starting("tcpip")' => handler'["tcpip"] # "tcp"
    BY <1>2 DEF TimersOK, Threads
  <2> QED BY <2>3, <2>7, <2>9, <2>10, <2>11, <2>12 DEF TimersOK
<1>8. /\ due' \in [Timers -> Int] /\ due'[h[timeout[th]]] = Interval[h[timeout[th]]]
      /\ \A n \in Listed : due'[h[n]] = due[h[n]]
      /\ \A timer \in Timers : due[timer] >= 0 => due'[timer] >= 0
  <2>1. Started(handler[th])
    BY <1>1 DEF Started
  <2>2. \A n \in Listed : h[n] # handler[th] /\ h[n] \in Timers
    BY <1>1, <2>1, TypesHold DEF TimersOK, Running, Types
  <2>3. due \in [Timers -> Int]
    BY DEF TypeOK
  <2> QED BY <1>1, <2>2, <2>3
<1> QED BY <1>6, <1>7, <1>8

LEMMA Link2OK ==
  ASSUME IInv, UNCHANGED setting, InFront("tcpip"), pc["tcpip"] = "link2"
  PROVE  IInv'
<1>1. /\ Goto("tcpip", "again") /\ Rest("tcpip") = "again"
      /\ due' = [due EXCEPT ![handler["tcpip"]] = Interval[handler["tcpip"]]]
      /\ next_timeout' = timeout["tcpip"] /\ next' = next /\ time' = time /\ h' = h
      /\ memp' = memp /\ tcpip_tcp_timer_active' = tcpip_tcp_timer_active
      /\ pcbs' = pcbs /\ mbox' = mbox /\ asked' = asked /\ wait' = wait
      /\ handler' = handler /\ timeout' = timeout /\ t' = t
      /\ setting' = setting
  BY DEF InFront, tcpVars, sleepVars, localVars, Linked, Rest
<1>2. TypeOK /\ ListOK /\ PoolOK /\ TimersOK /\ TimesOK /\ UseOK
      /\ InsertOK(timeout["tcpip"], t["tcpip"])
  BY DEF IInv
<1>3. Types
  BY <1>2, TypesHold
<1>4. /\ Holds("tcpip") /\ "tcpip" \in Threads /\ "input" \in Threads
      /\ "again" \in Places
  BY DEF Holds, Inserting, Threads, Places
<1> DEFINE n == timeout["tcpip"]
<1>5. /\ n \in Structs /\ n \notin Listed /\ next[n] = N1
      /\ time[n] = Interval[h[n]] /\ time[n] \in Nat
      /\ N3 = NULL
  <2>1. n \in Structs /\ n \notin Listed /\ time[n] \in Nat
    BY <1>2, <1>4, HoldsOne
  <2> QED BY <1>2, <1>3, <2>1, RoomForOne DEF InsertOK
<1>6. /\ pc' \in [Threads -> Places] /\ pc'["tcpip"] = "again"
      /\ pc'["input"] = pc["input"]
  BY <1>1, <1>2, <1>4, GotoPc DEF Threads
<1>7. N1' = n /\ N2' = N1 /\ N3' = N2
  BY <1>1, <1>3, <1>5 DEF N1, N2, N3, After, Types
<1>8. Listed' = Listed \cup {n}
  BY <1>3, <1>5, <1>7 DEF Listed, Types
<1>9. ListOK'
  BY <1>1, <1>2, <1>3, <1>5, <1>7 DEF ListOK, Types, Listed, N3, After
<1>10. /\ PoolOK' /\ TimersOK'
       /\ due' \in [Timers -> Int] /\ due'[h[n]] = Interval[h[n]]
       /\ \A m \in Listed : due'[h[m]] = due[h[m]]
       /\ \A timer \in Timers : due[timer] >= 0 => due'[timer] >= 0
  <2>1. \A other \in Threads \ {"tcpip"} : pc'[other] = pc[other]
    BY <1>6 DEF Threads
  <2> QED BY <1>1, <1>2, <1>3, <1>4, <1>6, <1>8, <2>1, LinkedOne DEF Types
<1>11. TypeOK' /\ Interval' = Interval
  BY <1>1, <1>2, <1>3, <1>5, <1>6, <1>10 DEF TypeOK, Places, MaxMsgs, Interval, Pointers
<1>12. TimesOK'
  <2>1. (\A m \in Listed : Taken(m) = 0)' /\ \A m \in Listed : Taken(m) = time[n]
    BY <1>6 DEF Taken
  <2>2. Slept = 0 /\ Slept' = 0
    BY <1>6 DEF Slept
  <2>3. \A m \in Listed : Ends(m)' = Ends(m) + Taken(m)
    <3>1. time[N1] \in Nat /\ (N2 # NULL => time[N2] \in Nat)
      BY <1>3 DEF Types
    <3> QED BY <1>1, <1>3, <1>5, <1>7, <2>1, <3>1 DEF Ends, Listed, Types
  <2>4. \A m : m = n => Ends(m)' = Interval[h[m]]
    BY <1>1, <1>5, <1>7 DEF Ends
  <2>5. \A m \in Listed : /\ Ends(m)' <= Interval[h[m]]
                          /\ Ends(m)' <= due'[h[m]]
    <3>1. \A m \in Listed : h[m] \in Timers /\ due[h[m]] \in Int
      BY <1>2, <1>3 DEF Types, TypeOK
    <3> QED BY <1>2, <1>10, <2>2, <2>3, <3>1 DEF TimesOK
  <2>6. Interval[h[n]] \in Nat
    BY <1>3, <1>5 DEF Types
  <2>7. \A m \in Listed' : Ends(m)' \in Int /\ Ends(m)' <= Interval[h[m]] /\ Ends(m)' <= due'[h[m]]
    <3>1. \A m \in Listed : Ends(m) \in Nat
      BY <1>3 DEF Types
    <3> QED BY <1>5, <1>8, <1>10, <2>1, <2>3, <2>4, <2>5, <2>6, <3>1
  <2>8. \A m \in Listed' : Taken(m)' = 0
    BY <2>1
  <2>9. \A timer \in Timers : due'[timer] >= 0
    BY <1>2, <1>10 DEF TimesOK
  <2>10. \A m \in Listed' : due'[h[m]] \in Int
    BY <1>3, <1>5, <1>8, <1>10 DEF Types
  <2>11. \A m \in Listed' : /\ Ends(m)' + Taken(m)' <= Interval[h[m]]
                            /\ Ends(m)' + Taken(m)' <= Slept' + due'[h[m]]
    BY <2>2, <2>7, <2>8, <2>10
  <2> QED BY <1>1, <1>6, <1>11, <2>9, <2>11 DEF TimesOK
<1>13. InsertOK(timeout["tcpip"], t["tcpip"])'
  BY <1>6 DEF InsertOK
<1>14. UseOK'
  <2>1. ~(InStep /\ InStepOK)
    BY DEF InStepOK
  <2> QED BY <1>1, <1>2, <1>6, <2>1 DEF UseOK, Alone, Registrars
<1> QED BY <1>9, <1>10, <1>11, <1>12, <1>13, <1>14 DEF IInv

LEMMA LinkedBehind ==
  ASSUME Types, ListOK, NEW n \in Structs, n \notin Listed, NEW at \in Listed,
         next[n] = next[at], next_timeout' = next_timeout,
         next' = [next EXCEPT ![at] = n], time' = time
  PROVE  /\ ListOK' /\ Listed' = Listed \cup {n} /\ next' \in [Structs -> Pointers]
         /\ N1' = N1 /\ N3 = NULL
         /\ \/ at = N1 /\ N2' = n /\ N3' = N2
            \/ at = N2 /\ at # N1 /\ N2' = N2 /\ N3' = n
         /\ \A m : m = n => Ends(m)' = Ends(at) + time[n]
         /\ \A m \in Listed :
              Ends(m)' = IF at = N1 /\ m # N1 THEN Ends(m) + time[n] ELSE Ends(m)
<1>1. /\ N3 = NULL /\ N1 \in Structs /\ N1 # n /\ N2 # n /\ at # n
      /\ at = N1 \/ (at = N2 /\ N2 # NULL)
      /\ next \in [Structs -> Pointers] /\ at \in Structs /\ n # NULL
      /\ N2 # N1 /\ NULL \notin Structs
  BY RoomForOne DEF Types, Listed, ListOK
<1>2. /\ next' \in [Structs -> Pointers] /\ next'[at] = n
      /\ \A m \in Structs \ {at} : next'[m] = next[m]
  BY <1>1 DEF Pointers
<1>3. N1' = N1
  BY DEF N1
<1>4. CASE at = N1
  <2>1. N2' = n /\ N2 = next[at]
    BY <1>1, <1>2, <1>3, <1>4 DEF N2, After
  <2>2. N3' = N2
    BY <1>1, <1>2, <2>1 DEF N3, After
  <2>3. N2 # NULL => next'[N2] = NULL
    BY <1>1, <1>2, <1>4, <2>1 DEF N3, After, Types
  <2>4. ListOK' /\ Listed' = Listed \cup {n}
    BY <1>1, <1>3, <1>4, <2>1, <2>2, <2>3 DEF ListOK, Listed
  <2>5. time[n] \in Nat /\ time[N1] \in Nat /\ (N2 # NULL => time[N2] \in Nat)
    BY <1>1 DEF Types
  <2>6. \A m : m = n => Ends(m)' = Ends(at) + time[n]
    BY <1>1, <1>3, <1>4, <2>1, <2>2 DEF Ends
  <2>7. \A m \in Listed :
           Ends(m)' = IF at = N1 /\ m # N1 THEN Ends(m) + time[n] ELSE Ends(m)
    BY <1>1, <1>3, <1>4, <2>1, <2>2, <2>5 DEF Ends, Listed
  <2> QED BY <1>1, <1>2, <1>3, <1>4, <2>1, <2>2, <2>4, <2>6, <2>7
<1>5. CASE at = N2 /\ N2 # NULL
  <2>1. N2' = N2 /\ at # N1
    BY <1>1, <1>2, <1>3, <1>5 DEF N2, After, ListOK
  <2>2. N3' = n /\ next'[n] = NULL
    BY <1>1, <1>2, <1>5, <2>1 DEF N3, After
  <2>3. ListOK' /\ Listed' = Listed \cup {n}
    BY <1>1, <1>3, <1>5, <2>1, <2>2 DEF ListOK, Listed
  <2>4. \A m : m = n => Ends(m)' = Ends(at) + time[n]
    BY <1>1, <1>3, <1>5, <2>1, <2>2 DEF Ends
  <2>5. \A m \in Listed :
           Ends(m)' = IF at = N1 /\ m # N1 THEN Ends(m) + time[n] ELSE Ends(m)
    BY <1>1, <1>3, <1>5, <2>1, <2>2 DEF Ends, Listed
  <2> QED BY <1>1, <1>2, <1>3, <1>5, <2>1, <2>2, <2>3, <2>4, <2>5
<1> QED BY <1>1, <1>4, <1>5

LEMMA SameOrder ==
  ASSUME Interval' = Interval, pc'["input"] = pc["input"],
         timeout'["input"] = timeout["input"], t'["input"] = t["input"],
         Holds("input") => /\ time'[timeout["input"]] = time[timeout["input"]]
                           /\ next'[timeout["input"]] = next[timeout["input"]]
                           /\ \A m, n \in Structs \ {timeout["input"]} :
                                m # n /\ Before(m, n) => Before(m, n)',
         InputOK(timeout["input"], t["input"])
  PROVE  InputOK(timeout["input"], t["input"])'
<1>1. CASE ~Holds("input")
  BY <1>1 DEF InputOK, Holds, Inserting
<1>2. CASE Holds("input")
  <2>1. \A n \in Structs \ {timeout["input"]} :
          (Leads(n) => Leads(n)') /\ (Trails(n) => Trails(n)')
    BY <1>2 DEF Leads, Trails
  <2> QED BY <1>2, <2>1 DEF InputOK
<1> QED BY <1>1, <1>2

LEMMA Link4OK ==
  ASSUME IInv, UNCHANGED setting, Behind("tcpip"), pc["tcpip"] = "link4"
  PROVE  IInv'
<1> DEFINE n == timeout["tcpip"]
           at == t["tcpip"]
<1>1. /\ Goto("tcpip", "again") /\ Rest("tcpip") = "again"
      /\ due' = [due EXCEPT ![handler["tcpip"]] = Interval[handler["tcpip"]]]
      /\ next' = [next EXCEPT ![at] = n]
      /\ next_timeout' = next_timeout /\ time' = time /\ h' = h
      /\ memp' = memp /\ tcpip_tcp_timer_active' = tcpip_tcp_timer_active
      /\ pcbs' = pcbs /\ mbox' = mbox /\ asked' = asked /\ wait' = wait
      /\ handler' = handler /\ timeout' = timeout /\ t' = t
      /\ setting' = setting
  BY DEF Behind, tcpVars, sleepVars, localVars, Linked, Rest
<1>2. TypeOK /\ ListOK /\ PoolOK /\ TimersOK /\ TimesOK /\ UseOK
      /\ InsertOK(timeout["tcpip"], t["tcpip"])
  BY DEF IInv
<1>3. Types
  BY <1>2, TypesHold
<1>4. /\ Holds("tcpip") /\ "tcpip" \in Threads /\ "input" \in Threads
      /\ "again" \in Places
  BY DEF Holds, Inserting, Threads, Places
<1>5. /\ n \in Structs /\ n \notin Listed /\ time[n] \in Nat
      /\ at \in Listed /\ next[n] = next[at]
      /\ time[n] + Ends(at) = Interval[h[n]]
  BY <1>2, <1>4, HoldsOne DEF InsertOK
<1>6. /\ pc' \in [Threads -> Places] /\ pc'["tcpip"] = "again"
      /\ pc'["input"] = pc["input"]
  BY <1>1, <1>2, <1>4, GotoPc DEF Threads
<1>7. /\ ListOK' /\ Listed' = Listed \cup {n} /\ next' \in [Structs -> Pointers]
      /\ N1' = N1 /\ N3 = NULL
      /\ \/ at = N1 /\ N2' = n /\ N3' = N2
         \/ at = N2 /\ at # N1 /\ N2' = N2 /\ N3' = n
      /\ \A m : m = n => Ends(m)' = Ends(at) + time[n]
      /\ \A m \in Listed :
           Ends(m)' = IF at = N1 /\ m # N1 THEN Ends(m) + time[n] ELSE Ends(m)
  BY <1>1, <1>2, <1>3, <1>5, LinkedBehind
<1>8. /\ PoolOK' /\ TimersOK'
      /\ due' \in [Timers -> Int] /\ due'[h[n]] = Interval[h[n]]
      /\ \A m \in Listed : due'[h[m]] = due[h[m]]
      /\ \A timer \in Timers : due[timer] >= 0 => due'[timer] >= 0
  <2>1. \A other \in Threads \ {"tcpip"} : pc'[other] = pc[other]
    BY <1>6 DEF Threads
  <2> QED BY <1>1, <1>2, <1>3, <1>4, <1>6, <1>7, <2>1, LinkedOne DEF Types
<1>9. TypeOK' /\ Interval' = Interval /\ MaxMsgs' = MaxMsgs
  BY <1>1, <1>2, <1>6, <1>7, <1>8 DEF TypeOK, Places, MaxMsgs, Interval
<1>10. /\ \A m \in Listed : Ends(m)' = Ends(m) + Taken(m)
       /\ \A m : m = n => Ends(m)' = Interval[h[m]]
  <2>1. \A m \in Listed : Taken(m) = IF at = N1 /\ m # N1 THEN time[n] ELSE 0
    BY DEF Taken
  <2>2. \A m \in Listed : Ends(m) \in Nat
    BY <1>3 DEF Types
  <2> QED BY <1>5, <1>7, <2>1, <2>2
<1>11. \A m \in Listed' : /\ Ends(m)' \in Int /\ due'[h[m]] \in Int /\ Taken(m)' = 0
                          /\ Ends(m)' <= Interval[h[m]] /\ Ends(m)' <= due'[h[m]]
  <2>1. \A m \in Listed' : h[m] \in Timers /\ due'[h[m]] \in Int /\ Interval[h[m]] \in Nat
    BY <1>3, <1>5, <1>7, <1>8 DEF Types
  <2>2. \A m : Taken(m)' = 0
    BY <1>6 DEF Taken
  <2>3. \A m \in Listed : /\ Ends(m) + Taken(m) <= Interval[h[m]]
                          /\ Ends(m) + Taken(m) <= due[h[m]]
    <3>1. Slept = 0
      BY DEF Slept
    <3>2. \A m \in Listed : due[h[m]] \in Int
      BY <1>2, <1>3 DEF Types, TypeOK
    <3> QED BY <1>2, <3>1, <3>2 DEF TimesOK
  <2>4. \A m \in Listed : Ends(m)' \in Int
    BY <1>3, <1>5, <1>7 DEF Types
  <2> QED BY <1>7, <1>8, <1>10, <2>1, <2>2, <2>3, <2>4
<1>12. TimesOK'
  <2>1. \A timer \in Timers : due'[timer] >= 0
    BY <1>2, <1>8 DEF TimesOK
  <2>2. Slept' = 0
    BY <1>6 DEF Slept
  <2>3. \A m \in Listed' : /\ Ends(m)' + Taken(m)' <= Interval[h[m]]
                           /\ Ends(m)' + Taken(m)' <= Slept' + due'[h[m]]
    BY <1>11, <2>2
  <2> QED BY <1>1, <1>6, <1>9, <2>1, <2>3 DEF TimesOK
<1>13. InsertOK(timeout["tcpip"], t["tcpip"])'
  BY <1>6 DEF InsertOK
<1>14. CASE Alone /\ pc["input"] = "out"
  <2>1. UseOK'
    BY <1>1, <1>6, <1>14 DEF UseOK, Alone, Registrars
  <2> QED BY <1>7, <1>8, <1>9, <1>12, <1>13, <2>1 DEF IInv
<1>15. CASE InStep /\ InStepOK
  <2>1. \A m \in Listed' : Ends(m)' \in {0, Interval[h[m]]}
    <3>1. \A m \in Listed : Interval[h[m]] = Interval[h[n]] /\ Interval[h[n]] \in Nat
      BY <1>3, <1>5, <1>15 DEF InStep, Types
    <3>2. \A m \in Listed : Ends(m) \in {0, Interval[h[m]]}
      BY <1>15 DEF InStepOK
    <3>3. ASSUME NEW m \in Listed, at = N1, m # N1 PROVE Ends(m)' = Interval[h[m]]
      <4>1. m = N2 /\ N2 # NULL /\ Ends(m) = Ends(N1) + time[m] /\ time[m] \in Nat
            /\ Ends(N1) \in Nat
        BY <1>3, <1>5, <1>7, <3>3 DEF Types, Listed
      <4>2. Ends(m)' = Interval[h[n]] + time[m]
        BY <1>5, <1>7, <3>3, <4>1
      <4>3. Ends(m)' <= Interval[h[n]]
        BY <1>7, <1>11, <3>1
      <4> QED BY <3>1, <4>1, <4>2, <4>3
    <3>4. \A m \in Listed : ~(at = N1 /\ m # N1) => Ends(m)' = Ends(m)
      BY <1>7
    <3> QED BY <1>7, <1>10, <3>2, <3>3, <3>4
  <2>2. InputOK(timeout["input"], t["input"])'
    <3> DEFINE ti == timeout["input"]
    <3>1. ASSUME Holds("input")
          PROVE  /\ next'[ti] = next[ti]
                 /\ \A m, k \in Structs \ {ti} : m # k /\ Before(m, k) => Before(m, k)'
      <4>1. ti \in Structs /\ ti \notin Listed /\ ti # n
        BY <1>2, <1>4, <3>1 DEF PoolOK
      <4>2. N2 = NULL /\ Structs = {N1, n, ti} /\ N1 # n /\ at = N1 /\ Listed = {N1}
            /\ N1 # ti /\ N1 # NULL /\ n # NULL
        <5>1. N1 \in Structs /\ N1 \in Listed /\ Structs = {1, 2, 3} /\ NULL \notin Structs
          BY <1>3 DEF Types, Listed
        <5>2. N1 # ti /\ N1 # n
          BY <1>5, <4>1, <5>1
        <5>3. Structs = {N1, n, ti}
          BY <1>5, <4>1, <5>1, <5>2
        <5>4. N2 = NULL
          BY <1>2, <1>3, <1>5, <4>1, <5>3 DEF Types, Listed, ListOK
        <5> QED BY <1>5, <1>7, <5>1, <5>2, <5>3, <5>4 DEF Listed
      <4>3. next'[ti] = next[ti]
        BY <1>1, <4>1, <4>2
      <4>4. N1' = N1 /\ N2' = n /\ Listed' = {N1, n}
        BY <1>7, <4>2
      <4>5. Ends(N1) \in Nat /\ Interval[h[n]] > 0
        BY <1>3, <1>5, <4>2 DEF Types
      <4>6. \A m : (m = N1 => Ends(m)' = Ends(m)) /\ (m = n => Ends(m)' > 0)
        BY <1>7, <1>10, <4>2, <4>5
      <4>7. (Renewed(n))' /\ ~Renewed(n) /\ (Renewed(N1)' <=> Renewed(N1))
        <5>1. \A m : (m = N1 => (Renewed(m)' <=> Renewed(m))) /\ (m = n => Renewed(m)')
          BY <4>2, <4>4, <4>6 DEF Renewed
        <5>2. Renewed(n)'
          BY <1>1, <5>1 DEF Renewed
        <5>3. Renewed(N1)' <=> Renewed(N1)
          BY <1>7, <5>1 DEF Renewed
        <5> QED BY <1>5, <5>2, <5>3 DEF Renewed
      <4>8. \A m, k \in {N1, n} : m # k /\ Before(m, k) => Before(m, k)'
        <5>1. ASSUME Before(N1, n) PROVE Renewed(N1)
          BY <4>2, <4>7, <5>1 DEF Before
        <5>2. ASSUME Before(n, N1) PROVE ~Renewed(N1)
          BY <4>2, <4>7, <5>2 DEF Before
        <5>3. \A m, k : m = N1 /\ k = n /\ Renewed(N1) => Before(m, k)'
          BY <1>1, <1>7, <4>4, <4>7 DEF Before, Renewed
        <5>4. \A m, k : m = n /\ k = N1 /\ ~Renewed(N1) => Before(m, k)'
          BY <1>1, <1>7, <4>4, <4>7 DEF Before, Renewed
        <5> QED BY <5>1, <5>2, <5>3, <5>4
      <4> QED BY <4>2, <4>3, <4>8
    <3> QED BY <1>1, <1>6, <1>9, <1>15, <3>1, SameOrder DEF InStepOK
  <2>3. InStep'
    BY <1>9, <1>15 DEF InStep
  <2>4. InStepOK'
    BY <1>1, <1>6, <1>9, <1>15, <2>1, <2>2 DEF InStepOK
  <2>5. UseOK'
    BY <2>3, <2>4 DEF UseOK
  <2> QED BY <1>7, <1>8, <1>9, <1>12, <1>13, <2>5 DEF IInv
<1> QED BY <1>2, <1>14, <1>15 DEF UseOK

-----------------------------------------------------------------------------
(* memp_malloc.  The pool has a struct for every timer, so it never fails.  *)

LEMMA PoolNotEmpty ==
  ASSUME TypeOK, ListOK, PoolOK, TimersOK, NEW th \in Threads, pc[th] = "malloc"
  PROVE  /\ memp # <<>> /\ Len(memp) \in Nat /\ Len(memp) > 0
         /\ Head(memp) = memp[1] /\ Head(memp) \in Structs
         /\ Head(memp) \notin Listed \cup InHand
<1>1. Types
  BY TypesHold
<1>2. Starting(th) /\ ~Holds(th) /\ handler[th] \in Timers
  BY DEF Starting, Holds, Inserting, TypeOK
<1>3. PICK other : Threads = {th, other} /\ other # th
  BY DEF Threads
<1>4. \A n \in Listed : h[n] # handler[th]
  BY <1>2 DEF TimersOK, Running, Started
<1>5. Holds(other) => /\ h[timeout[other]] = handler[other]
                      /\ handler[other] # handler[th]
                      /\ \A n \in Listed : h[n] # handler[other]
  <2>1. Holds(other) => Starting(other)
    BY DEF Starting, Holds
  <2>2. \A n \in Listed : Holds(other) => h[n] # handler[other]
    <3>1. handler[other] \in Timers
      BY <1>3 DEF TypeOK
    <3> QED BY <1>3, <2>1, <3>1 DEF TimersOK, Running, Started
  <2>3. Holds(other) => handler[other] # handler[th]
    BY <1>2, <1>3, <2>1 DEF TimersOK, Threads
  <2> QED BY <1>3, <2>2, <2>3 DEF TimersOK
<1>6. InHand = IF Holds(other) THEN {timeout[other]} ELSE {}
  BY <1>2, <1>3 DEF InHand, Holds
<1>7. \E n \in Structs : n \notin Listed \cup InHand
  <2>. SUFFICES ASSUME \A n \in Structs : n \in Listed \cup InHand PROVE FALSE
    OBVIOUS
  <2>1. \A m, n \in Structs : h[m] = h[n] => m = n
    BY <1>5, <1>6 DEF TimersOK
  <2>2. \A n \in Structs : h[n] # handler[th] /\ h[n] \in Timers
    BY <1>1, <1>4, <1>5, <1>6 DEF Types
  <2>3. h[1] # h[2] /\ h[1] # h[3] /\ h[2] # h[3] /\ \A n \in {1, 2, 3} : h[n] \in Timers
    BY <1>1, <2>1, <2>2 DEF Types
  <2>4. handler[th] \in {h[1], h[2], h[3]}
    BY <1>2, <2>3 DEF Timers
  <2> QED BY <1>1, <2>2, <2>4 DEF Types
<1>8. \E i \in 1 .. Len(memp) : TRUE
  BY <1>7 DEF PoolOK
<1>9. memp \in Seq(Structs) /\ Len(memp) \in Nat
  BY DEF PoolOK
<1>10. Len(memp) > 0
  BY <1>8, <1>9
<1>11. memp # <<>> /\ Head(memp) = memp[1] /\ memp[1] \in Structs
  BY <1>9, <1>10
<1>12. memp[1] \notin Listed \cup InHand
  BY <1>9, <1>10, <1>11 DEF PoolOK
<1> QED BY <1>9, <1>10, <1>11, <1>12

LEMMA MallocOne ==
  ASSUME TypeOK, ListOK, PoolOK, TimersOK, UNCHANGED setting,
         NEW th \in Threads, Malloc(th)
  PROVE  /\ TypeOK' /\ ListOK' /\ PoolOK' /\ TimersOK'
         /\ N1' = N1 /\ N2' = N2 /\ N3' = N3
         /\ pc'[th] = "first" /\ \A other \in Threads \ {th} : pc'[other] = pc[other]
         /\ next_timeout' = next_timeout /\ mbox' = mbox /\ asked' = asked
         /\ wait' = wait /\ handler' = handler /\ t' = t /\ due' = due
         /\ \A n \in Listed \cup InHand :
              next'[n] = next[n] /\ h'[n] = h[n] /\ time'[n] = time[n]
         /\ time'[timeout'[th]] = Interval[handler[th]]
         /\ h'[timeout'[th]] = handler[th]
         /\ \A other \in Threads \ {th} : timeout'[other] = timeout[other]
<1> DEFINE n == Head(memp)
<1>1. Types
  BY TypesHold
<1>2. pc[th] = "malloc"
  BY DEF Malloc
<1>3. /\ memp # <<>> /\ Len(memp) \in Nat /\ Len(memp) > 0
      /\ n = memp[1] /\ n \in Structs /\ n \notin Listed /\ n \notin InHand
  BY <1>2, PoolNotEmpty
<1>4. /\ next_timeout' = next_timeout /\ mbox' = mbox /\ asked' = asked
      /\ tcpip_tcp_timer_active' = tcpip_tcp_timer_active /\ pcbs' = pcbs
      /\ wait' = wait /\ handler' = handler /\ t' = t /\ due' = due
      /\ memp' = Tail(memp)
      /\ next' = [next EXCEPT ![n] = NULL]
      /\ h' = [h EXCEPT ![n] = handler[th]]
      /\ time' = [time EXCEPT ![n] = Interval[handler[th]]]
      /\ timeout' = [timeout EXCEPT ![th] = n]
      /\ Goto(th, "first")
  BY <1>3 DEF Malloc, tcpVars, sleepVars
<1>5. /\ pc' \in [Threads -> Places] /\ pc'[th] = "first"
      /\ \A other \in Threads \ {th} : pc'[other] = pc[other]
  <2>1. "first" \in Places
    BY DEF Places, Inserting
  <2> QED BY <1>4, <2>1, GotoPc
<1>6. handler[th] \in Timers /\ timeout \in [Threads -> Pointers]
  BY DEF TypeOK
<1>7. /\ timeout' \in [Threads -> Pointers] /\ timeout'[th] = n
      /\ \A other \in Threads \ {th} : timeout'[other] = timeout[other]
  BY <1>3, <1>4, <1>6 DEF Pointers
<1>8. Interval[handler[th]] \in 0 .. Word - 1
  <2>1. Interval[handler[th]] \in Nat /\ 2 * Interval[handler[th]] < Word /\ Word \in Nat
    BY <1>1, <1>6 DEF Types
  <2> QED BY <2>1
<1>9. /\ next' \in [Structs -> Pointers] /\ time' \in [Structs -> 0 .. Word - 1]
      /\ h' \in [Structs -> Timers]
      /\ time'[n] = Interval[handler[th]] /\ h'[n] = handler[th]
      /\ \A m \in Structs \ {n} : next'[m] = next[m] /\ h'[m] = h[m] /\ time'[m] = time[m]
  BY <1>1, <1>3, <1>4, <1>6, <1>8 DEF Types, Pointers
<1>10. InHand \subseteq Structs
  BY DEF InHand, PoolOK, Holds
<1>11. \A m \in Listed \cup InHand :
         next'[m] = next[m] /\ h'[m] = h[m] /\ time'[m] = time[m]
  BY <1>1, <1>3, <1>9, <1>10 DEF Types
<1>12. N1' = N1 /\ N2' = N2 /\ N3' = N3 /\ Listed' = Listed /\ ListOK'
  BY <1>4, <1>11, SameList
<1>13. /\ memp' \in Seq(Structs) /\ Len(memp') = Len(memp) - 1
       /\ \A i \in 1 .. Len(memp') : memp'[i] = memp[i + 1]
  BY <1>3, <1>4 DEF PoolOK
<1>14. TypeOK'
  <2>1. Range(memp') \subseteq Structs
    BY <1>13 DEF Range
  <2> QED BY <1>4, <1>5, <1>7, <1>9, <2>1 DEF TypeOK, Places, MaxMsgs
<1>15. PICK other : Threads = {th, other} /\ other # th
  BY DEF Threads
<1>16. /\ ~Holds(th) /\ Starting(th) /\ Holds(th)' /\ Starting(th)'
       /\ (Holds(other)' <=> Holds(other)) /\ (Starting(other)' <=> Starting(other))
  BY <1>2, <1>5, <1>15 DEF Holds, Starting, Inserting
<1>17. InHand' = InHand \cup {n}
  <2>1. InHand = {timeout[x] : x \in {x \in Threads : Holds(x)}}
    BY DEF InHand, Holds
  <2>2. InHand' = {timeout'[x] : x \in {x \in Threads : Holds(x)'}}
    BY DEF InHand, Holds
  <2>3. InHand = IF Holds(other) THEN {timeout[other]} ELSE {}
    BY <1>15, <1>16, <2>1
  <2>4. InHand' = {n} \cup IF Holds(other) THEN {timeout[other]} ELSE {}
    BY <1>7, <1>15, <1>16, <2>2
  <2> QED BY <2>3, <2>4
<1>18. PoolOK'
  <2>1. \A i, j \in 1 .. Len(memp') : memp'[i] = memp'[j] => i = j
    <3>. SUFFICES ASSUME NEW i \in 1 .. Len(memp'), NEW j \in 1 .. Len(memp'),
                         memp'[i] = memp'[j]
                  PROVE  i = j
      OBVIOUS
    <3>1. i + 1 \in 1 .. Len(memp) /\ j + 1 \in 1 .. Len(memp) /\ memp[i + 1] = memp[j + 1]
      BY <1>3, <1>13
    <3>2. i + 1 = j + 1
      BY <3>1 DEF PoolOK
    <3> QED BY <1>3, <1>13, <3>2
  <2>2. \A m \in Structs :
          (\E i \in 1 .. Len(memp') : memp'[i] = m) <=> m \notin Listed' \cup InHand'
    <3>. SUFFICES ASSUME NEW m \in Structs
                  PROVE  (\E i \in 1 .. Len(memp') : memp'[i] = m)
                            <=> m \notin Listed \cup InHand \cup {n}
      BY <1>12, <1>17
    <3>1. ASSUME NEW i \in 1 .. Len(memp'), memp'[i] = m
          PROVE  m \notin Listed \cup InHand /\ m # n
      <4>1. i + 1 \in 1 .. Len(memp) /\ memp[i + 1] = m /\ 1 \in 1 .. Len(memp) /\ i + 1 # 1
        BY <1>3, <1>13, <3>1
      <4> QED BY <1>3, <4>1 DEF PoolOK
    <3>2. ASSUME m \notin Listed \cup InHand, m # n
          PROVE  \E i \in 1 .. Len(memp') : memp'[i] = m
      <4>1. PICK i \in 1 .. Len(memp) : memp[i] = m
        BY <3>2 DEF PoolOK
      <4>2. i # 1
        BY <1>3, <3>2, <4>1
      <4>3. i - 1 \in 1 .. Len(memp') /\ memp'[i - 1] = memp[(i - 1) + 1] /\ (i - 1) + 1 = i
        BY <1>3, <1>13, <4>1, <4>2
      <4> QED BY <4>1, <4>3
    <3> QED BY <3>1, <3>2
  <2>3. Holds(other) => timeout[other] \in InHand /\ timeout[other] \in Structs \ Listed
    BY <1>15 DEF InHand, Holds, PoolOK
  <2>4. (\A x \in Threads : Holds(x) => timeout[x] \in Structs \ Listed)'
    BY <1>3, <1>7, <1>12, <1>15, <1>16, <2>3
  <2>5. Holds(th)' /\ Holds(other)' => timeout'[th] # timeout'[other]
    BY <1>3, <1>7, <1>15, <1>16, <2>3
  <2>6. (Holds("tcpip") /\ Holds("input") => timeout["tcpip"] # timeout["input"])'
    BY <1>15, <2>5 DEF Threads
  <2> QED BY <1>13, <2>1, <2>2, <2>4, <2>6 DEF PoolOK
<1>19. TimersOK'
  <2>1. \A x \in Threads : /\ Starting(x)' <=> Starting(x)
                           /\ handler'[x] = handler[x]
    BY <1>4, <1>15, <1>16
  <2>2. (\A x, y \in Listed : h[x] = h[y] => x = y)'
    BY <1>11, <1>12 DEF TimersOK
  <2>3. /\ (\A timer \in Timers : ~(Running(timer) /\ Started(timer)))'
        /\ (\A timer \in {"ip", "arp"} : Running(timer) \/ Started(timer))'
    BY <1>11, <1>12, <2>1 DEF TimersOK, Running, Started
  <2>4. (tcpip_tcp_timer_active <=> Running("tcp") \/ Started("tcp"))'
    BY <1>4, <1>11, <1>12, <2>1 DEF TimersOK, Running, Started
  <2>5. Holds(other) => /\ h[timeout[other]] = handler[other]
                        /\ timeout[other] \in InHand
    BY <1>15 DEF TimersOK, InHand, Holds
  <2>6. \A x \in Threads : Holds(x)' => h'[timeout'[x]] = handler'[x]
    BY <1>4, <1>7, <1>9, <1>11, <1>15, <1>16, <2>5
  <2>7. /\ Starting("input")' => handler'["input"] = "tcp"
        /\ Starting("input")' /\ Starting("tcpip")' => handler'["tcpip"] # "tcp"
    BY <2>1 DEF TimersOK, Threads
  <2> QED BY <2>2, <2>3, <2>4, <2>6, <2>7 DEF TimersOK
<1> QED BY <1>4, <1>5, <1>7, <1>9, <1>11, <1>12, <1>14, <1>18, <1>19

LEMMA MallocOK == ASSUME IInv, UNCHANGED setting, Malloc("tcpip") PROVE IInv'
<1>1. TypeOK /\ ListOK /\ PoolOK /\ TimersOK /\ TimesOK /\ UseOK
  BY DEF IInv
<1>2. Types /\ "tcpip" \in Threads /\ "input" \in Threads /\ pc["tcpip"] = "malloc"
  BY <1>1, TypesHold DEF Threads, Malloc
<1>3. /\ TypeOK' /\ ListOK' /\ PoolOK' /\ TimersOK'
      /\ N1' = N1 /\ N2' = N2 /\ N3' = N3
      /\ pc'["tcpip"] = "first" /\ pc'["input"] = pc["input"]
      /\ mbox' = mbox /\ asked' = asked
      /\ wait' = wait /\ handler' = handler /\ t' = t /\ due' = due
      /\ \A n \in Listed \cup InHand :
           next'[n] = next[n] /\ h'[n] = h[n] /\ time'[n] = time[n]
      /\ time'[timeout'["tcpip"]] = Interval[handler["tcpip"]]
      /\ h'[timeout'["tcpip"]] = handler["tcpip"]
      /\ timeout'["input"] = timeout["input"]
  BY <1>1, <1>2, MallocOne DEF Threads
<1>4. Listed' = Listed /\ Interval' = Interval
  BY <1>3 DEF Listed, Interval
<1>5. \A n \in Listed : Ends(n)' = Ends(n)
  BY <1>1, <1>3, SameEnds
<1>6. TimesOK'
  <2>1. Slept = 0 /\ Slept' = 0 /\ \A n : Taken(n) = 0 /\ Taken(n)' = 0
    BY <1>2, <1>3 DEF Slept, Taken
  <2>2. \A n \in Listed : /\ Ends(n) + Taken(n) <= Interval[h[n]]
                          /\ Ends(n) + Taken(n) <= Slept + due[h[n]]
    BY <1>1 DEF TimesOK
  <2>3. \A n \in Listed' : /\ Ends(n)' + Taken(n)' <= Interval'[h'[n]]
                           /\ Ends(n)' + Taken(n)' <= Slept' + due'[h'[n]]
    BY <1>3, <1>4, <1>5, <2>1, <2>2
  <2> QED BY <1>1, <1>3, <2>3 DEF TimesOK
<1>7. InsertOK(timeout["tcpip"], t["tcpip"])'
  BY <1>3, <1>4 DEF InsertOK
<1>8. UseOK'
  <2>1. Holds("input") => timeout["input"] \in InHand
    BY <1>2 DEF Holds, InHand
  <2> QED BY <1>1, <1>3, <1>5, <2>1, SameUse
<1> QED BY <1>3, <1>6, <1>7, <1>8 DEF IInv

-----------------------------------------------------------------------------
(* Connections, and tcpip_thread in sys_timeouts_mbox_fetch.                *)

\* A step that leaves the list and the pool alone and puts no thread in
\* sys_timeout with a struct or without.
LEMMA SamePlaces ==
  ASSUME TypeOK, ListOK, PoolOK, TimersOK,
         next_timeout' = next_timeout, next' = next, h' = h, memp' = memp,
         tcpip_tcp_timer_active' = tcpip_tcp_timer_active,
         handler' = handler, timeout' = timeout,
         \A th \in Threads : (Holds(th)' <=> Holds(th)) /\ (Starting(th)' <=> Starting(th))
  PROVE  /\ N1' = N1 /\ N2' = N2 /\ N3' = N3 /\ Listed' = Listed
         /\ ListOK' /\ PoolOK' /\ TimersOK'
<1>1. N1' = N1 /\ N2' = N2 /\ N3' = N3 /\ Listed' = Listed /\ ListOK'
  BY SameList
<1> QED BY <1>1, SameHands

LEMMA HandleMessageOK ==
  ASSUME IInv, UNCHANGED setting, HandleMessage PROVE IInv'
<1>1. /\ pc["tcpip"] = "message"
      /\ next_timeout' = next_timeout /\ next' = next /\ time' = time /\ h' = h
      /\ memp' = memp /\ tcpip_tcp_timer_active' = tcpip_tcp_timer_active
      /\ mbox' = mbox /\ asked' = asked /\ wait' = wait
      /\ handler' = handler /\ timeout' = timeout /\ t' = t /\ due' = due
      /\ setting' = setting
  BY DEF HandleMessage, listVars, sleepVars, localVars
<1>2. TypeOK /\ ListOK /\ PoolOK /\ TimersOK /\ TimesOK /\ UseOK
  BY DEF IInv
<1>3. PICK registers \in BOOLEAN :
        /\ pcbs' = (pcbs \/ registers)
        /\ Goto("tcpip", IF registers THEN "needed" ELSE "again")
  BY DEF HandleMessage
<1>4. /\ pc' \in [Threads -> Places] /\ pc'["tcpip"] \in {"needed", "again"}
      /\ pc'["input"] = pc["input"] /\ pcbs' \in BOOLEAN
  <2>1. /\ "tcpip" \in Threads /\ "needed" \in Places /\ "again" \in Places
    BY DEF Threads, Places
  <2>2. (IF registers THEN "needed" ELSE "again") \in Places
    BY <2>1
  <2> QED BY <1>2, <1>3, <2>1, <2>2, GotoPc DEF Threads
<1>5. \A th \in Threads : (Holds(th)' <=> Holds(th)) /\ (Starting(th)' <=> Starting(th))
  BY <1>1, <1>4 DEF Threads, Holds, Starting, Inserting
<1>6. /\ N1' = N1 /\ N2' = N2 /\ N3' = N3 /\ Listed' = Listed
      /\ ListOK' /\ PoolOK' /\ TimersOK'
  BY <1>1, <1>2, <1>5, SamePlaces
<1>7. \A n \in Listed : Ends(n)' = Ends(n)
  BY <1>1, <1>2, <1>6, SameEnds
<1>8. TypeOK' /\ Interval' = Interval
  BY <1>1, <1>2, <1>4 DEF TypeOK, Places, MaxMsgs, Interval
<1>9. TimesOK'
  <2>1. Slept' = Slept /\ \A n \in Listed : Taken(n)' = Taken(n)
    BY <1>1, <1>4 DEF Slept, Taken
  <2> QED BY <1>1, <1>2, <1>4, <1>6, <1>7, <1>8, <2>1 DEF TimesOK
<1>10. InsertOK(timeout["tcpip"], t["tcpip"])'
  BY <1>4 DEF InsertOK
<1>11. UseOK'
  <2>1. ~(InStep /\ InStepOK)
    BY <1>1 DEF InStepOK
  <2> QED BY <1>1, <1>2, <1>4, <2>1 DEF UseOK, Alone, Registrars
<1> QED BY <1>6, <1>8, <1>9, <1>10, <1>11 DEF IInv

\* tcp_timer_needed, in either thread.
LEMMA TimerNeededOne ==
  ASSUME TypeOK, ListOK, PoolOK, TimersOK, UNCHANGED setting,
         NEW th \in Threads, TimerNeeded(th)
  PROVE  /\ pc[th] = "needed" /\ pc'[th] \in {Rest(th), "malloc"}
         /\ \A other \in Threads \ {th} : pc'[other] = pc[other]
         /\ next_timeout' = next_timeout /\ next' = next /\ time' = time /\ h' = h
         /\ mbox' = mbox /\ asked' = asked /\ wait' = wait
         /\ timeout' = timeout /\ t' = t /\ due' = due
         /\ N1' = N1 /\ N2' = N2 /\ N3' = N3 /\ Listed' = Listed
         /\ TypeOK' /\ ListOK' /\ PoolOK' /\ TimersOK'
<1>1. /\ pc[th] = "needed"
      /\ next_timeout' = next_timeout /\ next' = next /\ time' = time /\ h' = h
      /\ memp' = memp /\ pcbs' = pcbs
      /\ mbox' = mbox /\ asked' = asked /\ wait' = wait
      /\ timeout' = timeout /\ t' = t /\ due' = due /\ setting' = setting
  BY DEF TimerNeeded, listVars, sleepVars
<1>2. PICK other : Threads = {th, other} /\ other # th
  BY DEF Threads
<1>3. "malloc" \in Places /\ Rest(th) \in Places /\ Rest(th) # "malloc"
      /\ Rest(th) \notin Inserting /\ "malloc" \notin Inserting /\ "needed" \notin Inserting
  BY DEF Places, Rest, Inserting
<1>4. Types
  BY TypesHold
<1>5. ~Holds(th) /\ ~Starting(th)
  BY <1>1, <1>3 DEF Holds, Starting
<1>6. N1' = N1 /\ N2' = N2 /\ N3' = N3 /\ Listed' = Listed /\ ListOK'
  BY <1>1, SameList
<1>7. CASE /\ tcpip_tcp_timer_active' = tcpip_tcp_timer_active /\ handler' = handler
           /\ Goto(th, Rest(th))
  <2>1. /\ pc' \in [Threads -> Places] /\ pc'[th] = Rest(th)
        /\ \A x \in Threads \ {th} : pc'[x] = pc[x]
    BY <1>3, <1>7, GotoPc
  <2>2. TypeOK'
    BY <1>1, <1>7, <2>1 DEF TypeOK, Places, MaxMsgs
  <2>3. \A x \in Threads : (Holds(x)' <=> Holds(x)) /\ (Starting(x)' <=> Starting(x))
    BY <1>2, <1>3, <1>5, <2>1 DEF Holds, Starting
  <2>4. PoolOK' /\ TimersOK'
    BY <1>1, <1>6, <1>7, <2>3, SameHands
  <2> QED BY <1>1, <1>6, <2>1, <2>2, <2>4
<1>8. CASE /\ ~tcpip_tcp_timer_active /\ tcpip_tcp_timer_active' = TRUE
           /\ handler' = [handler EXCEPT ![th] = "tcp"] /\ Goto(th, "malloc")
  <2>1. /\ pc' \in [Threads -> Places] /\ pc'[th] = "malloc"
        /\ \A x \in Threads \ {th} : pc'[x] = pc[x]
    BY <1>3, <1>8, GotoPc
  <2>2. /\ handler' \in [Threads -> Timers] /\ handler'[th] = "tcp"
        /\ \A x \in Threads \ {th} : handler'[x] = handler[x]
    BY <1>8 DEF TypeOK, Timers
  <2>3. TypeOK'
    BY <1>1, <1>8, <2>1, <2>2 DEF TypeOK, Places, MaxMsgs
  <2>4. /\ ~Holds(th)' /\ Starting(th)'
        /\ (Holds(other)' <=> Holds(other)) /\ (Starting(other)' <=> Starting(other))
    BY <1>2, <1>3, <2>1 DEF Holds, Starting
  <2>5. \A x \in Threads : Holds(x)' <=> Holds(x)
    BY <1>2, <1>5, <2>4
  <2>6. PoolOK'
    <3>1. InHand' = InHand
      BY <1>1, <2>5 DEF InHand, Holds
    <3> QED BY <1>1, <1>6, <2>5, <3>1 DEF PoolOK, Threads
  <2>7. TimersOK'
    <3>1. ~Running("tcp") /\ ~Started("tcp")
      BY <1>8 DEF TimersOK
    <3>2. Starting(other) => handler[other] # "tcp"
      BY <1>2, <3>1 DEF Started
    <3>3. (\A m, n \in Listed : h[m] = h[n] => m = n)'
      BY <1>1, <1>6 DEF TimersOK
    <3>4. \A timer \in Timers : (Started(timer)' <=> Started(timer) \/ timer = "tcp")
      BY <1>2, <1>5, <2>2, <2>4 DEF Started
    <3>5. \A timer \in Timers : Running(timer)' <=> Running(timer)
      BY <1>1, <1>6 DEF Running
    <3>6. \A timer \in Timers : ~(Running(timer)' /\ Started(timer)')
      BY <3>1, <3>4, <3>5 DEF TimersOK
    <3>7. \A timer \in {"ip", "arp"} : Running(timer)' \/ Started(timer)'
      BY <3>4, <3>5 DEF TimersOK, Timers
    <3>8. tcpip_tcp_timer_active' <=> Running("tcp")' \/ Started("tcp")'
      BY <1>8, <3>4, <2>2, <2>4 DEF Timers, Started
    <3>9. \A x \in Threads : Holds(x)' => h'[timeout'[x]] = handler'[x]
      BY <1>1, <1>2, <2>2, <2>4 DEF TimersOK
    <3>10. /\ Starting("input")' => handler'["input"] = "tcp"
           /\ Starting("input")' /\ Starting("tcpip")' => handler'["tcpip"] # "tcp"
      BY <1>2, <2>2, <2>4, <3>2 DEF TimersOK, Threads
    <3> QED BY <3>3, <3>6, <3>7, <3>8, <3>9, <3>10 DEF TimersOK
  <2> QED BY <1>1, <1>6, <2>1, <2>3, <2>6, <2>7
<1> QED BY <1>7, <1>8 DEF TimerNeeded

LEMMA TimerNeededOK ==
  ASSUME IInv, UNCHANGED setting, TimerNeeded("tcpip") PROVE IInv'
<1>1. TypeOK /\ ListOK /\ PoolOK /\ TimersOK /\ TimesOK /\ UseOK
  BY DEF IInv
<1>2. /\ pc["tcpip"] = "needed" /\ pc'["tcpip"] \in {"again", "malloc"}
      /\ pc'["input"] = pc["input"]
      /\ next_timeout' = next_timeout /\ next' = next /\ time' = time /\ h' = h
      /\ mbox' = mbox /\ asked' = asked /\ wait' = wait
      /\ timeout' = timeout /\ t' = t /\ due' = due
      /\ N1' = N1 /\ N2' = N2 /\ N3' = N3 /\ Listed' = Listed
      /\ TypeOK' /\ ListOK' /\ PoolOK' /\ TimersOK'
  BY <1>1, TimerNeededOne DEF Threads, Rest
<1>3. \A n \in Listed : Ends(n)' = Ends(n)
  BY <1>1, <1>2, SameEnds
<1>4. Interval' = Interval
  BY DEF Interval
<1>5. TimesOK'
  <2>1. Slept' = Slept /\ \A n \in Listed : Taken(n)' = Taken(n)
    BY <1>2 DEF Slept, Taken
  <2> QED BY <1>1, <1>2, <1>3, <1>4, <2>1 DEF TimesOK
<1>6. InsertOK(timeout["tcpip"], t["tcpip"])'
  BY <1>2 DEF InsertOK
<1>7. UseOK'
  <2>1. ~(InStep /\ InStepOK)
    BY <1>2 DEF InStepOK
  <2> QED BY <1>1, <1>2, <2>1 DEF UseOK, Alone, Registrars
<1> QED BY <1>2, <1>5, <1>6, <1>7 DEF IInv

\* IP and ARP are in the list unless tcpip_thread is starting them.
LEMMA TwoListed ==
  ASSUME TypeOK, ListOK, TimersOK, ~Starting("tcpip")
  PROVE  N2 # NULL /\ N2 \in Structs /\ N2 # N1
<1>1. Types
  BY TypesHold
<1>2. Running("ip") /\ Running("arp")
  <2>1. ~Started("ip") /\ ~Started("arp")
    BY DEF Started, Threads, TimersOK
  <2> QED BY <2>1 DEF TimersOK
<1>3. PICK m \in Listed : h[m] = "ip"
  BY <1>2 DEF Running
<1>4. PICK n \in Listed : h[n] = "arp"
  BY <1>2 DEF Running
<1>5. m # n
  BY <1>3, <1>4
<1> QED BY <1>1, <1>5 DEF Types, Listed, ListOK

LEMMA ExpireOK == ASSUME IInv, UNCHANGED setting, Expire PROVE IInv'
<1>1. TypeOK /\ ListOK /\ PoolOK /\ TimersOK /\ TimesOK /\ UseOK
  BY DEF IInv
<1>2. Types
  BY <1>1, TypesHold
<1>3. /\ \/ pc["tcpip"] = "timedout"
         \/ pc["tcpip"] = "again" /\ time[N1] = 0
      /\ next_timeout' = next[N1] /\ memp' = <<N1>> \o memp
      /\ handler' = [handler EXCEPT !["tcpip"] = h[N1]]
      /\ pcbs' \in IF h[N1] = "tcp" THEN {pcbs, FALSE} ELSE {pcbs}
      /\ \/ /\ h[N1] = "tcp" /\ tcpip_tcp_timer_active' = FALSE
            /\ Goto("tcpip", "again")
         \/ /\ tcpip_tcp_timer_active' = tcpip_tcp_timer_active
            /\ Goto("tcpip", "malloc")
      /\ next' = next /\ time' = time /\ h' = h /\ mbox' = mbox
      /\ asked' = asked /\ wait' = wait /\ timeout' = timeout /\ t' = t /\ due' = due
      /\ setting' = setting
  BY DEF Expire, Free, TcpTimerOff, sleepVars, N1
<1>4. /\ "tcpip" \in Threads /\ "input" \in Threads /\ Threads = {"tcpip", "input"}
      /\ "again" \in Places /\ "malloc" \in Places
      /\ ~Starting("tcpip") /\ ~Holds("tcpip")
  BY <1>3 DEF Threads, Places, Starting, Holds, Inserting
<1>5. /\ pc' \in [Threads -> Places] /\ pc'["tcpip"] \in {"again", "malloc"}
      /\ pc'["input"] = pc["input"]
      /\ \/ /\ h[N1] = "tcp" /\ tcpip_tcp_timer_active' = FALSE
            /\ pc'["tcpip"] = "again"
         \/ /\ tcpip_tcp_timer_active' = tcpip_tcp_timer_active
            /\ pc'["tcpip"] = "malloc"
  BY <1>1, <1>3, <1>4, GotoPc
<1>6. N2 # NULL /\ N2 \in Structs /\ N2 # N1 /\ N1 \in Structs /\ N1 # NULL /\ N1 \in Listed
  BY <1>1, <1>2, <1>4, TwoListed DEF Types, Listed
<1>7. N1' = N2 /\ N2' = N3 /\ N3' = NULL
  BY <1>1, <1>2, <1>3, <1>6 DEF N1, N2, N3, After, ListOK
<1>8. Listed' = Listed \ {N1} /\ ListOK'
  BY <1>1, <1>2, <1>6, <1>7 DEF Listed, ListOK, Types
<1>9. h[N1] \in Timers /\ handler' \in [Threads -> Timers]
      /\ handler'["tcpip"] = h[N1] /\ handler'["input"] = handler["input"]
  BY <1>1, <1>2, <1>3, <1>4, <1>6 DEF Types, TypeOK
<1>10. /\ memp' \in Seq(Structs) /\ Len(memp) \in Nat /\ Len(memp') = Len(memp) + 1
       /\ memp'[1] = N1 /\ \A i \in 1 .. Len(memp) : memp'[i + 1] = memp[i]
  <2>1. memp \in Seq(Structs) /\ <<N1>> \in Seq(Structs) /\ Len(<<N1>>) = 1
    BY <1>1, <1>6 DEF PoolOK
  <2> QED BY <1>3, <2>1
<1>11. TypeOK' /\ Interval' = Interval /\ MaxMsgs' = MaxMsgs
  <2>1. Range(memp') \subseteq Structs
    BY <1>10 DEF Range
  <2>2. pcbs' \in BOOLEAN /\ tcpip_tcp_timer_active' \in BOOLEAN
    BY <1>1, <1>3 DEF TypeOK
  <2>3. next_timeout' \in Pointers
    BY <1>2, <1>3, <1>6 DEF Types
  <2> QED BY <1>1, <1>3, <1>5, <1>9, <2>1, <2>2, <2>3 DEF TypeOK, Places, MaxMsgs, Interval
<1>12. /\ ~Holds("tcpip")' /\ (Starting("tcpip")' <=> pc'["tcpip"] = "malloc")
       /\ (Holds("input")' <=> Holds("input")) /\ (Starting("input")' <=> Starting("input"))
  BY <1>5 DEF Holds, Starting, Inserting
<1>13. PoolOK'
  <2>1. InHand' = InHand
    BY <1>3, <1>4, <1>12 DEF InHand, Holds
  <2>2. N1 \notin InHand /\ \A i \in 1 .. Len(memp) : memp[i] # N1
    BY <1>1, <1>4, <1>6 DEF InHand, Holds, PoolOK
  <2>3. \A i \in 1 .. Len(memp') : i = 1 \/ (i - 1 \in 1 .. Len(memp) /\ memp'[i] = memp[i - 1])
    <3>. SUFFICES ASSUME NEW i \in 1 .. Len(memp'), i # 1
                  PROVE  i - 1 \in 1 .. Len(memp) /\ memp'[i] = memp[i - 1]
      OBVIOUS
    <3>1. i - 1 \in 1 .. Len(memp) /\ (i - 1) + 1 = i
      BY <1>10
    <3> QED BY <1>10, <3>1
  <2>4. \A i, j \in 1 .. Len(memp') : memp'[i] = memp'[j] => i = j
    <3>. SUFFICES ASSUME NEW i \in 1 .. Len(memp'), NEW j \in 1 .. Len(memp'),
                         memp'[i] = memp'[j]
                  PROVE  i = j
      OBVIOUS
    <3>1. CASE i = 1 \/ j = 1
      BY <1>10, <2>2, <2>3, <3>1
    <3>2. CASE i # 1 /\ j # 1
      <4>1. i - 1 = j - 1
        BY <1>1, <2>3, <3>2 DEF PoolOK
      <4> QED BY <1>10, <4>1
    <3> QED BY <3>1, <3>2
  <2>5. \A m \in Structs :
          (\E i \in 1 .. Len(memp') : memp'[i] = m) <=> m \notin Listed' \cup InHand'
    <3>. SUFFICES ASSUME NEW m \in Structs
                  PROVE  (\E i \in 1 .. Len(memp') : memp'[i] = m)
                            <=> m \notin (Listed \ {N1}) \cup InHand
      BY <1>8, <2>1
    <3>1. ASSUME NEW i \in 1 .. Len(memp'), memp'[i] = m
          PROVE  m \notin (Listed \ {N1}) \cup InHand
      BY <1>1, <1>10, <2>2, <2>3, <3>1 DEF PoolOK
    <3>2. ASSUME m \notin (Listed \ {N1}) \cup InHand
          PROVE  \E i \in 1 .. Len(memp') : memp'[i] = m
      <4>1. CASE m = N1
        BY <1>10, <4>1
      <4>2. CASE m # N1
        <5>1. PICK i \in 1 .. Len(memp) : memp[i] = m
          BY <1>1, <3>2, <4>2 DEF PoolOK
        <5>2. i + 1 \in 1 .. Len(memp') /\ memp'[i + 1] = m
          BY <1>10, <5>1
        <5> QED BY <5>2
      <4> QED BY <4>1, <4>2
    <3> QED BY <3>1, <3>2
  <2> QED BY <1>1, <1>3, <1>4, <1>8, <1>10, <1>12, <2>4, <2>5 DEF PoolOK
<1>14. Running(h[N1]) /\ ~Started(h[N1])
  BY <1>1, <1>6, <1>9 DEF TimersOK, Running
<1>15. TimersOK'
  <2>1. (\A m, n \in Listed : h[m] = h[n] => m = n)'
    BY <1>1, <1>3, <1>8 DEF TimersOK
  <2>2. \A timer \in Timers : Running(timer)' <=> Running(timer) /\ timer # h[N1]
    BY <1>1, <1>3, <1>6, <1>8 DEF TimersOK, Running
  <2>3. \A timer \in Timers :
          Started(timer)' <=> \/ Started(timer)
                              \/ timer = h[N1] /\ pc'["tcpip"] = "malloc"
    BY <1>4, <1>9, <1>12 DEF Started
  <2>4. \A timer \in Timers : ~(Running(timer)' /\ Started(timer)')
    BY <1>1, <2>2, <2>3 DEF TimersOK
  <2>5. \A timer \in {"ip", "arp"} : Running(timer)' \/ Started(timer)'
    BY <1>1, <1>5, <2>2, <2>3 DEF TimersOK, Timers
  <2>6. tcpip_tcp_timer_active' <=> Running("tcp")' \/ Started("tcp")'
    <3>1. "tcp" \in Timers /\ (tcpip_tcp_timer_active <=> Running("tcp") \/ Started("tcp"))
      BY <1>1 DEF TimersOK, Timers
    <3>2. CASE h[N1] = "tcp" /\ ~tcpip_tcp_timer_active' /\ pc'["tcpip"] = "again"
      <4>1. ~Running("tcp")' /\ ~Started("tcp")'
        BY <1>14, <2>2, <2>3, <3>1, <3>2 DEF Running, Started
      <4> QED BY <3>2, <4>1
    <3>3. CASE /\ tcpip_tcp_timer_active' = tcpip_tcp_timer_active
               /\ pc'["tcpip"] = "malloc"
      <4>1. (Running("tcp")' \/ Started("tcp")') <=> (Running("tcp") \/ Started("tcp"))
        BY <1>14, <2>2, <2>3, <3>1, <3>3 DEF Running, Started
      <4> QED BY <3>1, <3>3, <4>1
    <3> QED BY <1>5, <3>2, <3>3
  <2>7. \A x \in Threads : Holds(x)' => h'[timeout'[x]] = handler'[x]
    BY <1>1, <1>3, <1>4, <1>9, <1>12 DEF TimersOK
  <2>8. Starting("input")' => handler'["input"] = "tcp"
    BY <1>1, <1>9, <1>12 DEF TimersOK
  <2>9. Starting("input")' /\ Starting("tcpip")' => handler'["tcpip"] # "tcp"
    BY <1>4, <1>9, <1>12, <1>14, <2>8 DEF Started
  <2> QED BY <2>1, <2>4, <2>5, <2>6, <2>7, <2>8, <2>9 DEF TimersOK
<1>16. \A m \in Listed' : Ends(m)' = Ends(m) - time[N1] /\ Ends(m) \in Nat
  <2>1. time[N1] \in Nat /\ time[N2] \in Nat /\ (N3 # NULL => N3 \in Structs /\ time[N3] \in Nat)
    BY <1>2, <1>6 DEF Types
  <2>2. N3 # NULL => N3 # N2 /\ N3 # N1
    BY <1>1 DEF ListOK
  <2>3. SUFFICES ASSUME NEW m \in Listed'
                 PROVE  Ends(m)' = Ends(m) - time[N1] /\ Ends(m) \in Nat
    OBVIOUS
  <2>4. m \in Listed /\ Ends(m) \in Nat
    BY <1>2, <1>8 DEF Types
  <2>5. CASE m = N2
    <3>1. Ends(m) = time[N1] + time[N2] /\ Ends(m)' = time[N2]
      BY <1>3, <1>6, <1>7, <2>5 DEF Ends
    <3> QED BY <2>1, <2>4, <3>1
  <2>6. CASE m = N3 /\ N3 # NULL
    <3>1. Ends(m) = time[N1] + time[N2] + time[N3] /\ Ends(m)' = time[N2] + time[N3]
      BY <1>3, <1>6, <1>7, <2>2, <2>6 DEF Ends
    <3> QED BY <2>1, <2>4, <2>6, <3>1
  <2> QED BY <1>8, <2>4, <2>5, <2>6 DEF Listed
<1>17. time[N1] \in Nat /\ Slept = time[N1] /\ Slept' = 0
  BY <1>1, <1>2, <1>3, <1>5, <1>6 DEF Slept, TimesOK, Types
<1>18. TimesOK'
  <2>1. \A m \in Listed : Taken(m) = 0 /\ Taken(m)' = 0
    BY <1>3, <1>5 DEF Taken
  <2>2. \A m \in Listed' : /\ due[h[m]] \in Int /\ Interval[h[m]] \in Nat
                           /\ Ends(m) <= Interval[h[m]] /\ Ends(m) <= time[N1] + due[h[m]]
    <3>1. \A m \in Listed' : due[h[m]] \in Int /\ Interval[h[m]] \in Nat
      BY <1>1, <1>2, <1>8 DEF Types, TypeOK
    <3>2. \A m \in Listed' : Ends(m) \in Nat /\ Taken(m) = 0
      BY <1>8, <1>16, <2>1
    <3>3. \A m \in Listed' : /\ Ends(m) + Taken(m) <= Interval[h[m]]
                             /\ Ends(m) + Taken(m) <= Slept + due[h[m]]
      BY <1>1, <1>8 DEF TimesOK
    <3> QED BY <1>17, <3>1, <3>2, <3>3
  <2>3. \A m \in Listed' : /\ Ends(m)' + Taken(m)' <= Interval[h[m]]
                           /\ Ends(m)' + Taken(m)' <= Slept' + due[h[m]]
    BY <1>8, <1>16, <1>17, <2>1, <2>2
  <2> QED BY <1>1, <1>3, <1>5, <1>11, <2>3 DEF TimesOK
<1>19. InsertOK(timeout["tcpip"], t["tcpip"])'
  BY <1>5 DEF InsertOK
<1>20. UseOK'
  <2>1. CASE Alone /\ pc["input"] = "out"
    BY <1>3, <1>5, <2>1 DEF UseOK, Alone, Registrars
  <2>2. CASE InStep /\ InStepOK
    <3>1. InStep'
      BY <1>11, <2>2 DEF InStep
    <3>2. \A m \in Listed : Ends(m) \in {0, Interval[h[m]]}
      BY <2>2 DEF InStepOK
    <3>3. CASE pc["tcpip"] = "timedout"
      <4>1. \A m \in Listed : Ends(m) = Ends(N1) /\ Ends(N1) = time[N1] /\ time[N1] > 0
        <5>1. \A m \in Listed : Ends(m) = Interval[h[m]] /\ h[m] \in Timers
          BY <1>2, <2>2, <3>3 DEF InStepOK, Types
        <5>2. \A m \in Listed : Interval[h[m]] = Interval[h[N1]] /\ Interval[h[N1]] > 0
          BY <1>2, <1>9, <2>2, <5>1 DEF InStep, Types
        <5> QED BY <1>2, <1>6, <5>1, <5>2 DEF Types
      <4>2. \A m \in Listed' : Ends(m)' = 0
        BY <1>8, <1>16, <1>17, <4>1
      <4>3. \A m, n \in Structs : m # n /\ m \in Listed /\ n \in Listed /\ Before(m, n) => m = N1 /\ n = N2
        BY <1>17, <4>1 DEF Before, Renewed
      <4>4. \A m, n : m = N1 /\ n = N2 => Before(m, n)'
        BY <1>2, <1>6, <1>8, <4>2 DEF Before, Renewed, Listed
      <4>5. Holds("input") => \A m \in Structs \ {timeout["input"]} : m \in Listed
        BY <1>1, <1>2, <1>4, <1>6 DEF PoolOK, Types, Listed
      <4>6. InputOK(timeout["input"], t["input"])'
        BY <1>3, <1>5, <1>11, <2>2, <4>3, <4>4, <4>5, SameOrder DEF InStepOK
      <4>7. InStepOK'
        BY <1>3, <1>5, <1>8, <1>11, <2>2, <4>2, <4>6 DEF InStepOK
      <4> QED BY <3>1, <4>7 DEF UseOK
    <3>4. CASE time[N1] = 0
      <4>1. \A m \in Listed' : Ends(m)' = Ends(m)
        BY <1>16, <3>4
      <4>2. Ends(N1) = 0 /\ N2 \in Listed' /\ N1 \notin Listed' /\ N2 \in Listed
        BY <1>2, <1>6, <1>8, <3>4 DEF Types, Listed
      <4>3. \A m, n \in {N1, N2} : m # n /\ Before(m, n) =>
              \/ m = N1 /\ n = N2 /\ ~Renewed(N2)
              \/ m = N2 /\ n = N1 /\ Renewed(N2)
        BY <1>6, <4>2 DEF Before, Renewed
      <4>4. \A m, n : m = N1 /\ n = N2 /\ ~Renewed(N2) => Before(m, n)'
        BY <4>1, <4>2 DEF Before, Renewed
      <4>5. \A m, n : m = N2 /\ n = N1 /\ Renewed(N2) => Before(m, n)'
        BY <4>1, <4>2 DEF Before, Renewed
      <4>6. Holds("input") => \A m \in Structs \ {timeout["input"]} : m \in {N1, N2}
        BY <1>1, <1>2, <1>4, <1>6 DEF PoolOK, Types, Listed
      <4>7. InputOK(timeout["input"], t["input"])'
        <5>1. Holds("input") => \A m, n \in Structs \ {timeout["input"]} :
                                  m # n /\ Before(m, n) => Before(m, n)'
          BY <4>3, <4>4, <4>5, <4>6
        <5> QED BY <1>3, <1>5, <1>11, <2>2, <5>1, SameOrder DEF InStepOK
      <4>8. InStepOK'
        BY <1>3, <1>5, <1>8, <1>11, <2>2, <3>2, <4>1, <4>7 DEF InStepOK
      <4> QED BY <3>1, <4>8 DEF UseOK
    <3> QED BY <1>3, <3>3, <3>4
  <2> QED BY <1>1, <2>1, <2>2 DEF UseOK
<1> QED BY <1>8, <1>11, <1>13, <1>15, <1>18, <1>19, <1>20 DEF IInv

\* A message arrives after tcpip_thread has slept that many ticks.
LEMMA FetchOK ==
  ASSUME IInv, UNCHANGED setting, ~InStep, pc["tcpip"] \in {"again", "asleep"},
         Fetch(Slept), Slept \in Nat, Slept = 0 \/ Slept < time[N1],
         mbox' \in 0 .. MaxMsgs,
         next_timeout' = next_timeout, next' = next, h' = h, memp' = memp,
         tcpip_tcp_timer_active' = tcpip_tcp_timer_active, pcbs' = pcbs,
         asked' = asked, wait' = wait, handler' = handler, timeout' = timeout,
         t' = t, due' = due
  PROVE  IInv'
<1>1. TypeOK /\ ListOK /\ PoolOK /\ TimersOK /\ TimesOK /\ UseOK
  BY DEF IInv
<1>2. Types
  BY <1>1, TypesHold
<1>3. PICK needed \in Fetched(Slept) :
        time' = [time EXCEPT ![N1] =
                   IF needed < time[N1] THEN time[N1] - needed ELSE 0]
  BY DEF Fetch, N1
<1>4. N1 \in Structs /\ time[N1] \in 0 .. Word - 1 /\ Word \in Nat /\ Word > 0
      /\ N1 \in Listed
  BY <1>2 DEF Types, Listed
<1>5. needed \in Nat /\ (needed >= Slept \/ time[N1] = 0)
  BY <1>3, <1>4 DEF Fetched
<1> DEFINE x == IF needed < time[N1] THEN time[N1] - needed ELSE 0
<1>6. x \in 0 .. Word - 1 /\ x <= time[N1] /\ (time[N1] - x >= Slept \/ Slept = 0)
      /\ time[N1] - x \in Nat
  BY <1>4, <1>5
<1>7. time' \in [Structs -> 0 .. Word - 1] /\ time'[N1] = x
      /\ \A n \in Structs \ {N1} : time'[n] = time[n]
  BY <1>2, <1>3, <1>4, <1>6 DEF Types
<1>8. pc' \in [Threads -> Places] /\ pc'["tcpip"] = "message" /\ pc'["input"] = pc["input"]
  BY <1>1, GotoPc DEF Fetch, Threads, Places
<1>9. \A th \in Threads : (Holds(th)' <=> Holds(th)) /\ (Starting(th)' <=> Starting(th))
  BY <1>8 DEF Threads, Holds, Starting, Inserting
<1>10. /\ N1' = N1 /\ N2' = N2 /\ N3' = N3 /\ Listed' = Listed
       /\ ListOK' /\ PoolOK' /\ TimersOK'
  BY <1>1, <1>9, SamePlaces
<1>11. TypeOK' /\ Interval' = Interval
  BY <1>1, <1>7, <1>8 DEF TypeOK, Places, MaxMsgs, Interval
<1>12. \A n \in Listed : Ends(n)' = Ends(n) - (time[N1] - x) /\ Ends(n) \in Nat
  <2>1. time[N1] \in Nat /\ (N2 # NULL => N2 # N1 /\ N2 \in Structs /\ time[N2] \in Nat)
    BY <1>1, <1>2, <1>4 DEF Types, ListOK
  <2>2. N3 # NULL => N2 # NULL /\ N3 # N1 /\ N3 # N2 /\ N3 \in Structs /\ time[N3] \in Nat
    BY <1>1, <1>2 DEF Types, ListOK
  <2>3. SUFFICES ASSUME NEW n \in Listed
                 PROVE  Ends(n)' = Ends(n) - (time[N1] - x) /\ Ends(n) \in Nat
    OBVIOUS
  <2>4. CASE n = N1
    BY <1>6, <1>7, <1>10, <2>1, <2>4 DEF Ends
  <2>5. CASE n = N2 /\ N2 # NULL
    <3>1. Ends(n) = time[N1] + time[N2] /\ Ends(n)' = x + time[N2]
      BY <1>7, <1>10, <2>1, <2>5 DEF Ends
    <3> QED BY <1>6, <2>1, <2>5, <3>1
  <2>6. CASE n = N3 /\ N3 # NULL
    <3>1. Ends(n) = time[N1] + time[N2] + time[N3] /\ Ends(n)' = x + time[N2] + time[N3]
      BY <1>7, <1>10, <2>1, <2>2, <2>6 DEF Ends
    <3> QED BY <1>6, <2>1, <2>2, <2>6, <3>1
  <2> QED BY <2>4, <2>5, <2>6 DEF Listed
<1>13. TimesOK'
  <2>1. Slept' = 0 /\ \A n \in Listed : Taken(n) = 0 /\ Taken(n)' = 0
    BY <1>8 DEF Slept, Taken
  <2>2. \A n \in Listed : due[h[n]] \in Int /\ Interval[h[n]] \in Nat
    BY <1>1, <1>2 DEF Types, TypeOK
  <2>3. \A n \in Listed : /\ Ends(n) + Taken(n) <= Interval[h[n]]
                          /\ Ends(n) + Taken(n) <= Slept + due[h[n]]
    BY <1>1 DEF TimesOK
  <2>4. \A n \in Listed : Ends(n) <= Interval[h[n]] /\ Ends(n) <= Slept + due[h[n]]
    BY <1>12, <2>1, <2>3
  <2>5. \A n \in Listed : /\ Ends(n)' + Taken(n)' <= Interval[h[n]]
                          /\ Ends(n)' + Taken(n)' <= Slept' + due[h[n]]
    BY <1>6, <1>12, <2>1, <2>2, <2>4
  <2> QED BY <1>1, <1>8, <1>10, <1>11, <2>5 DEF TimesOK
<1>14. InsertOK(timeout["tcpip"], t["tcpip"])'
  BY <1>8 DEF InsertOK
<1>15. UseOK'
  BY <1>1, <1>8 DEF UseOK, Alone, Registrars
<1> QED BY <1>10, <1>11, <1>13, <1>14, <1>15 DEF IInv

LEMMA AgainOK == ASSUME IInv, UNCHANGED setting, Again PROVE IInv'
<1>1. TypeOK /\ ListOK /\ PoolOK /\ TimersOK /\ TimesOK /\ UseOK
  BY DEF IInv
<1>2. Types
  BY <1>1, TypesHold
<1>3. /\ pc["tcpip"] = "again" /\ N1 # NULL /\ next_timeout # NULL
      /\ next_timeout' = next_timeout /\ next' = next /\ h' = h
      /\ memp' = memp /\ tcpip_tcp_timer_active' = tcpip_tcp_timer_active
      /\ pcbs' = pcbs /\ handler' = handler /\ timeout' = timeout /\ t' = t
      /\ due' = due /\ setting' = setting
  BY <1>2 DEF Again, tcpVars, localVars, Types, N1
<1>4. N1 \in Structs /\ N1 \in Listed /\ time[N1] \in 0 .. Word - 1 /\ time[N1] > 0
      /\ Word \in Nat /\ N1 = next_timeout
  BY <1>2, <1>3 DEF Types, Listed, Again, N1
<1>5. CASE mbox > 0 /\ mbox' = mbox - 1 /\ Fetch(0) /\ asked' = asked /\ wait' = wait
  <2>1. ~InStep \/ Alone
    BY <1>1, <1>2, <1>5 DEF UseOK, InStepOK
  <2>2. Slept = 0
    BY <1>3 DEF Slept
  <2>3. mbox' \in 0 .. MaxMsgs
    BY <1>1, <1>2, <1>5 DEF TypeOK, Types
  <2>4. ~InStep
    BY <1>1, <1>2, <1>5 DEF InStep, TypeOK
  <2> QED BY <1>3, <1>5, <2>2, <2>3, <2>4, FetchOK
<1>6. CASE /\ mbox' = mbox /\ time' = time
           /\ asked' = time[N1] /\ wait' = asked' /\ Goto("tcpip", "asleep")
  <2>1. /\ pc' \in [Threads -> Places] /\ pc'["tcpip"] = "asleep"
        /\ pc'["input"] = pc["input"]
    BY <1>1, <1>6, GotoPc DEF Threads, Places
  <2>2. \A th \in Threads : (Holds(th)' <=> Holds(th)) /\ (Starting(th)' <=> Starting(th))
    BY <1>3, <2>1 DEF Threads, Holds, Starting, Inserting
  <2>3. /\ N1' = N1 /\ N2' = N2 /\ N3' = N3 /\ Listed' = Listed
        /\ ListOK' /\ PoolOK' /\ TimersOK'
    BY <1>1, <1>3, <2>2, SamePlaces
  <2>4. \A n \in Listed : Ends(n)' = Ends(n)
    BY <1>1, <1>6, <2>3, SameEnds
  <2>5. TypeOK' /\ Interval' = Interval /\ MaxMsgs' = MaxMsgs
    BY <1>1, <1>3, <1>4, <1>6, <2>1 DEF TypeOK, Places, MaxMsgs, Interval
  <2>6. TimesOK'
    <3>1. Slept = 0 /\ Slept' = 0 /\ \A n \in Listed : Taken(n) = 0 /\ Taken(n)' = 0
      BY <1>3, <1>4, <1>6, <2>1 DEF Slept, Taken
    <3>2. \A n \in Listed : /\ Ends(n)' + Taken(n)' <= Interval[h[n]]
                            /\ Ends(n)' + Taken(n)' <= Slept' + due[h[n]]
      BY <1>1, <2>4, <3>1 DEF TimesOK
    <3>3. asked' = time'[N1'] /\ wait' \in 1 .. asked'
      BY <1>4, <1>6, <2>3
    <3> QED BY <1>1, <1>3, <2>3, <2>5, <3>2, <3>3 DEF TimesOK
  <2>7. InsertOK(timeout["tcpip"], t["tcpip"])'
    BY <2>1 DEF InsertOK
  <2>8. UseOK'
    <3>1. CASE Alone /\ pc["input"] = "out"
      BY <1>3, <2>1, <3>1 DEF UseOK, Alone, Registrars
    <3>2. CASE InStep /\ InStepOK
      <4>1. InputOK(timeout["input"], t["input"])'
        BY <1>3, <1>6, <2>1, <2>3, <2>4, <2>5, <3>2, SameInput DEF InStepOK
      <4>2. \A n \in Listed : Ends(n) = Interval[h[n]]
        <5>1. \A n \in Listed : Ends(n) > 0
          <6>1. N2 # NULL => time[N2] \in Nat
            BY <1>2 DEF Types
          <6>2. N3 # NULL => N2 # NULL /\ time[N3] \in Nat
            BY <1>2 DEF Types
          <6> QED BY <1>4, <6>1, <6>2 DEF Ends, Listed
        <5> QED BY <3>2, <5>1 DEF InStepOK
      <4>3. InStep'
        BY <2>5, <3>2 DEF InStep
      <4>4. InStepOK'
        BY <1>3, <1>6, <2>1, <2>3, <2>4, <2>5, <3>2, <4>1, <4>2 DEF InStepOK
      <4> QED BY <4>3, <4>4 DEF UseOK
    <3> QED BY <1>1, <3>1, <3>2 DEF UseOK
  <2> QED BY <2>3, <2>5, <2>6, <2>7, <2>8 DEF IInv
<1> QED BY <1>3, <1>4, <1>5, <1>6 DEF Again, sleepVars

LEMMA PostOK == ASSUME IInv, UNCHANGED setting, Post PROVE IInv'
<1>1. TypeOK /\ ListOK /\ PoolOK /\ TimersOK /\ TimesOK /\ UseOK
      /\ InsertOK(timeout["tcpip"], t["tcpip"])
  BY DEF IInv
<1>2. Types
  BY <1>1, TypesHold
<1>3. /\ MaxMsgs > 0
      /\ next_timeout' = next_timeout /\ next' = next /\ h' = h
      /\ memp' = memp /\ tcpip_tcp_timer_active' = tcpip_tcp_timer_active
      /\ pcbs' = pcbs /\ asked' = asked /\ wait' = wait
      /\ handler' = handler /\ timeout' = timeout /\ t' = t
      /\ due' = due /\ setting' = setting
  BY DEF Post, tcpVars, sleepVars, localVars
<1>4. ~InStep
  BY <1>3 DEF InStep
<1>5. CASE pc["tcpip"] = "asleep"
  <2>1. asked = time[N1] /\ wait \in 1 .. asked /\ asked \in 0 .. Word - 1 /\ Slept = asked - wait
    BY <1>1, <1>5 DEF TimesOK, Slept, TypeOK
  <2>2. asked \in Nat /\ asked # 0 /\ Slept \in Nat /\ Slept < time[N1]
    BY <1>2, <2>1 DEF Types
  <2>3. Fetch(Slept) /\ mbox' = mbox
    BY <1>5, <2>1, <2>2 DEF Post
  <2> QED BY <1>1, <1>3, <1>4, <1>5, <2>2, <2>3, FetchOK DEF TypeOK
<1>6. CASE pc["tcpip"] # "asleep"
  <2>1. mbox < MaxMsgs /\ mbox' = mbox + 1 /\ pc' = pc /\ time' = time
    BY <1>6 DEF Post
  <2>2. \A th \in Threads : (Holds(th)' <=> Holds(th)) /\ (Starting(th)' <=> Starting(th))
    BY <2>1 DEF Holds, Starting
  <2>3. /\ N1' = N1 /\ N2' = N2 /\ N3' = N3 /\ Listed' = Listed
        /\ ListOK' /\ PoolOK' /\ TimersOK'
    BY <1>1, <1>3, <2>2, SamePlaces
  <2>4. \A n \in Structs : Ends(n)' = Ends(n)
    BY <2>1, <2>3 DEF Ends
  <2>5. TypeOK' /\ Interval' = Interval
    BY <1>1, <1>2, <1>3, <2>1 DEF TypeOK, MaxMsgs, Interval, Types
  <2>6. TimesOK'
    <3>1. Slept' = Slept /\ \A n \in Listed : Taken(n)' = Taken(n)
      BY <1>3, <2>1, <2>3 DEF Slept, Taken
    <3>2. \A n \in Listed : Ends(n)' = Ends(n)
      BY <1>2, <2>4 DEF Types
    <3> QED BY <1>1, <1>3, <2>1, <2>3, <2>5, <3>1, <3>2 DEF TimesOK
  <2>7. InsertOK(timeout["tcpip"], t["tcpip"])'
    <3>1. Ends(t["tcpip"])' = Ends(t["tcpip"])
      BY <1>3, <2>1, <2>3 DEF Ends
    <3> QED BY <1>1, <1>3, <2>1, <2>3, <2>5, <3>1 DEF InsertOK
  <2>8. UseOK'
    BY <1>1, <1>3, <1>4, <2>1 DEF UseOK, Alone, Registrars
  <2> QED BY <2>3, <2>5, <2>6, <2>7, <2>8 DEF IInv
<1> QED BY <1>5, <1>6

LEMMA ArmedRuns ==
  ASSUME TimersOK, pc["tcpip"] = "asleep"
  PROVE  \A timer \in Armed : Running(timer)
<1>1. ~Starting("tcpip")
  BY DEF Starting, Inserting
<1>2. \A timer \in {"ip", "arp"} : Running(timer)
  <2>1. ~Started("ip") /\ ~Started("arp")
    BY <1>1 DEF Started, Threads, TimersOK
  <2> QED BY <2>1 DEF TimersOK
<1>3. ASSUME "tcp" \in Armed PROVE Running("tcp")
  <2>1. tcpip_tcp_timer_active /\ ~Starting("input")
    BY <1>3 DEF Armed, Starting
  <2>2. ~Started("tcp")
    BY <1>1, <2>1 DEF Started, Threads
  <2> QED BY <2>1, <2>2 DEF TimersOK
<1> QED BY <1>2, <1>3 DEF Armed

LEMMA TickOK == ASSUME IInv, UNCHANGED setting, Tick PROVE IInv'
<1>1. TypeOK /\ ListOK /\ PoolOK /\ TimersOK /\ TimesOK /\ UseOK
  BY DEF IInv
<1>2. Types
  BY <1>1, TypesHold
<1>3. /\ pc["tcpip"] = "asleep"
      /\ next_timeout' = next_timeout /\ next' = next /\ time' = time /\ h' = h
      /\ memp' = memp /\ tcpip_tcp_timer_active' = tcpip_tcp_timer_active
      /\ pcbs' = pcbs /\ asked' = asked /\ mbox' = mbox
      /\ handler' = handler /\ timeout' = timeout /\ t' = t
      /\ setting' = setting
  BY DEF Tick, listVars, tcpVars, localVars
<1>4. /\ asked = time[N1] /\ wait \in 1 .. asked /\ asked \in 0 .. Word - 1
      /\ Slept = asked - wait /\ asked \in Nat /\ wait \in Nat /\ wait >= 1
      /\ wait <= asked /\ Word \in Nat
  BY <1>1, <1>2, <1>3 DEF TimesOK, Slept, TypeOK, Types
<1>5. /\ wait' = wait - 1 /\ wait' \in 0 .. Word - 1
      /\ pc' \in [Threads -> Places] /\ pc'["input"] = pc["input"]
      /\ pc'["tcpip"] = IF wait = 1 THEN "timedout" ELSE "asleep"
  <2>1. wait' = wait - 1 /\ wait' \in 0 .. Word - 1
    BY <1>4 DEF Tick
  <2>2. CASE wait = 1
    <3>1. Goto("tcpip", "timedout") /\ "tcpip" \in Threads /\ "timedout" \in Places
      BY <2>2 DEF Tick, Threads, Places
    <3> QED BY <1>1, <2>1, <2>2, <3>1, GotoPc DEF Threads
  <2>3. CASE wait # 1
    <3>1. pc' = pc
      BY <2>3 DEF Tick
    <3> QED BY <1>1, <1>3, <2>1, <2>3, <3>1 DEF TypeOK, Places
  <2> QED BY <2>2, <2>3
<1>6. \A th \in Threads : (Holds(th)' <=> Holds(th)) /\ (Starting(th)' <=> Starting(th))
  BY <1>3, <1>5 DEF Threads, Holds, Starting, Inserting
<1>7. /\ N1' = N1 /\ N2' = N2 /\ N3' = N3 /\ Listed' = Listed
      /\ ListOK' /\ PoolOK' /\ TimersOK'
  BY <1>1, <1>3, <1>6, SamePlaces
<1>8. \A n \in Listed : Ends(n)' = Ends(n)
  BY <1>1, <1>3, <1>7, SameEnds
<1>9. \A timer \in Armed : Running(timer)
  BY <1>1, <1>3, ArmedRuns
<1>10. \A n \in Listed : Ends(n) >= asked /\ Ends(n) \in Nat
  <2>1. N2 # NULL => time[N2] \in Nat
    BY <1>2 DEF Types
  <2>2. N3 # NULL => N2 # NULL /\ time[N3] \in Nat
    BY <1>2 DEF Types
  <2> QED BY <1>2, <1>4, <2>1, <2>2 DEF Ends, Listed, Types
<1>11. \A n \in Listed : /\ h[n] \in Timers /\ due[h[n]] \in Int
                         /\ Interval[h[n]] \in Nat
                         /\ Ends(n) <= Interval[h[n]] /\ Ends(n) <= Slept + due[h[n]]
  <2>1. \A n \in Listed : h[n] \in Timers /\ due[h[n]] \in Int /\ Interval[h[n]] \in Nat
    BY <1>1, <1>2 DEF Types, TypeOK
  <2>2. \A n : Taken(n) = 0
    BY <1>3 DEF Taken
  <2>3. \A n \in Listed : /\ Ends(n) + Taken(n) <= Interval[h[n]]
                          /\ Ends(n) + Taken(n) <= Slept + due[h[n]]
    BY <1>1 DEF TimesOK
  <2> QED BY <1>10, <2>1, <2>2, <2>3
<1>12. \A timer \in Timers :
         /\ due[timer] \in Int /\ due[timer] >= 0
         /\ timer \in Armed => due[timer] >= 1
  <2>1. \A timer \in Armed : due[timer] >= 1
    <3>. SUFFICES ASSUME NEW timer \in Armed PROVE due[timer] >= 1
      OBVIOUS
    <3>1. PICK n \in Listed : h[n] = timer
      BY <1>9 DEF Running
    <3>2. Ends(n) >= asked /\ Ends(n) \in Nat /\ due[timer] \in Int
          /\ Ends(n) <= (asked - wait) + due[timer]
      BY <1>4, <1>10, <1>11, <3>1
    <3> QED BY <1>4, <3>2
  <2> QED BY <1>1, <2>1 DEF TimesOK, TypeOK
<1>13. /\ due' \in [Timers -> Int]
       /\ \A timer \in Timers : due'[timer] >= 0 /\ due'[timer] >= due[timer] - 1
  <2>1. Interval \in [Timers -> Nat \ {0}]
    BY <1>2 DEF Types
  <2>2. due' = [timer \in Timers |->
                  IF timer \in Armed /\ due[timer] > -Interval[timer]
                  THEN due[timer] - 1 ELSE due[timer]]
    BY DEF Tick
  <2> QED BY <1>12, <2>1, <2>2
<1>14. TypeOK' /\ Interval' = Interval /\ MaxMsgs' = MaxMsgs
  BY <1>1, <1>3, <1>5, <1>13 DEF TypeOK, Places, MaxMsgs, Interval
<1>15. TimesOK'
  <2>1. Slept' = Slept + 1 /\ Slept \in Int
    BY <1>3, <1>4, <1>5 DEF Slept
  <2>2. \A n \in Listed : Taken(n)' = 0
    BY <1>5 DEF Taken
  <2>3. \A n \in Listed : due'[h[n]] \in Int /\ due'[h[n]] >= due[h[n]] - 1
    BY <1>11, <1>13
  <2>4. \A n \in Listed : /\ Ends(n)' + Taken(n)' <= Interval[h[n]]
                          /\ Ends(n)' + Taken(n)' <= Slept' + due'[h[n]]
    BY <1>8, <1>10, <1>11, <2>1, <2>2, <2>3
  <2>5. asked' = time'[N1']
    BY <1>3, <1>4, <1>7
  <2>6. pc'["tcpip"] = "asleep" => wait' \in 1 .. asked'
    BY <1>3, <1>4, <1>5
  <2> QED BY <1>3, <1>7, <1>13, <1>14, <2>4, <2>5, <2>6 DEF TimesOK
<1>16. InsertOK(timeout["tcpip"], t["tcpip"])'
  BY <1>5 DEF InsertOK
<1>17. UseOK'
  <2>1. CASE Alone /\ pc["input"] = "out"
    BY <1>3, <1>5, <2>1 DEF UseOK, Alone, Registrars
  <2>2. CASE InStep /\ InStepOK
    <3>1. InputOK(timeout["input"], t["input"])'
      BY <1>3, <1>5, <1>7, <1>8, <1>14, <2>2, SameInput DEF InStepOK
    <3>2. InStep'
      BY <1>14, <2>2 DEF InStep
    <3>3. InStepOK'
      BY <1>3, <1>5, <1>7, <1>8, <1>14, <2>2, <3>1 DEF InStepOK
    <3> QED BY <3>2, <3>3 DEF UseOK
  <2> QED BY <1>1, <2>1, <2>2 DEF UseOK
<1> QED BY <1>7, <1>14, <1>15, <1>16, <1>17 DEF IInv

-----------------------------------------------------------------------------
(* The steps of FlyEthernetTask, which runs when tcpip_thread sleeps.       *)

LEMMA InputRuns ==
  ASSUME IInv, pc["tcpip"] = "asleep", ~Alone \/ pc["input"] # "out"
  PROVE  /\ InStep /\ InStepOK /\ Types /\ Interval["tcp"] \in Nat /\ Interval["tcp"] > 0
         /\ N2 # NULL /\ N2 \in Structs /\ N2 # N1 /\ N1 \in Structs /\ next[N1] = N2
         /\ time[N1] = Interval["tcp"] /\ time[N2] = 0
         /\ \A n \in Listed : Ends(n) = Interval["tcp"] /\ h[n] \in Timers
         /\ \A timer \in Timers : Interval[timer] = Interval["tcp"]
<1>1. TypeOK /\ ListOK /\ TimersOK /\ InStep /\ InStepOK
  BY DEF IInv, UseOK
<1>2. Types
  BY <1>1, TypesHold
<1>3. N2 # NULL /\ N2 \in Structs /\ N2 # N1 /\ N1 \in Structs /\ N1 # NULL
      /\ N1 \in Listed /\ N2 \in Listed
  <2>1. ~Starting("tcpip")
    BY DEF Starting, Inserting
  <2> QED BY <1>1, <1>2, <2>1, TwoListed DEF Types, Listed
<1>4. Interval["tcp"] \in Nat /\ Interval["tcp"] > 0
      /\ \A timer \in Timers : Interval[timer] = Interval["tcp"]
  BY <1>1, <1>2 DEF Types, InStep, Timers
<1>5. \A n \in Listed : Ends(n) = Interval["tcp"] /\ h[n] \in Timers
  BY <1>1, <1>2, <1>4 DEF InStepOK, Types
<1>6. Ends(N1) = time[N1] /\ Ends(N2) = Ends(N1) + time[N2]
      /\ time[N1] \in Nat /\ time[N2] \in Nat
  BY <1>2, <1>3 DEF Types
<1>7. time[N1] = Interval["tcp"] /\ time[N2] = 0
  BY <1>3, <1>4, <1>5, <1>6
<1>8. next[N1] = N2
  BY <1>3 DEF N2, After
<1> QED BY <1>1, <1>2, <1>3, <1>4, <1>5, <1>7, <1>8

\* The struct that leads is the first in the list, the one that trails the second.
LEMMA InputOrder ==
  ASSUME IInv, pc["tcpip"] = "asleep", Holds("input")
  PROVE  /\ timeout["input"] \in Structs /\ timeout["input"] \notin Listed
         /\ timeout["input"] # N1 /\ timeout["input"] # N2
         /\ N3 = NULL /\ next[N2] = NULL /\ Listed = {N1, N2}
         /\ \A n \in Structs \ {timeout["input"]} : n = N1 \/ n = N2
         /\ Leads(N1) /\ ~Leads(N2) /\ Trails(N2) /\ ~Trails(N1)
<1>1. TypeOK /\ ListOK /\ PoolOK /\ Types
  BY TypesHold DEF IInv
<1>2. "input" \in Threads /\ pc["input"] # "out"
  BY DEF Threads, Holds, Inserting
<1>3. timeout["input"] \in Structs /\ timeout["input"] \notin Listed
  BY <1>1, <1>2, HoldsOne
<1>4. /\ N2 # NULL /\ N2 \in Structs /\ N2 # N1 /\ N1 \in Structs
      /\ Interval["tcp"] > 0
      /\ \A n \in Listed : Ends(n) = Interval["tcp"]
  BY <1>2, InputRuns
<1>5. N3 = NULL /\ next[N2] = NULL /\ Listed = {N1, N2}
  <2>1. N3 = NULL
    BY <1>1, <1>3, RoomForOne
  <2> QED BY <1>1, <1>4, <2>1 DEF N3, After, Listed, Types
<1>6. timeout["input"] # N1 /\ timeout["input"] # N2
  BY <1>3, <1>5
<1>7. \A n \in Structs \ {timeout["input"]} : n = N1 \/ n = N2
  BY <1>1, <1>3, <1>4, <1>6 DEF Types
<1>8. Renewed(N1) /\ Renewed(N2)
  BY <1>4, <1>5 DEF Renewed
<1>9. Before(N1, N2) /\ ~Before(N2, N1)
  BY <1>4, <1>5, <1>8 DEF Before
<1> QED BY <1>3, <1>4, <1>5, <1>6, <1>7, <1>9 DEF Leads, Trails

LEMMA SameLeads ==
  ASSUME N1' = N1, N2' = N2, N3' = N3, \A n \in Listed : Ends(n)' = Ends(n),
         timeout'["input"] = timeout["input"]
  PROVE  \A n : (Leads(n)' <=> Leads(n)) /\ (Trails(n)' <=> Trails(n))
<1>1. Listed' = Listed
  BY DEF Listed
<1>2. \A n : Renewed(n)' <=> Renewed(n)
  BY <1>1 DEF Renewed
<1>3. \A m, n : Before(m, n)' <=> Before(m, n)
  BY <1>1, <1>2 DEF Before
<1> QED BY <1>3 DEF Leads, Trails

\* A step of FlyEthernetTask that leaves the list as it is.
LEMMA InputQuiet ==
  ASSUME IInv, UNCHANGED setting, pc["tcpip"] = "asleep", ~Alone \/ pc["input"] # "out",
         N1' = N1, N2' = N2, N3' = N3,
         \A n \in Listed : h'[n] = h[n] /\ time'[n] = time[n],
         mbox' = mbox, asked' = asked, wait' = wait, due' = due,
         pc'["tcpip"] = pc["tcpip"],
         TypeOK', ListOK', PoolOK', TimersOK',
         InputOK(timeout["input"], t["input"])'
  PROVE  IInv'
<1>1. TypeOK /\ ListOK /\ TimesOK /\ InStep /\ InStepOK /\ Types
  BY InputRuns DEF IInv
<1>2. Listed' = Listed /\ Interval' = Interval /\ MaxMsgs' = MaxMsgs /\ N1 \in Listed
  BY <1>1 DEF Listed, Interval, MaxMsgs, Types
<1>3. \A n \in Listed : Ends(n)' = Ends(n)
  BY <1>1, SameEnds
<1>4. TimesOK'
  <2>1. Slept' = Slept /\ \A n : Taken(n)' = Taken(n)
    BY DEF Slept, Taken
  <2>2. time'[N1'] = time[N1]
    BY <1>2
  <2> QED BY <1>1, <1>2, <1>3, <2>1, <2>2 DEF TimesOK
<1>5. InsertOK(timeout["tcpip"], t["tcpip"])'
  BY DEF InsertOK
<1>6. InStep'
  BY <1>1, <1>2 DEF InStep
<1>7. InStepOK'
  BY <1>1, <1>2, <1>3 DEF InStepOK
<1> QED BY <1>4, <1>5, <1>6, <1>7 DEF IInv, UseOK

LEMMA InputSegmentOK == ASSUME IInv, UNCHANGED setting, InputSegment PROVE IInv'
<1>1. TypeOK /\ ListOK /\ PoolOK /\ TimersOK
  BY DEF IInv
<1>2. /\ pc["tcpip"] = "asleep" /\ pc["input"] = "out" /\ ~Alone /\ pcbs' \in BOOLEAN
      /\ next_timeout' = next_timeout /\ next' = next /\ time' = time /\ h' = h
      /\ memp' = memp /\ tcpip_tcp_timer_active' = tcpip_tcp_timer_active
      /\ mbox' = mbox /\ asked' = asked /\ wait' = wait
      /\ handler' = handler /\ timeout' = timeout /\ t' = t /\ due' = due
  BY DEF InputSegment, Runs, Alone, listVars, sleepVars, localVars
<1>3. /\ pc' \in [Threads -> Places] /\ pc'["input"] \in {"out", "needed"}
      /\ pc'["tcpip"] = pc["tcpip"]
  <2>1. CASE Goto("input", "needed")
    BY <1>1, <2>1, GotoPc DEF Threads, Places
  <2>2. CASE pc' = pc
    BY <1>1, <1>2, <2>2 DEF TypeOK, Places
  <2> QED BY <2>1, <2>2 DEF InputSegment
<1>4. \A th \in Threads : (Holds(th)' <=> Holds(th)) /\ (Starting(th)' <=> Starting(th))
  BY <1>2, <1>3 DEF Threads, Holds, Starting, Inserting
<1>5. /\ N1' = N1 /\ N2' = N2 /\ N3' = N3
      /\ ListOK' /\ PoolOK' /\ TimersOK'
  BY <1>1, <1>2, <1>4, SamePlaces
<1>6. TypeOK'
  BY <1>1, <1>2, <1>3 DEF TypeOK, Places, MaxMsgs
<1>7. InputOK(timeout["input"], t["input"])'
  BY <1>3 DEF InputOK
<1> QED BY <1>2, <1>3, <1>5, <1>6, <1>7, InputQuiet

LEMMA InputNeededOK ==
  ASSUME IInv, UNCHANGED setting, TimerNeeded("input") PROVE IInv'
<1>1. TypeOK /\ ListOK /\ PoolOK /\ TimersOK
  BY DEF IInv
<1>2. /\ pc["input"] = "needed" /\ pc'["input"] \in {"out", "malloc"}
      /\ pc'["tcpip"] = pc["tcpip"] /\ pc["tcpip"] = "asleep"
      /\ next' = next /\ time' = time /\ h' = h
      /\ mbox' = mbox /\ asked' = asked /\ wait' = wait
      /\ timeout' = timeout /\ t' = t /\ due' = due
      /\ N1' = N1 /\ N2' = N2 /\ N3' = N3
      /\ TypeOK' /\ ListOK' /\ PoolOK' /\ TimersOK'
  <2>1. pc["tcpip"] = "asleep"
    BY DEF TimerNeeded, Runs
  <2> QED BY <1>1, <2>1, TimerNeededOne DEF Threads, Rest
<1>3. InputOK(timeout["input"], t["input"])'
  BY <1>2 DEF InputOK
<1> QED BY <1>2, <1>3, InputQuiet

LEMMA InputMallocOK ==
  ASSUME IInv, UNCHANGED setting, Malloc("input") PROVE IInv'
<1>1. TypeOK /\ ListOK /\ PoolOK /\ TimersOK
  BY DEF IInv
<1>2. pc["tcpip"] = "asleep" /\ pc["input"] = "malloc"
  BY DEF Malloc, Runs
<1>3. /\ TypeOK' /\ ListOK' /\ PoolOK' /\ TimersOK'
      /\ N1' = N1 /\ N2' = N2 /\ N3' = N3
      /\ pc'["input"] = "first" /\ pc'["tcpip"] = pc["tcpip"]
      /\ mbox' = mbox /\ asked' = asked
      /\ wait' = wait /\ handler' = handler /\ t' = t /\ due' = due
      /\ \A n \in Listed \cup InHand :
           next'[n] = next[n] /\ h'[n] = h[n] /\ time'[n] = time[n]
      /\ time'[timeout'["input"]] = Interval[handler["input"]]
  BY <1>1, MallocOne DEF Threads
<1>4. handler["input"] = "tcp" /\ Interval' = Interval
  BY <1>1, <1>2 DEF TimersOK, Starting, Interval
<1>5. InputOK(timeout["input"], t["input"])'
  BY <1>3, <1>4 DEF InputOK
<1> QED BY <1>2, <1>3, <1>5, InputQuiet

LEMMA InputFirstOK == ASSUME IInv, UNCHANGED setting, First("input") PROVE IInv'
<1>1. TypeOK /\ ListOK /\ PoolOK /\ TimersOK /\ Types
  BY TypesHold DEF IInv
<1>2. pc["tcpip"] = "asleep" /\ pc["input"] = "first" /\ Holds("input") /\ Starting("input")
      /\ "input" \in Threads /\ "pass" \in Places
  BY DEF First, Runs, Holds, Starting, Inserting, Threads, Places
<1>3. /\ InStepOK /\ time[N1] = Interval["tcp"] /\ N1 \in Structs
      /\ handler["input"] = "tcp" /\ Interval["tcp"] \in Nat
      /\ N1 # timeout["input"] /\ Leads(N1) /\ N1 # NULL
      /\ time[timeout["input"]] = Interval["tcp"]
  BY <1>1, <1>2, InputRuns, InputOrder DEF TimersOK, InStepOK, InputOK, Types
<1>4. /\ next_timeout' = next_timeout /\ next' = next /\ time' = time /\ h' = h
      /\ memp' = memp /\ tcpip_tcp_timer_active' = tcpip_tcp_timer_active
      /\ pcbs' = pcbs /\ mbox' = mbox /\ asked' = asked /\ wait' = wait
      /\ handler' = handler /\ timeout' = timeout /\ due' = due
      /\ Goto("input", "pass") /\ t' = [t EXCEPT !["input"] = N1]
  BY <1>3 DEF First, tcpVars, sleepVars, N1
<1>5. /\ pc' \in [Threads -> Places] /\ pc'["input"] = "pass"
      /\ pc'["tcpip"] = pc["tcpip"]
  BY <1>1, <1>2, <1>4, GotoPc DEF Threads
<1>6. t' \in [Threads -> Pointers] /\ t'["input"] = N1
  BY <1>1, <1>2, <1>3, <1>4 DEF TypeOK, Pointers
<1>7. \A th \in Threads : (Holds(th)' <=> Holds(th)) /\ (Starting(th)' <=> Starting(th))
  BY <1>2, <1>5 DEF Threads, Holds, Starting, Inserting
<1>8. /\ N1' = N1 /\ N2' = N2 /\ N3' = N3 /\ ListOK' /\ PoolOK' /\ TimersOK'
  BY <1>1, <1>4, <1>7, SamePlaces
<1>9. TypeOK' /\ Interval' = Interval
  BY <1>1, <1>4, <1>5, <1>6 DEF TypeOK, Places, MaxMsgs, Interval
<1>10. InputOK(timeout["input"], t["input"])'
  <2>1. \A n \in Listed : Ends(n)' = Ends(n)
    BY <1>1, <1>4, <1>8, SameEnds
  <2>2. Leads(N1)'
    <3>1. \A n : Leads(n)' <=> Leads(n)
      BY <1>4, <1>8, <2>1, SameLeads
    <3> QED BY <1>3, <1>8, <3>1 DEF Leads
  <2>3. Leads(t["input"])'
    BY <1>6, <1>8, <2>2 DEF Leads
  <2> QED BY <1>3, <1>4, <1>5, <1>6, <1>9, <2>3 DEF InputOK
<1> QED BY <1>2, <1>4, <1>5, <1>8, <1>9, <1>10, InputQuiet

LEMMA InputPassOK == ASSUME IInv, UNCHANGED setting, Pass("input") PROVE IInv'
<1>1. TypeOK /\ ListOK /\ PoolOK /\ TimersOK /\ Types
  BY TypesHold DEF IInv
<1>2. pc["tcpip"] = "asleep" /\ pc["input"] = "pass" /\ Holds("input")
      /\ "input" \in Threads /\ "test" \in Places /\ pc["input"] # "out"
  BY DEF Pass, Runs, Holds, Inserting, Threads, Places
<1>3. /\ InStepOK /\ time[N1] = Interval["tcp"] /\ time[N2] = 0
      /\ Interval["tcp"] \in Nat
  BY <1>2, InputRuns
<1>4. /\ timeout["input"] \in Structs /\ timeout["input"] \notin Listed
      /\ \A n \in Structs \ {timeout["input"]} : n = N1 \/ n = N2
      /\ ~Leads(N2) /\ ~Trails(N1)
  BY <1>2, InputOrder
<1>5. /\ t["input"] \in Structs \ {timeout["input"]}
      /\ time[t["input"]] = time[timeout["input"]]
  <2>1. /\ t["input"] \in Structs \ {timeout["input"]}
        /\ \/ Leads(t["input"]) /\ time[timeout["input"]] = Interval["tcp"]
           \/ Trails(t["input"]) /\ time[timeout["input"]] = 0
    BY <1>2, <1>3 DEF InStepOK, InputOK
  <2>2. CASE t["input"] = N1
    <3>1. ~Trails(t["input"])
      BY <1>4, <2>2
    <3> QED BY <1>3, <2>1, <2>2, <3>1
  <2>3. CASE t["input"] = N2
    <3>1. ~Leads(t["input"])
      BY <1>4, <2>3
    <3> QED BY <1>3, <2>1, <2>3, <3>1
  <2> QED BY <1>4, <2>1, <2>2, <2>3
<1>6. /\ time' = [time EXCEPT ![timeout["input"]] =
                    Minus(time[timeout["input"]], time[t["input"]])]
      /\ next_timeout' = next_timeout /\ next' = next /\ h' = h
      /\ memp' = memp /\ tcpip_tcp_timer_active' = tcpip_tcp_timer_active
      /\ pcbs' = pcbs /\ mbox' = mbox /\ asked' = asked /\ wait' = wait
      /\ handler' = handler /\ timeout' = timeout /\ t' = t /\ due' = due
      /\ Goto("input", "test")
  BY DEF Pass, tcpVars, sleepVars, localVars
<1>7. Minus(time[timeout["input"]], time[t["input"]]) = 0 /\ Word > 0 /\ Word \in Nat
  <2>1. Word \in Nat /\ Word > 0 /\ time[t["input"]] \in Int /\ time[timeout["input"]] \in Int
        /\ time[timeout["input"]] - time[t["input"]] = 0
    BY <1>1, <1>4, <1>5 DEF Types
  <2>2. time[timeout["input"]] - time[t["input"]] \in 0 .. Word - 1
    BY <2>1
  <2> QED BY <2>1, <2>2, MinusType
<1>8. /\ time' \in [Structs -> 0 .. Word - 1] /\ time'[timeout["input"]] = 0
      /\ \A n \in Listed : time'[n] = time[n]
  BY <1>1, <1>4, <1>6, <1>7 DEF Types
<1>9. /\ pc' \in [Threads -> Places] /\ pc'["input"] = "test"
      /\ pc'["tcpip"] = pc["tcpip"]
  BY <1>1, <1>2, <1>6, GotoPc DEF Threads
<1>10. \A th \in Threads : (Holds(th)' <=> Holds(th)) /\ (Starting(th)' <=> Starting(th))
  BY <1>2, <1>9 DEF Threads, Holds, Starting, Inserting
<1>11. /\ N1' = N1 /\ N2' = N2 /\ N3' = N3 /\ ListOK' /\ PoolOK' /\ TimersOK'
  BY <1>1, <1>6, <1>10, SamePlaces
<1>12. TypeOK'
  BY <1>1, <1>6, <1>8, <1>9 DEF TypeOK, Places, MaxMsgs
<1>13. InputOK(timeout["input"], t["input"])'
  BY <1>5, <1>6, <1>8, <1>9 DEF InputOK
<1> QED BY <1>2, <1>6, <1>8, <1>9, <1>11, <1>12, <1>13, InputQuiet

LEMMA InputTestOK == ASSUME IInv, UNCHANGED setting, Test("input") PROVE IInv'
<1>1. TypeOK /\ ListOK /\ PoolOK /\ TimersOK /\ Types
  BY TypesHold DEF IInv
<1>2. pc["tcpip"] = "asleep" /\ pc["input"] = "test" /\ Holds("input")
      /\ "input" \in Threads /\ "pass" \in Places /\ "shift" \in Places
      /\ pc["input"] # "out"
  BY DEF Test, Runs, Holds, Inserting, Threads, Places
<1>3. /\ InStepOK /\ time[N2] = 0 /\ next[N1] = N2 /\ N2 # NULL /\ N2 \in Structs
  BY <1>2, InputRuns
<1>4. /\ \A n \in Structs \ {timeout["input"]} : n = N1 \/ n = N2
      /\ next[N2] = NULL /\ Trails(N2) /\ N2 # timeout["input"]
  BY <1>2, InputOrder
<1>5. t["input"] \in Structs \ {timeout["input"]} /\ time[timeout["input"]] = 0
  BY <1>2, <1>3 DEF InStepOK, InputOK
<1>6. /\ next_timeout' = next_timeout /\ next' = next /\ time' = time /\ h' = h
      /\ memp' = memp /\ tcpip_tcp_timer_active' = tcpip_tcp_timer_active
      /\ pcbs' = pcbs /\ mbox' = mbox /\ asked' = asked /\ wait' = wait
      /\ handler' = handler /\ timeout' = timeout /\ due' = due
  BY DEF Test, listVars, tcpVars, sleepVars
<1>7. /\ pc' \in [Threads -> Places] /\ pc'["input"] \in {"pass", "shift"}
      /\ pc'["tcpip"] = pc["tcpip"]
      /\ t' \in [Threads -> Pointers] /\ t'["input"] = N2
  <2>1. CASE t["input"] = N1
    <3>1. Goto("input", "pass") /\ t' = [t EXCEPT !["input"] = N2]
      BY <1>3, <1>5, <2>1 DEF Test
    <3> QED BY <1>1, <1>2, <1>3, <3>1, GotoPc DEF Threads, TypeOK, Pointers
  <2>2. CASE t["input"] = N2
    <3>1. Goto("input", "shift") /\ t' = t
      BY <1>4, <2>2 DEF Test
    <3> QED BY <1>1, <1>2, <2>2, <3>1, GotoPc DEF Threads, TypeOK
  <2> QED BY <1>4, <1>5, <2>1, <2>2
<1>8. \A th \in Threads : (Holds(th)' <=> Holds(th)) /\ (Starting(th)' <=> Starting(th))
  BY <1>2, <1>7 DEF Threads, Holds, Starting, Inserting
<1>9. /\ N1' = N1 /\ N2' = N2 /\ N3' = N3 /\ ListOK' /\ PoolOK' /\ TimersOK'
  BY <1>1, <1>6, <1>8, SamePlaces
<1>10. TypeOK'
  BY <1>1, <1>6, <1>7 DEF TypeOK, Places, MaxMsgs
<1>11. InputOK(timeout["input"], t["input"])'
  <2>1. \A n \in Listed : Ends(n)' = Ends(n)
    BY <1>1, <1>6, <1>9, SameEnds
  <2>2. Trails(N2)'
    <3>1. \A n : Trails(n)' <=> Trails(n)
      BY <1>6, <1>9, <2>1, SameLeads
    <3> QED BY <1>4, <1>9, <3>1 DEF Trails
  <2>3. Trails(t["input"])'
    BY <1>7, <1>9, <2>2 DEF Trails
  <2> QED BY <1>3, <1>4, <1>5, <1>6, <1>7, <2>3 DEF InputOK
<1> QED BY <1>2, <1>6, <1>7, <1>9, <1>10, <1>11, InputQuiet

\* FlyEthernetTask puts its timer behind the others: shift and link3.
LEMMA InputBehindOK ==
  ASSUME IInv, UNCHANGED setting, Behind("input"), pc["input"] \in {"shift", "link3"}
  PROVE  IInv'
<1>1. TypeOK /\ ListOK /\ PoolOK /\ TimersOK /\ Types
  BY TypesHold DEF IInv
<1>2. pc["tcpip"] = "asleep" /\ Holds("input")
      /\ "input" \in Threads /\ "link3" \in Places /\ "link4" \in Places
      /\ pc["input"] # "out"
  BY DEF Behind, Runs, Holds, Inserting, Threads, Places
<1>3. InStepOK
  BY <1>2, InputRuns
<1>4. /\ timeout["input"] \in Structs /\ timeout["input"] \notin Listed
      /\ \A n \in Structs \ {timeout["input"]} : n = N1 \/ n = N2
      /\ next[N2] = NULL /\ ~Trails(N1) /\ Trails(N2)
  BY <1>2, InputOrder
<1>5. t["input"] = N2 /\ t["input"] \in Structs \ {timeout["input"]}
      /\ time[timeout["input"]] = 0
  <2>1. t["input"] \in Structs \ {timeout["input"]} /\ Trails(t["input"])
        /\ time[timeout["input"]] = 0
    BY <1>3 DEF InStepOK, InputOK
  <2>2. t["input"] # N1
    BY <1>4, <2>1
  <2> QED BY <1>4, <2>1, <2>2
<1>6. /\ next_timeout' = next_timeout /\ time' = time /\ h' = h
      /\ memp' = memp /\ tcpip_tcp_timer_active' = tcpip_tcp_timer_active
      /\ pcbs' = pcbs /\ mbox' = mbox /\ asked' = asked /\ wait' = wait
      /\ handler' = handler /\ timeout' = timeout /\ t' = t /\ due' = due
      /\ \/ next' = next /\ Goto("input", "link3")
         \/ next' = [next EXCEPT ![timeout["input"]] = NULL] /\ Goto("input", "link4")
  BY <1>4, <1>5 DEF Behind, tcpVars, sleepVars, localVars
<1>7. /\ pc' \in [Threads -> Places]
      /\ pc'["tcpip"] = pc["tcpip"]
      /\ next' \in [Structs -> Pointers] /\ \A n \in Listed : next'[n] = next[n]
      /\ \/ pc'["input"] = "link3"
         \/ pc'["input"] = "link4" /\ next'[timeout["input"]] = NULL
  <2>1. CASE next' = next /\ Goto("input", "link3")
    BY <1>1, <1>2, <2>1, GotoPc DEF Threads, Types
  <2>2. CASE next' = [next EXCEPT ![timeout["input"]] = NULL] /\ Goto("input", "link4")
    <3>1. pc' \in [Threads -> Places] /\ pc'["tcpip"] = pc["tcpip"] /\ pc'["input"] = "link4"
      BY <1>1, <1>2, <2>2, GotoPc DEF Threads
    <3> QED BY <1>1, <1>4, <2>2, <3>1 DEF Types, Pointers
  <2> QED BY <1>6, <2>1, <2>2
<1>8. \A th \in Threads : (Holds(th)' <=> Holds(th)) /\ (Starting(th)' <=> Starting(th))
  BY <1>2, <1>7 DEF Threads, Holds, Starting, Inserting
<1>9. /\ N1' = N1 /\ N2' = N2 /\ N3' = N3 /\ ListOK'
  BY <1>1, <1>6, <1>7, SameList
<1>10. PoolOK' /\ TimersOK'
  BY <1>1, <1>6, <1>8, <1>9, SameHands
<1>11. TypeOK'
  BY <1>1, <1>6, <1>7 DEF TypeOK, Places, MaxMsgs
<1>12. InputOK(timeout["input"], t["input"])'
  <2>1. \A n \in Listed : Ends(n)' = Ends(n)
    BY <1>1, <1>6, <1>9, SameEnds
  <2>2. Trails(N2)'
    <3>1. \A n : Trails(n)' <=> Trails(n)
      BY <1>6, <1>9, <2>1, SameLeads
    <3> QED BY <1>4, <1>9, <3>1 DEF Trails
  <2>3. Trails(t["input"])'
    BY <1>5, <1>6, <1>9, <2>2 DEF Trails
  <2> QED BY <1>5, <1>6, <1>7, <2>3 DEF InputOK
<1> QED BY <1>2, <1>6, <1>7, <1>9, <1>10, <1>11, <1>12, InputQuiet

LEMMA InputLink4OK ==
  ASSUME IInv, UNCHANGED setting, Behind("input"), pc["input"] = "link4"
  PROVE  IInv'
<1> DEFINE n == timeout["input"]
<1>1. TypeOK /\ ListOK /\ PoolOK /\ TimersOK /\ TimesOK /\ Types
  BY TypesHold DEF IInv
<1>2. pc["tcpip"] = "asleep" /\ Holds("input") /\ Starting("input")
      /\ "input" \in Threads /\ "out" \in Places /\ pc["input"] # "out"
  BY DEF Behind, Runs, Holds, Starting, Inserting, Threads, Places
<1>3. /\ InStep /\ InStepOK /\ Interval["tcp"] \in Nat
      /\ \A m \in Listed : Ends(m) = Interval["tcp"] /\ h[m] \in Timers
      /\ \A timer \in Timers : Interval[timer] = Interval["tcp"]
  BY <1>2, InputRuns
<1>4. /\ n \in Structs /\ n \notin Listed /\ Listed = {N1, N2}
      /\ \A m \in Structs \ {n} : m = N1 \/ m = N2
      /\ next[N2] = NULL /\ ~Trails(N1)
  BY <1>2, InputOrder
<1>5. t["input"] = N2 /\ N2 \in Listed /\ N2 # N1
      /\ time[n] = 0 /\ next[n] = NULL
  <2>1. t["input"] \in Structs \ {n} /\ Trails(t["input"])
        /\ time[n] = 0 /\ next[n] = NULL
    BY <1>3 DEF InStepOK, InputOK
  <2>2. t["input"] # N1
    BY <1>4, <2>1
  <2> QED BY <1>2, <1>4, <2>1, <2>2, InputRuns
<1>6. /\ Goto("input", "out") /\ Rest("input") = "out"
      /\ due' = [due EXCEPT ![handler["input"]] = Interval[handler["input"]]]
      /\ next' = [next EXCEPT ![N2] = n]
      /\ next_timeout' = next_timeout /\ time' = time /\ h' = h
      /\ memp' = memp /\ tcpip_tcp_timer_active' = tcpip_tcp_timer_active
      /\ pcbs' = pcbs /\ mbox' = mbox /\ asked' = asked /\ wait' = wait
      /\ handler' = handler /\ timeout' = timeout /\ t' = t
  BY <1>5 DEF Behind, tcpVars, sleepVars, localVars, Linked, Rest
<1>7. /\ pc' \in [Threads -> Places] /\ pc'["input"] = "out"
      /\ pc'["tcpip"] = pc["tcpip"]
  BY <1>1, <1>2, <1>6, GotoPc DEF Threads
<1>8. /\ ListOK' /\ Listed' = Listed \cup {n} /\ next' \in [Structs -> Pointers]
      /\ N1' = N1
      /\ \A m : m = n => Ends(m)' = Ends(N2) + time[n]
      /\ \A m \in Listed : Ends(m)' = Ends(m)
  BY <1>1, <1>4, <1>5, <1>6, LinkedBehind
<1>9. /\ PoolOK' /\ TimersOK'
      /\ due' \in [Timers -> Int] /\ due'[h[n]] = Interval[h[n]]
      /\ \A m \in Listed : due'[h[m]] = due[h[m]]
      /\ \A timer \in Timers : due[timer] >= 0 => due'[timer] >= 0
  <2>1. \A other \in Threads \ {"input"} : pc'[other] = pc[other]
    BY <1>7 DEF Threads
  <2> QED BY <1>1, <1>2, <1>6, <1>7, <1>8, <2>1, LinkedOne DEF Types
<1>10. TypeOK' /\ Interval' = Interval /\ MaxMsgs' = MaxMsgs
  BY <1>1, <1>6, <1>7, <1>8, <1>9 DEF TypeOK, Places, MaxMsgs, Interval
<1>11. \A m \in Listed' : /\ h[m] \in Timers /\ Ends(m)' = Interval["tcp"]
                          /\ Interval[h[m]] = Interval["tcp"]
  <2>1. \A m : m = n => Ends(m)' = Interval["tcp"]
    BY <1>3, <1>5, <1>8
  <2>2. h[n] \in Timers
    BY <1>1, <1>4 DEF Types
  <2> QED BY <1>3, <1>8, <2>1, <2>2
<1>12. Slept' = Slept /\ Slept \in Nat
  BY <1>1, <1>2, <1>6, <1>7 DEF Slept, TimesOK, TypeOK
<1>13. TimesOK'
  <2>1. \A m : Taken(m) = 0 /\ Taken(m)' = 0
    BY <1>2, <1>7 DEF Taken
  <2>2. \A m \in Listed' : Interval["tcp"] <= Slept + due'[h[m]]
    <3>1. Interval["tcp"] <= Slept + due'[h[n]]
      <4>1. due'[h[n]] = Interval["tcp"]
        BY <1>8, <1>9, <1>11
      <4> QED BY <1>3, <1>12, <4>1
    <3>2. \A m \in Listed : Interval["tcp"] <= Slept + due'[h[m]]
      <4>1. \A m \in Listed : Ends(m) + Taken(m) <= Slept + due[h[m]]
        BY <1>1 DEF TimesOK
      <4> QED BY <1>3, <1>9, <2>1, <4>1
    <3> QED BY <1>8, <3>1, <3>2
  <2>3. \A m \in Listed' : /\ Ends(m)' + Taken(m)' <= Interval[h[m]]
                           /\ Ends(m)' + Taken(m)' <= Slept' + due'[h[m]]
    BY <1>3, <1>11, <1>12, <2>1, <2>2
  <2>4. asked' = time'[N1'] /\ wait' \in 1 .. asked'
    BY <1>1, <1>2, <1>6, <1>8 DEF TimesOK
  <2>5. \A timer \in Timers : due'[timer] >= 0
    BY <1>1, <1>9 DEF TimesOK
  <2> QED BY <1>6, <1>10, <2>3, <2>4, <2>5 DEF TimesOK
<1>14. InsertOK(timeout["tcpip"], t["tcpip"])'
  BY <1>2, <1>7 DEF InsertOK
<1>15. UseOK'
  <2>1. InputOK(timeout["input"], t["input"])'
    BY <1>7 DEF InputOK
  <2>2. InStep'
    BY <1>3, <1>10 DEF InStep
  <2>3. InStepOK'
    BY <1>2, <1>3, <1>6, <1>7, <1>10, <1>11, <2>1 DEF InStepOK
  <2> QED BY <2>2, <2>3 DEF UseOK
<1> QED BY <1>8, <1>9, <1>10, <1>13, <1>14, <1>15 DEF IInv

LEMMA InputInFrontNever == ASSUME IInv, InFront("input") PROVE FALSE
<1>1. pc["tcpip"] = "asleep" /\ pc["input"] \in {"before", "link1", "link2"}
  BY DEF InFront, Runs
<1>2. InStepOK
  BY <1>1, InputRuns
<1> QED BY <1>1, <1>2 DEF InStepOK, InputOK

-----------------------------------------------------------------------------
(* The invariant is inductive.                                              *)

LEMMA StutterOK == ASSUME IInv, UNCHANGED vars PROVE IInv'
<1>1. /\ setting' = setting /\ next_timeout' = next_timeout /\ next' = next
      /\ time' = time /\ h' = h /\ memp' = memp
      /\ tcpip_tcp_timer_active' = tcpip_tcp_timer_active /\ pcbs' = pcbs
      /\ mbox' = mbox /\ asked' = asked /\ wait' = wait /\ pc' = pc
      /\ handler' = handler /\ timeout' = timeout /\ t' = t /\ due' = due
  BY DEF vars, listVars, tcpVars, sleepVars, localVars
<1>2. TypeOK /\ ListOK /\ PoolOK /\ TimersOK /\ TimesOK /\ UseOK
      /\ InsertOK(timeout["tcpip"], t["tcpip"])
  BY DEF IInv
<1>3. TypeOK' /\ Interval' = Interval /\ MaxMsgs' = MaxMsgs
  BY <1>1, <1>2 DEF TypeOK, MaxMsgs, Interval
<1>4. \A th \in Threads : (Holds(th)' <=> Holds(th)) /\ (Starting(th)' <=> Starting(th))
  BY <1>1 DEF Holds, Starting
<1>5. /\ N1' = N1 /\ N2' = N2 /\ N3' = N3 /\ Listed' = Listed
      /\ ListOK' /\ PoolOK' /\ TimersOK'
  BY <1>1, <1>2, <1>4, SamePlaces
<1>6. \A n : Ends(n)' = Ends(n)
  BY <1>1, <1>5 DEF Ends
<1>7. TimesOK'
  <2>1. Slept' = Slept /\ \A n : Taken(n)' = Taken(n)
    BY <1>1, <1>5 DEF Slept, Taken
  <2> QED BY <1>1, <1>2, <1>3, <1>5, <1>6, <2>1 DEF TimesOK
<1>8. InsertOK(timeout["tcpip"], t["tcpip"])'
  BY <1>1, <1>2, <1>3, <1>5, <1>6 DEF InsertOK, Ends
<1>9. UseOK'
  <2>1. CASE Alone /\ pc["input"] = "out"
    BY <1>1, <2>1 DEF UseOK, Alone, Registrars
  <2>2. CASE InStep /\ InStepOK
    <3>1. InputOK(timeout["input"], t["input"])'
      BY <1>1, <1>3, <1>5, <1>6, <2>2, SameInput DEF InStepOK
    <3>2. InStep'
      BY <1>3, <2>2 DEF InStep
    <3>3. InStepOK'
      BY <1>1, <1>3, <1>5, <1>6, <2>2, <3>1 DEF InStepOK
    <3> QED BY <3>2, <3>3 DEF UseOK
  <2> QED BY <1>2, <2>1, <2>2 DEF UseOK
<1> QED BY <1>3, <1>5, <1>7, <1>8, <1>9 DEF IInv

LEMMA NextIInv == IInv /\ [Next]_vars => IInv'
<1>. SUFFICES ASSUME IInv, [Next]_vars PROVE IInv'
  OBVIOUS
<1>1. CASE UNCHANGED vars
  BY <1>1, StutterOK
<1>2. ASSUME UNCHANGED setting, SysTimeout("tcpip") PROVE IInv'
  <2>1. CASE Malloc("tcpip")
    BY <1>2, <2>1, MallocOK
  <2>2. CASE First("tcpip")
    BY <1>2, <2>2, FirstOK
  <2>3. CASE InFront("tcpip")
    <3>1. pc["tcpip"] \in {"before", "link1", "link2"}
      BY <2>3 DEF InFront
    <3> QED BY <1>2, <2>3, <3>1, BeforeOK, Link1OK, Link2OK
  <2>4. CASE Pass("tcpip")
    BY <1>2, <2>4, PassOK
  <2>5. CASE Test("tcpip")
    BY <1>2, <2>5, TestOK
  <2>6. CASE Behind("tcpip")
    <3>1. pc["tcpip"] \in {"shift", "link3", "link4"}
      BY <2>6 DEF Behind
    <3> QED BY <1>2, <2>6, <3>1, ShiftOK, Link3OK, Link4OK
  <2> QED BY <1>2, <2>1, <2>2, <2>3, <2>4, <2>5, <2>6 DEF SysTimeout
<1>3. ASSUME UNCHANGED setting, SysTimeout("input") PROVE IInv'
  <2>1. CASE Malloc("input")
    BY <1>3, <2>1, InputMallocOK
  <2>2. CASE First("input")
    BY <1>3, <2>2, InputFirstOK
  <2>3. CASE InFront("input")
    BY <2>3, InputInFrontNever
  <2>4. CASE Pass("input")
    BY <1>3, <2>4, InputPassOK
  <2>5. CASE Test("input")
    BY <1>3, <2>5, InputTestOK
  <2>6. CASE Behind("input")
    <3>1. pc["input"] \in {"shift", "link3", "link4"}
      BY <2>6 DEF Behind
    <3> QED BY <1>3, <2>6, <3>1, InputBehindOK, InputLink4OK
  <2> QED BY <1>3, <2>1, <2>2, <2>3, <2>4, <2>5, <2>6 DEF SysTimeout
<1>4. CASE Next
  <2>1. UNCHANGED setting
    BY <1>4 DEF Next
  <2>2. CASE \E th \in Threads : SysTimeout(th) \/ TimerNeeded(th)
    BY <1>2, <1>3, <2>1, <2>2, TimerNeededOK, InputNeededOK DEF Threads
  <2>3. CASE InputSegment
    BY <2>1, <2>3, InputSegmentOK
  <2>4. CASE Expire
    BY <2>1, <2>4, ExpireOK
  <2>5. CASE Again
    BY <2>1, <2>5, AgainOK
  <2>6. CASE Post
    BY <2>1, <2>6, PostOK
  <2>7. CASE HandleMessage
    BY <2>1, <2>7, HandleMessageOK
  <2>8. CASE Tick
    BY <2>1, <2>8, TickOK
  <2> QED BY <1>4, <2>2, <2>3, <2>4, <2>5, <2>6, <2>7, <2>8 DEF Next
<1> QED BY <1>1, <1>4

-----------------------------------------------------------------------------
(* What the properties count.                                               *)

LEMMA ThreeStructs == Cardinality(Structs) = 3
<1>1. Cardinality({1}) = 1 /\ IsFiniteSet({1})
  BY FS_Singleton
<1>2. Cardinality({1} \cup {2}) = 2 /\ IsFiniteSet({1} \cup {2})
  BY <1>1, FS_AddElement
<1>3. Cardinality(({1} \cup {2}) \cup {3}) = 3
  BY <1>2, FS_AddElement
<1>4. Structs = ({1} \cup {2}) \cup {3}
  BY StructsAre
<1> QED BY <1>3, <1>4

\* The recursive function of Nodes has a solution, and so it is that solution.
LEMMA NodesListed ==
  ASSUME Types, ListOK, NEW k \in {3, 4}
  PROVE  Nodes(k) = Listed
<1> DEFINE Solves(f) ==
             f = [i \in Nat |-> IF i = 0 THEN next_timeout
                                ELSE IF f[i - 1] = NULL THEN NULL ELSE next[f[i - 1]]]
           solution == [i \in Nat |-> IF i = 0 THEN N1 ELSE IF i = 1 THEN N2
                                      ELSE IF i = 2 THEN N3 ELSE NULL]
           node[i \in Nat] ==
             IF i = 0 THEN next_timeout
             ELSE IF node[i - 1] = NULL THEN NULL ELSE next[node[i - 1]]
<1>1. Solves(solution)
  <2>1. N1 = next_timeout
    BY DEF N1
  <2>2. N2 = IF N1 = NULL THEN NULL ELSE next[N1]
    BY DEF N2, After
  <2>3. N3 = IF N2 = NULL THEN NULL ELSE next[N2]
    BY DEF N3, After
  <2>4. N3 # NULL => next[N3] = NULL
    BY DEF ListOK
  <2>5. \A i \in Nat :
          solution[i] = IF i = 0 THEN next_timeout
                        ELSE IF solution[i - 1] = NULL THEN NULL ELSE next[solution[i - 1]]
    <3>. SUFFICES ASSUME NEW i \in Nat
                  PROVE  solution[i] = IF i = 0 THEN next_timeout
                           ELSE IF solution[i - 1] = NULL THEN NULL ELSE next[solution[i - 1]]
      OBVIOUS
    <3>1. i = 0 \/ i - 1 \in Nat
      OBVIOUS
    <3>2. i # 0 => solution[i - 1] = IF i = 1 THEN N1 ELSE IF i = 2 THEN N2
                                     ELSE IF i = 3 THEN N3 ELSE NULL
      BY <3>1
    <3> QED BY <2>1, <2>2, <2>3, <2>4, <3>2
  <2> HIDE DEF N1, N2, N3
  <2> QED BY <2>5
<1>2. Solves(CHOOSE f : Solves(f))
  <2> HIDE DEF Solves, solution
  <2> QED BY <1>1
<1>3. node = CHOOSE f : Solves(f)
  OBVIOUS
<1>4. Solves(node)
  <2> HIDE DEF Solves, solution, node
  <2> QED BY <1>2, <1>3
<1>5. \A i \in Nat : node[i] = IF i = 0 THEN next_timeout
                               ELSE IF node[i - 1] = NULL THEN NULL ELSE next[node[i - 1]]
  <2> HIDE DEF node
  <2> QED BY <1>4
<1>6. Nodes(k) = {node[i] : i \in 0 .. k - 1} \ {NULL}
  BY DEF Nodes
<1> HIDE DEF node, Solves, solution
<1>7. node[0] = N1
  BY <1>5 DEF N1
<1>8. node[1] = N2
  <2>1. 1 \in Nat /\ 1 # 0 /\ 1 - 1 = 0
    OBVIOUS
  <2>2. node[1] = IF node[0] = NULL THEN NULL ELSE next[node[0]]
    BY <1>5, <2>1
  <2> QED BY <1>7, <2>2 DEF N2, After
<1>9. node[2] = N3
  <2>1. 2 \in Nat /\ 2 # 0 /\ 2 - 1 = 1
    OBVIOUS
  <2>2. node[2] = IF node[1] = NULL THEN NULL ELSE next[node[1]]
    BY <1>5, <2>1
  <2> QED BY <1>8, <2>2 DEF N3, After
<1>10. node[3] = NULL
  <2>1. 3 \in Nat /\ 3 # 0 /\ 3 - 1 = 2
    OBVIOUS
  <2>2. node[3] = IF node[2] = NULL THEN NULL ELSE next[node[2]]
    BY <1>5, <2>1
  <2> QED BY <1>9, <2>2 DEF ListOK
<1>11. CASE k = 3
  <2>1. 0 .. k - 1 = {0, 1, 2}
    BY <1>11
  <2> QED BY <1>6, <1>7, <1>8, <1>9, <2>1 DEF Listed
<1>12. CASE k = 4
  <2>1. 0 .. k - 1 = {0, 1, 2, 3}
    BY <1>12
  <2> QED BY <1>6, <1>7, <1>8, <1>9, <1>10, <2>1 DEF Listed
<1> QED BY <1>11, <1>12

-----------------------------------------------------------------------------
(* The theorems.                                                            *)

LEMMA IInvAlways ==
  ASSUME \A s \in Settings :
           \/ s.registrars \subseteq {"tcpip"}
           \/ /\ s.maxMsgs = 0
              /\ \A timer, other \in Timers : s.interval[timer] = s.interval[other]
  PROVE  Spec => []IInv
<1>1. Init => IInv
  BY InitIInv
<1> QED BY <1>1, NextIInv, PTL DEF Spec

\* The variables keep their types: no statement of sys_timeout follows a NULL
\* pointer, and no time left wraps around.
THEOREM TypeCorrect ==
  ASSUME \A s \in Settings :
           \/ s.registrars \subseteq {"tcpip"}
           \/ /\ s.maxMsgs = 0
              /\ \A timer, other \in Timers : s.interval[timer] = s.interval[other]
  PROVE  Spec => []TypeOK
<1>1. IInv => TypeOK
  BY DEF IInv
<1> QED BY <1>1, IInvAlways, PTL

\* sys_timeout and sys_timeouts_mbox_fetch keep the list a list, with any
\* intervals and messages if tcpip_thread alone registers connections, and with
\* equal intervals even if FlyEthernetTask does as well.
THEOREM ListStaysIntact ==
  ASSUME \A s \in Settings :
           \/ s.registrars \subseteq {"tcpip"}
           \/ /\ s.maxMsgs = 0
              /\ \A timer, other \in Timers : s.interval[timer] = s.interval[other]
  PROVE  Spec => []ListIntact
<1>1. IInv => ListIntact
  <2>. SUFFICES ASSUME IInv PROVE ListIntact
    OBVIOUS
  <2>1. Types /\ ListOK /\ PoolOK
    BY TypesHold DEF IInv
  <2>2. Nodes(3) = Listed /\ Nodes(4) = Listed
    BY <2>1, NodesListed
  <2>3. \A n \in Structs : n \in Range(memp) <=> n \notin Listed \cup InHand
    <3>1. DOMAIN memp = 1 .. Len(memp)
      BY <2>1 DEF PoolOK
    <3> QED BY <2>1, <3>1 DEF PoolOK, Range
  <2>4. Listed \subseteq Structs /\ InHand \subseteq Structs /\ Range(memp) \subseteq Structs
    <3>1. InHand \subseteq Structs
      BY <2>1 DEF InHand, PoolOK, Holds
    <3> QED BY <2>1, <3>1 DEF IInv, TypeOK, Types
  <2>5. Listed \cap Range(memp) = {} /\ Listed \cup Range(memp) \cup InHand = Structs
    BY <2>3, <2>4
  <2> QED BY <2>2, <2>5, ThreeStructs DEF ListIntact
<1> QED BY <1>1, IInvAlways, PTL

\* Each timer that goes on is in the list exactly once while tcpip_thread sleeps,
\* unless FlyEthernetTask is just starting it: none is lost or started twice by
\* arp_timer, ip_reass_timer, tcpip_tcp_timer or tcp_timer_needed.
THEOREM TimersRunOnce ==
  ASSUME \A s \in Settings :
           \/ s.registrars \subseteq {"tcpip"}
           \/ /\ s.maxMsgs = 0
              /\ \A timer, other \in Timers : s.interval[timer] = s.interval[other]
  PROVE  Spec => []EachTimerOnce
<1>1. IInv => EachTimerOnce
  <2>. SUFFICES ASSUME IInv, pc["tcpip"] = "asleep", NEW timer \in Armed
                PROVE  Cardinality({n \in Nodes(Cardinality(Structs)) : h[n] = timer}) = 1
    BY DEF EachTimerOnce
  <2>1. Types /\ ListOK /\ TimersOK
    BY TypesHold DEF IInv
  <2>2. Nodes(Cardinality(Structs)) = Listed
    BY <2>1, NodesListed, ThreeStructs
  <2>3. PICK n \in Listed : h[n] = timer
    BY <2>1, ArmedRuns DEF Running
  <2>4. {m \in Listed : h[m] = timer} = {n}
    BY <2>1, <2>3 DEF TimersOK
  <2> QED BY <2>2, <2>4, FS_Singleton
<1> QED BY <1>1, IInvAlways, PTL

\* No timer expires late, whatever messages come to tcpip_thread in between.
THEOREM TimersNotLate ==
  ASSUME \A s \in Settings :
           \/ s.registrars \subseteq {"tcpip"}
           \/ /\ s.maxMsgs = 0
              /\ \A timer, other \in Timers : s.interval[timer] = s.interval[other]
  PROVE  Spec => []NoTimerLate
<1>1. IInv => NoTimerLate
  BY DEF IInv, TimesOK, NoTimerLate
<1> QED BY <1>1, IInvAlways, PTL
=============================================================================
