----------------------------- MODULE EthArp_proof -----------------------------
(***************************************************************************)
(* What is proved of EthArp, for every number of hosts, entries, ages and  *)
(* lost requests: the table is sound, every packet goes to its next hop, a *)
(* packet that waits is not given up needlessly, and an entry in use does  *)
(* not expire.  tcpip_thread does not come between the two steps of an     *)
(* operation: otherwise RightHost fails.                                   *)
(***************************************************************************)
EXTENDS EthArp, FiniteSetTheorems, TLAPS

-----------------------------------------------------------------------------
(* The inductive invariant.                                                *)

Uses == {"unused", "used", "idle"}
Entry == [state : States, ip : Hosts \cup {None}, ethaddr : Hosts \cup {None},
          ctime : 0 .. ARP_MAXAGE, q : Packets \cup {None}]

\* An entry that is not empty is a host's, a stable one has its Ethernet
\* address, and the packet that waits is for that host.
EntryOK(e) ==
  /\ e.state # "EMPTY" => e.ip \in Hosts /\ e.ctime < ARP_MAXAGE
  /\ e.state \in StableStates => e.ethaddr = e.ip
  /\ e.q # None => e.state = "PENDING" /\ Hop(e.q) = e.ip

\* No other entry than i is the host's.
Only(T, i, ip) == \A j \in Slots : T[j].state # "EMPTY" /\ T[j].ip = ip => j = i

TableOK(T) ==
  /\ T \in [Slots -> Entry]
  /\ \A i \in Slots : EntryOK(T[i])
  /\ \A i \in Slots : T[i].state # "EMPTY" => Only(T, i, T[i].ip)

\* The entry i is ready to be filled for the host.
Ready(T, i, ip) ==
  /\ T[i].ip = ip
  /\ T[i].state = "EMPTY" => T[i].ctime = 0
  /\ Only(T, i, ip)

WorkOK(T, w) ==
  /\ w.op \in {"output", "query", "update"}
  /\ w.at \in Slots \cup {NoSlot} /\ w.ip \in Hosts
  /\ w.at # NoSlot => Ready(T, w.at, w.ip)
  /\ w.op = "output" => w.at \in Slots /\ T[w.at].state \in StableStates
  /\ w.op # "update" => w.p \in Packets /\ w.ip = Hop(w.p)
  /\ w.op = "update" => w.ip \notin Silent

\* As often as an interval has passed since an entry in use was to be asked
\* for, a request has been lost; an answer is under way, or one more was lost.
Renewed(T, u, req, lo, w, i) ==
  /\ T[i].ip \notin Silent
  /\ u[i] # "idle" => T[i].ctime <= lo + ARP_AGE_REREQUEST_USED
  /\ u[i] = "unused" => T[i].state = "STABLE"
  /\ u[i] = "used" => \/ T[i].ip \in req
                      \/ w.op = "update" /\ w.at = i
                      \/ T[i].ctime < lo + ARP_AGE_REREQUEST_USED

StateOK(T, h, u, req, lo, w) ==
  /\ TableOK(T) /\ h \in Slots /\ u \in [Slots -> Uses]
  /\ req \in SUBSET (Hosts \ Silent) /\ lo \in 0 .. MaxLost
  /\ w = NoWork \/ WorkOK(T, w)
  /\ \A i \in Recyclable(T) : Renewed(T, u, req, lo, w, i)

FrameOK(f) == f # NoFrame => f.to = Hop(f.p)

IInv == StateOK(table, hint, use, requested, lost, work) /\ FrameOK(sent)

USE ArpAssumption

-----------------------------------------------------------------------------
(* Induction over sets of natural numbers, from the library's theorem that *)
(* strict inclusion of finite sets is well founded.                        *)

LEMMA LeastNatural ==
  ASSUME NEW B \in SUBSET Nat, B # {}
  PROVE  \E m \in B : \A k \in B : m <= k
<1>. DEFINE Below == {0 .. n : n \in B}
            R == StrictSubsetOrdering(Nat)
            S == FiniteSubsetsOf(Nat)
<1>1. IsWellFoundedOn(R, S)
  BY FS_StrictSubsetOrderingWellFounded
<1>2. Below \subseteq S
  <2>1. ASSUME NEW n \in B
        PROVE  0 .. n \in S
    <3>1. n \in Nat /\ 0 \in Int /\ n \in Int
      OBVIOUS
    <3>2. IsFiniteSet(0 .. n)
      BY <3>1, FS_Interval
    <3>3. 0 .. n \in SUBSET Nat
      BY <3>1
    <3> QED BY <3>2, <3>3 DEF FiniteSubsetsOf
  <2> QED BY <2>1
<1>3. Below # {}
  OBVIOUS
<1>4. \E x \in Below : \A y \in Below : ~(<<y, x>> \in R)
  <2>. HIDE DEF Below, R, S
  <2> QED BY <1>1, <1>2, <1>3, WFMin
<1>5. PICK m \in B : \A k \in B : ~(<<0 .. k, 0 .. m>> \in R)
  BY <1>4
<1>6. ASSUME NEW k \in B, ~(m <= k)
      PROVE  FALSE
  <2>1. 0 .. k \subseteq 0 .. m /\ m \in 0 .. m /\ m \notin 0 .. k
    BY <1>6
  <2>2. 0 .. k # 0 .. m
    BY <2>1
  <2>3. <<0 .. k, 0 .. m>> \in R
    BY <2>1, <2>2 DEF StrictSubsetOrdering
  <2> QED BY <2>3, <1>5
<1> QED BY <1>6

LEMMA Induction ==
  ASSUME NEW S, 0 \in S, \A n \in Nat : n \in S => n + 1 \in S
  PROVE  Nat \subseteq S
<1>. SUFFICES ASSUME Nat \ S # {} PROVE FALSE
  OBVIOUS
<1>1. PICK m \in Nat \ S : \A k \in Nat \ S : m <= k
  BY LeastNatural
<1>2. m - 1 \in Nat /\ m - 1 \notin Nat \ S
  BY <1>1
<1> QED BY <1>1, <1>2

LEMMA MinIn ==
  ASSUME NEW B \in SUBSET Nat, B # {}
  PROVE  Min(B) \in B
BY LeastNatural DEF Min

-----------------------------------------------------------------------------
(* The search.                                                             *)

LEMMA OldestOfIn ==
  ASSUME NEW T, NEW S \in SUBSET Slots
  PROVE  OldestOf(T, S) \in S \cup {NoSlot}
<1>. DEFINE Start == [at |-> NoSlot, age |-> 0]
            Step(b, n) == IF n - 1 \in S /\ T[n - 1].ctime >= b.age
                          THEN [at |-> n - 1, age |-> T[n - 1].ctime % Byte]
                          ELSE b
            Search(g, m) == g = [n \in 0 .. m |-> IF n = 0 THEN Start ELSE Step(g[n - 1], n)]
            best == CHOOSE g : Search(g, ARP_TABLE_SIZE)
            Defined == {m \in Nat : \E g : Search(g, m)}
<1>1. OldestOf(T, S) = best[ARP_TABLE_SIZE].at
  BY DEF OldestOf
<1>2. Nat \subseteq Defined
  <2>1. 0 \in Defined
    <3>1. Search([n \in 0 .. 0 |-> Start], 0)
      OBVIOUS
    <3> QED BY <3>1
  <2>2. ASSUME NEW m \in Nat, m \in Defined
        PROVE  m + 1 \in Defined
    <3>1. PICK g : Search(g, m)
      BY <2>2
    <3>. DEFINE h == [n \in 0 .. m + 1 |-> IF n = 0 THEN Start ELSE Step(g[n - 1], n)]
    <3>. HIDE DEF Start, Step
    <3>2. \A n \in 0 .. m : h[n] = g[n]
      BY <3>1
    <3>3. ASSUME NEW n \in 0 .. m + 1
          PROVE  h[n] = IF n = 0 THEN Start ELSE Step(h[n - 1], n)
      <4>1. CASE n = 0
        BY <4>1
      <4>2. CASE n # 0
        <5>1. n - 1 \in 0 .. m
          BY <4>2
        <5>2. h[n - 1] = g[n - 1]
          BY <5>1, <3>2
        <5> QED BY <4>2, <5>2
      <4> QED BY <4>1, <4>2
    <3>4. Search(h, m + 1)
      <4>1. h = [n \in 0 .. m + 1 |-> h[n]]
        OBVIOUS
      <4>. HIDE DEF h
      <4> QED BY <4>1, <3>3
    <3> QED
      <4>. HIDE DEF Search, h
      <4> QED BY <3>4
  <2> QED BY <2>1, <2>2, Induction
<1>3. Search(best, ARP_TABLE_SIZE)
  <2>1. \E g : Search(g, ARP_TABLE_SIZE)
    BY <1>2
  <2>. HIDE DEF Search
  <2> QED BY <2>1
<1>. DEFINE FindInv == {n \in Nat : n <= ARP_TABLE_SIZE => best[n].at \in S \cup {NoSlot}}
<1>4. Nat \subseteq FindInv
  <2>. HIDE DEF best
  <2>1. 0 \in FindInv
    BY <1>3
  <2>2. ASSUME NEW n \in Nat, n \in FindInv
        PROVE  n + 1 \in FindInv
    <3>. SUFFICES ASSUME n + 1 <= ARP_TABLE_SIZE
                  PROVE  best[n + 1].at \in S \cup {NoSlot}
      OBVIOUS
    <3>1. best[n + 1] = Step(best[n], n + 1)
      BY <1>3
    <3> QED BY <3>1, <2>2
  <2> QED BY <2>1, <2>2, Induction
<1> QED
  <2>. HIDE DEF best
  <2> QED BY <1>1, <1>4

LEMMA AgeIn ==
  ASSUME NEW T, TableOK(T)
  PROVE  \A i \in Slots : T[i].ctime \in Nat
BY DEF TableOK, Entry

\* What is left of the table is sound, and a packet is given up only when
\* every entry has one or is static.
LEMMA VictimIn ==
  ASSUME NEW T, TableOK(T)
  PROVE  /\ Victim(T) \in Slots \cup {NoSlot}
         /\ Victim(T) # NoSlot /\ T[Victim(T)].q # None =>
              \A j \in Slots : T[j].state = "STATIC" \/ j \in Queueing(T)
<1>. DEFINE v == Victim(T)
<1>1. CASE Empty(T) # {}
  <2>1. v \in Empty(T)
    BY <1>1, MinIn DEF Victim, Empty, Slots
  <2> QED BY <2>1 DEF Empty, TableOK, EntryOK
<1>2. CASE Empty(T) = {} /\ Recyclable(T) # {}
  <2>1. v \in Recyclable(T) \cup {NoSlot}
    BY <1>2, OldestOfIn DEF Victim, Recyclable
  <2> QED BY <2>1 DEF Recyclable, TableOK, EntryOK, StableStates
<1>3. CASE Empty(T) = {} /\ Recyclable(T) = {} /\ Waiting(T) # {}
  <2>1. v \in Waiting(T) \cup {NoSlot}
    BY <1>3, OldestOfIn DEF Victim, Waiting
  <2> QED BY <2>1 DEF Waiting
<1>4. CASE Empty(T) = {} /\ Recyclable(T) = {} /\ Waiting(T) = {}
  <2>1. v \in Queueing(T) \cup {NoSlot}
    BY <1>4, OldestOfIn DEF Victim, Queueing
  <2>2. \A j \in Slots : T[j].state \in States
    BY DEF TableOK, Entry
  <2>3. \A j \in Slots : T[j].state = "STATIC" \/ j \in Queueing(T)
    BY <1>4, <2>2 DEF Empty, Recyclable, Waiting, Queueing, States, StableStates
  <2> QED BY <2>1, <2>3 DEF Queueing
<1> QED BY <1>1, <1>2, <1>3, <1>4

\* One entry is changed, and it is the only one of its host.
LEMMA EntryChanged ==
  ASSUME NEW T, TableOK(T), NEW i \in Slots, NEW e \in Entry, EntryOK(e),
         Only(T, i, e.ip)
  PROVE  TableOK([T EXCEPT ![i] = e])
<1>. DEFINE U == [T EXCEPT ![i] = e]
<1>1. U \in [Slots -> Entry] /\ U[i] = e /\ \A j \in Slots : j # i => U[j] = T[j]
  BY DEF TableOK
<1>. HIDE DEF U
<1>2. \A j \in Slots : EntryOK(U[j])
  BY <1>1 DEF TableOK
<1>3. ASSUME NEW j \in Slots, U[j].state # "EMPTY"
      PROVE  Only(U, j, U[j].ip)
  BY <1>1, <1>3 DEF TableOK, Only
<1> QED BY <1>1, <1>2, <1>3 DEF TableOK

\* The entry that was found, or made ready, for a host.
Recycled(T, U, i) ==
  /\ U[i].state = "EMPTY" /\ U[i].ctime = 0
  /\ T[i].q # None => \A j \in Slots : T[j].state = "STATIC" \/ j \in Queueing(T)

LEMMA FindEntry ==
  ASSUME NEW T, TableOK(T), NEW ip \in Hosts, NEW tryhard \in BOOLEAN,
         NEW f, f = etharp_find_entry(T, ip, tryhard)
  PROVE  /\ f.at \in Slots \cup {NoSlot}
         /\ f.at # NoSlot => Ready(f.table, f.at, ip)
         /\ TableOK(f.table)
         /\ \A i \in Slots : f.table[i] = T[i] \/ (i = f.at /\ Recycled(T, f.table, i))
<1>. DEFINE v == Victim(T)
            e == [T[v] EXCEPT !.state = "EMPTY", !.q = None, !.ip = ip, !.ctime = 0]
<1>1. CASE Matching(T, ip) # {}
  <2>1. f.at = Min(Matching(T, ip)) /\ f.table = T
    BY <1>1 DEF etharp_find_entry
  <2>2. f.at \in Matching(T, ip)
    BY <1>1, <2>1, MinIn DEF Matching, Slots
  <2> QED BY <2>1, <2>2 DEF Matching, Ready, TableOK, Only
<1>2. CASE Matching(T, ip) = {} /\ (~tryhard \/ v = NoSlot)
  <2>1. f.at = NoSlot /\ f.table = T
    BY <1>2 DEF etharp_find_entry
  <2> QED BY <2>1
<1>3. CASE Matching(T, ip) = {} /\ tryhard /\ v # NoSlot
  <2>1. f.at = v /\ f.table = [T EXCEPT ![v] = e]
    BY <1>3 DEF etharp_find_entry
  <2>2. /\ v \in Slots
        /\ T[v].q # None => \A j \in Slots : T[j].state = "STATIC" \/ j \in Queueing(T)
    BY <1>3, VictimIn
  <2>3. T[v] \in Entry /\ T \in [Slots -> Entry]
    BY <2>2 DEF TableOK
  <2>4. e \in Entry /\ e.state = "EMPTY" /\ e.ctime = 0 /\ e.ip = ip /\ e.q = None
    <3>. HIDE DEF v
    <3>1. 0 \in 0 .. ARP_MAXAGE /\ "EMPTY" \in States
      BY DEF States
    <3> QED BY <2>3, <3>1 DEF Entry
  <2>5. Only(T, v, ip)
    BY <1>3 DEF Only, Matching
  <2>. HIDE DEF v, e
  <2>6. EntryOK(e)
    BY <2>4 DEF EntryOK, StableStates
  <2>7. TableOK(f.table)
    BY <2>1, <2>2, <2>4, <2>5, <2>6, EntryChanged
  <2>8. f.table[v] = e /\ \A i \in Slots : i # v => f.table[i] = T[i]
    BY <2>1, <2>2, <2>3
  <2>9. Ready(f.table, v, ip)
    BY <2>4, <2>5, <2>8 DEF Ready, Only
  <2>10. Recycled(T, f.table, v)
    BY <2>2, <2>4, <2>8 DEF Recycled
  <2>11. f.at = v
    BY <2>1
  <2> QED BY <2>2, <2>7, <2>8, <2>9, <2>10, <2>11
<1> QED BY <1>1, <1>2, <1>3

\* What etharp_find_entry leaves behind is still right.
LEMMA FoundOK ==
  ASSUME NEW T, NEW U, NEW h, NEW u, NEW req, NEW lo, NEW w, NEW at,
         StateOK(T, h, u, req, lo, NoWork),
         TableOK(U), WorkOK(U, w),
         \A i \in Slots : U[i] = T[i] \/ (i = w.at /\ Recycled(T, U, i))
  PROVE  StateOK(U, h, u, req, lo, w)
<1>1. ASSUME NEW i \in Recyclable(U)
      PROVE  Renewed(U, u, req, lo, w, i)
  <2>1. i \in Slots /\ U[i] = T[i] /\ i \in Recyclable(T)
    BY DEF Recyclable, Recycled, StableStates
  <2>2. Renewed(T, u, req, lo, NoWork, i) /\ NoWork.op = "none"
    BY <2>1 DEF StateOK, NoWork
  <2> QED BY <2>1, <2>2 DEF Renewed
<1> QED BY <1>1 DEF StateOK

-----------------------------------------------------------------------------
(* What is done with the entry that was found.                             *)

Full == {"request", "packet"}
Begun(T, h, u) == [table |-> T, hint |-> h, sent |-> NoFrame, asks |-> {}, use |-> u]
Asked(req, asks, ok) == req \cup IF "request" \in ok THEN asks \ Silent ELSE {}
Lost(lo, ok) == IF ok = Full THEN lo ELSE lo + 1

\* The state r is right, its packet goes to its next hop, every entry is still
\* for the host that it was for, and none has become older.
Done(T, r, req, lo) ==
  /\ StateOK(r.table, r.hint, r.use, req, lo, NoWork)
  /\ FrameOK(r.sent)
  /\ \A i \in Slots : /\ r.table[i].ip = T[i].ip
                      /\ r.table[i].ctime <= T[i].ctime

LEMMA LostOK ==
  ASSUME NEW lo \in 0 .. MaxLost, NEW ok \in Oks, ok # Full => lo < MaxLost
  PROVE  Lost(lo, ok) \in 0 .. MaxLost /\ lo <= Lost(lo, ok)
BY DEF Lost

\* Entries that are not worked on stay renewed.
LEMMA StillRenewed ==
  ASSUME NEW T, NEW U, NEW u, NEW u2, NEW req, NEW req2, NEW lo \in Nat, NEW lo2 \in Nat, NEW w,
         NEW i \in Slots, Renewed(T, u, req, lo, w, i), T[i] \in Entry,
         U[i] = T[i], u2[i] = u[i], req \subseteq req2, lo <= lo2,
         ~(w.op = "update" /\ w.at = i)
  PROVE  Renewed(U, u2, req2, lo2, NoWork, i)
BY DEF Renewed, NoWork, Entry

LEMMA UpdatedDone ==
  ASSUME NEW T, NEW h, NEW u, NEW req, NEW lo, NEW w, StateOK(T, h, u, req, lo, w),
         NEW i \in Slots, NEW ip \in Hosts, NEW static \in BOOLEAN,
         Ready(T, i, ip), static \/ ip \notin Silent,
         w = NoWork \/ (w.op = "update" /\ w.at = i),
         NEW lo2 \in 0 .. MaxLost, lo <= lo2,
         NEW r, r = Updated(Begun(T, h, u), i, ip, static)
  PROVE  Done(T, r, req, lo2) /\ r.asks = {}
<1>. DEFINE state == IF static THEN "STATIC" ELSE "STABLE"
            e == [T[i] EXCEPT !.state = state, !.ethaddr = ip, !.ctime = 0, !.q = None]
<1>1. /\ r.table = [T EXCEPT ![i] = e] /\ r.hint = h /\ r.asks = {}
      /\ r.use = [u EXCEPT ![i] = "unused"]
      /\ r.sent = IF T[i].q # None THEN [p |-> T[i].q, to |-> ip] ELSE NoFrame
  BY DEF Updated, Begun
<1>2. T \in [Slots -> Entry] /\ T[i] \in Entry /\ EntryOK(T[i]) /\ T[i].ip = ip
  BY DEF StateOK, TableOK, Ready
<1>3. state \in StableStates
  BY DEF StableStates
<1>4. /\ e \in Entry /\ e.state = state /\ e.ethaddr = ip /\ e.ctime = 0 /\ e.q = None
      /\ e.ip = ip
  <2>. HIDE DEF state
  <2>1. 0 \in 0 .. ARP_MAXAGE /\ state \in States
    BY <1>3 DEF States
  <2> QED BY <1>2, <2>1 DEF Entry
<1>5. static => state = "STATIC"
  OBVIOUS
<1>6. ~static => state = "STABLE"
  OBVIOUS
<1>. HIDE DEF state, e
<1>7. EntryOK(e) /\ Only(T, i, e.ip)
  BY <1>4, <1>3 DEF EntryOK, Ready
<1>8. TableOK(r.table)
  BY <1>1, <1>4, <1>7, EntryChanged DEF StateOK
<1>9. /\ r.table[i] = e /\ \A j \in Slots : j # i => r.table[j] = T[j]
      /\ r.use \in [Slots -> Uses] /\ r.use[i] = "unused"
      /\ \A j \in Slots : j # i => r.use[j] = u[j]
  BY <1>1, <1>2 DEF StateOK, Uses
<1>10. ASSUME NEW j \in Recyclable(r.table)
       PROVE  Renewed(r.table, r.use, req, lo2, NoWork, j)
  <2>1. CASE j = i
    <3>1. ip \notin Silent /\ state = "STABLE"
      BY <1>4, <1>5, <1>6, <1>9, <2>1 DEF Recyclable
    <3> QED BY <2>1, <3>1, <1>4, <1>9 DEF Renewed
  <2>2. CASE j # i
    <3>1. j \in Slots /\ r.table[j] = T[j] /\ r.use[j] = u[j] /\ j \in Recyclable(T)
      BY <2>2, <1>9 DEF Recyclable
    <3>2. Renewed(T, u, req, lo, w, j) /\ T[j] \in Entry /\ lo \in Nat /\ lo2 \in Nat
      BY <3>1, <1>2 DEF StateOK
    <3>3. ~(w.op = "update" /\ w.at = j)
      BY <2>2 DEF NoWork
    <3> QED BY <3>1, <3>2, <3>3, StillRenewed
  <2> QED BY <2>1, <2>2
<1>11. FrameOK(r.sent)
  BY <1>1, <1>2 DEF FrameOK, EntryOK
<1>12. \A j \in Slots : /\ r.table[j].ip = T[j].ip
                        /\ r.table[j].ctime <= T[j].ctime
  BY <1>2, <1>3, <1>4, <1>9, AgeIn DEF StateOK
<1> QED BY <1>1, <1>8, <1>9, <1>10, <1>11, <1>12 DEF Done, StateOK

LEMMA OutputDone ==
  ASSUME NEW T, NEW h, NEW u, NEW req, NEW lo, NEW w, StateOK(T, h, u, req, lo, w),
         WorkOK(T, w), w.op = "output", NEW ok \in Oks, ok # Full => lo < MaxLost,
         NEW r, r = OutputToIndex(Begun(T, h, u), w.at, w.p, ok)
  PROVE  Done(T, r, Asked(req, r.asks, ok), Lost(lo, ok))
<1>. DEFINE i == w.at
            renew == T[i].state = "STABLE" /\ T[i].ctime >= ARP_AGE_REREQUEST_USED
            state == IF renew /\ "request" \in ok THEN "STABLE_REREQUESTING" ELSE T[i].state
            e == [T[i] EXCEPT !.state = state]
            used == IF u[i] = "unused" THEN "used" ELSE u[i]
            req2 == Asked(req, r.asks, ok)
            lo2 == Lost(lo, ok)
<1>1. i \in Slots /\ T[i].state \in StableStates /\ Ready(T, i, w.ip) /\ w.ip = Hop(w.p)
  BY DEF WorkOK, Slots, NoSlot
<1>2. /\ T \in [Slots -> Entry] /\ T[i] \in Entry /\ EntryOK(T[i]) /\ T[i].ip = w.ip
      /\ u \in [Slots -> Uses] /\ w.ip \in Hosts /\ T[i].ethaddr = w.ip
      /\ req \in SUBSET (Hosts \ Silent) /\ lo \in 0 .. MaxLost
  BY <1>1 DEF StateOK, TableOK, Ready, EntryOK, WorkOK
<1>3. /\ r.table = [T EXCEPT ![i].state = state] /\ r.hint = h
      /\ r.asks = (IF renew THEN {T[i].ip} ELSE {})
      /\ r.use = Used(u, i)
      /\ r.sent = [p |-> w.p, to |-> T[i].ethaddr]
  BY <1>1, <1>2 DEF OutputToIndex, Begun
<1>4. e \in Entry /\ e = [T[i] EXCEPT !.state = state] /\ state \in StableStates
  <2>1. state \in States /\ state \in StableStates
    BY <1>1 DEF States, StableStates
  <2>. HIDE DEF state
  <2> QED BY <1>2, <2>1 DEF Entry
<1>5. r.table = [T EXCEPT ![i] = e]
  BY <1>3
<1>6. r.use \in [Slots -> Uses] /\ r.use[i] = used /\ \A j \in Slots : j # i => r.use[j] = u[j]
  BY <1>1, <1>2, <1>3 DEF Used, Uses
<1>7. /\ e.state = state /\ e.ethaddr = T[i].ethaddr /\ e.ctime = T[i].ctime /\ e.q = T[i].q
      /\ e.ip = w.ip
  <2>. HIDE DEF state
  <2> QED BY <1>2 DEF Entry
<1>8. EntryOK(e) /\ Only(T, i, e.ip)
  <2>. HIDE DEF e, state
  <2> QED BY <1>1, <1>2, <1>4, <1>7 DEF EntryOK, Ready, StableStates
<1>9. TableOK(r.table)
  <2>1. TableOK(T) /\ i \in Slots /\ e \in Entry /\ EntryOK(e) /\ Only(T, i, e.ip)
    BY <1>1, <1>4, <1>8 DEF StateOK
  <2>. HIDE DEF e, i
  <2>2. TableOK([T EXCEPT ![i] = e])
    BY <2>1, EntryChanged
  <2> QED BY <2>2, <1>5
<1>10. r.table[i] = e /\ \A j \in Slots : j # i => r.table[j] = T[j]
  <2>. HIDE DEF e
  <2> QED BY <1>1, <1>2, <1>5
<1>11. lo2 \in 0 .. MaxLost /\ lo <= lo2 /\ (ok # Full => lo2 = lo + 1)
  BY <1>2, LostOK DEF Lost
<1>12. req2 \in SUBSET (Hosts \ Silent) /\ req \subseteq req2
  BY <1>2, <1>3 DEF Asked
<1>13. Renewed(T, u, req, lo, w, i) \/ i \notin Recyclable(T)
  BY DEF StateOK
<1>14. ASSUME i \in Recyclable(r.table)
       PROVE  Renewed(r.table, r.use, req2, lo2, NoWork, i)
  <2>. HIDE DEF e
  <2>1. i \in Recyclable(T)
    BY <1>1, <1>7, <1>10, <1>14 DEF Recyclable, StableStates
  <2>2. Renewed(T, u, req, lo, w, i) /\ w.ip \notin Silent
    BY <2>1, <1>2, <1>13 DEF Renewed
  <2>3. T[i].ctime \in Nat /\ lo \in Nat /\ lo2 \in Nat /\ ARP_AGE_REREQUEST_USED \in Nat
    BY <1>2, <1>11 DEF Entry
  <2>4. CASE u[i] # "unused"
    <3>1. used = u[i]
      BY <2>4
    <3>. HIDE DEF used, state
    <3> QED BY <2>2, <2>3, <2>4, <3>1, <1>2, <1>6, <1>7, <1>10, <1>11, <1>12 DEF Renewed
  <2>5. CASE u[i] = "unused"
    <3>1. used = "used" /\ T[i].state = "STABLE"
      BY <2>2, <2>5 DEF Renewed
    <3>2. \/ w.ip \in req2
          \/ T[i].ctime < lo2 + ARP_AGE_REREQUEST_USED
      <4>1. CASE T[i].ctime >= ARP_AGE_REREQUEST_USED /\ "request" \in ok
        <5>1. r.asks = {w.ip}
          BY <4>1, <3>1, <1>2, <1>3
        <5> QED BY <4>1, <5>1, <2>2 DEF Asked
      <4>2. CASE "request" \notin ok
        <5>1. lo2 = lo + 1
          BY <4>2, <1>11 DEF Full
        <5> QED BY <5>1, <2>2, <2>3, <2>5 DEF Renewed
      <4>3. CASE ~(T[i].ctime >= ARP_AGE_REREQUEST_USED)
        BY <4>3, <2>3
      <4> QED BY <4>1, <4>2, <4>3
    <3>. HIDE DEF used, state, lo2, req2
    <3> QED BY <2>2, <2>3, <2>5, <3>1, <3>2, <1>2, <1>6, <1>7, <1>10, <1>11 DEF Renewed
  <2> QED BY <2>4, <2>5
<1>15. ASSUME NEW j \in Recyclable(r.table)
       PROVE  Renewed(r.table, r.use, req2, lo2, NoWork, j)
  <2>. HIDE DEF e, lo2, req2
  <2>1. CASE j = i
    BY <2>1, <1>14
  <2>2. CASE j # i
    <3>1. j \in Slots /\ r.table[j] = T[j] /\ r.use[j] = u[j] /\ j \in Recyclable(T)
      BY <2>2, <1>10, <1>6 DEF Recyclable
    <3>2. Renewed(T, u, req, lo, w, j) /\ T[j] \in Entry /\ lo \in Nat /\ lo2 \in Nat
      BY <3>1, <1>2, <1>11 DEF StateOK
    <3> QED BY <3>1, <3>2, <1>11, <1>12, StillRenewed
  <2> QED BY <2>1, <2>2
<1>16. FrameOK(r.sent)
  BY <1>1, <1>2, <1>3 DEF FrameOK
<1>17. \A j \in Slots : /\ r.table[j].ip = T[j].ip
                        /\ r.table[j].ctime <= T[j].ctime
  <2>. HIDE DEF e, state
  <2> QED BY <1>2, <1>7, <1>10, AgeIn DEF StateOK
<1> QED
  <2>. HIDE DEF lo2, req2
  <2>1. StateOK(r.table, r.hint, r.use, req2, lo2, NoWork)
    BY <1>3, <1>6, <1>9, <1>11, <1>12, <1>15 DEF StateOK
  <2>2. Done(T, r, req2, lo2)
    BY <2>1, <1>16, <1>17 DEF Done
  <2> QED BY <2>2 DEF req2, lo2

LEMMA QueriedDone ==
  ASSUME NEW T, NEW h, NEW u, NEW req, NEW lo, NEW w, StateOK(T, h, u, req, lo, w),
         WorkOK(T, w), w.op = "query", w.at # NoSlot,
         NEW ok \in Oks, ok # Full => lo < MaxLost,
         NEW r, r = Queried(Begun(T, h, u), w.at, w.p, ok)
  PROVE  Done(T, r, Asked(req, r.asks, ok), Lost(lo, ok))
<1>. DEFINE i == w.at
            q == IF "packet" \in ok THEN w.p ELSE T[i].q
            e == [T[i] EXCEPT !.state = "PENDING", !.q = q]
            req2 == Asked(req, r.asks, ok)
            lo2 == Lost(lo, ok)
<1>1. i \in Slots /\ Ready(T, i, w.ip) /\ w.ip = Hop(w.p) /\ w.p \in Packets /\ w.ip \in Hosts
  BY DEF WorkOK, Slots, NoSlot
<1>2. /\ T \in [Slots -> Entry] /\ T[i] \in Entry /\ EntryOK(T[i]) /\ T[i].ip = w.ip
      /\ u \in [Slots -> Uses] /\ req \in SUBSET (Hosts \ Silent) /\ lo \in 0 .. MaxLost
  BY <1>1 DEF StateOK, TableOK, Ready
<1>3. lo2 \in 0 .. MaxLost /\ lo <= lo2
  BY <1>2, LostOK
<1>4. CASE T[i].state \in StableStates
  <2>1. /\ r.table = T /\ r.hint = i /\ r.asks = {} /\ r.use = u
        /\ r.sent = [p |-> w.p, to |-> T[i].ethaddr]
    BY <1>4 DEF Queried, Begun
  <2>2. req2 = req /\ T[i].ethaddr = w.ip
    BY <2>1, <1>2, <1>4 DEF Asked, EntryOK
  <2>. HIDE DEF req2, lo2
  <2>3. ASSUME NEW j \in Recyclable(r.table)
        PROVE  Renewed(r.table, r.use, req2, lo2, NoWork, j)
    <3>1. j \in Slots /\ r.table[j] = T[j] /\ r.use[j] = u[j] /\ j \in Recyclable(T)
      BY <2>1 DEF Recyclable
    <3>2. Renewed(T, u, req, lo, w, j) /\ T[j] \in Entry /\ lo \in Nat /\ lo2 \in Nat
      BY <3>1, <1>2, <1>3 DEF StateOK
    <3> QED BY <3>1, <3>2, <1>3, <2>2, StillRenewed
  <2>4. FrameOK(r.sent)
    BY <1>1, <2>1, <2>2 DEF FrameOK
  <2>5. StateOK(r.table, r.hint, r.use, req2, lo2, NoWork)
    BY <1>1, <1>2, <1>3, <2>1, <2>2, <2>3 DEF StateOK
  <2>6. Done(T, r, req2, lo2)
    BY <2>1, <2>4, <2>5, AgeIn DEF Done, StateOK
  <2> QED BY <2>6 DEF req2, lo2
<1>5. CASE T[i].state \notin StableStates
  <2>1. /\ r.table = [T EXCEPT ![i] = e] /\ r.hint = h
        /\ r.asks \subseteq {Hop(w.p)}
        /\ r.use = [u EXCEPT ![i] = "unused"]
        /\ r.sent = NoFrame
    BY <1>5 DEF Queried, Begun
  <2>2. q \in Packets \cup {None} /\ (q # None => Hop(q) = w.ip)
    <3>1. T[i].q \in Packets \cup {None} /\ (T[i].q # None => Hop(T[i].q) = w.ip)
      BY <1>2 DEF Entry, EntryOK
    <3> QED BY <3>1, <1>1
  <2>. HIDE DEF q
  <2>3. /\ e \in Entry /\ e.state = "PENDING" /\ e.q = q /\ e.ip = w.ip
        /\ e.ctime = T[i].ctime
    BY <1>2, <2>2 DEF Entry, States
  <2>4. T[i].ctime < ARP_MAXAGE
    BY <1>1, <1>2 DEF Ready, EntryOK
  <2>. HIDE DEF e
  <2>5. EntryOK(e) /\ Only(T, i, e.ip)
    BY <1>1, <2>2, <2>3, <2>4 DEF EntryOK, Ready, StableStates
  <2>6. TableOK(r.table)
    <3>1. TableOK(T) /\ i \in Slots
      BY <1>1 DEF StateOK
    <3>. HIDE DEF i
    <3>2. TableOK([T EXCEPT ![i] = e])
      BY <3>1, <2>3, <2>5, EntryChanged
    <3> QED BY <3>2, <2>1
  <2>7. /\ r.table[i] = e /\ \A j \in Slots : j # i => r.table[j] = T[j]
        /\ r.use \in [Slots -> Uses]
        /\ \A j \in Slots : j # i => r.use[j] = u[j]
    BY <1>1, <1>2, <2>1 DEF Uses
  <2>8. req2 \in SUBSET (Hosts \ Silent) /\ req \subseteq req2
    BY <1>1, <1>2, <2>1 DEF Asked
  <2>. HIDE DEF req2, lo2
  <2>9. ASSUME NEW j \in Recyclable(r.table)
        PROVE  Renewed(r.table, r.use, req2, lo2, NoWork, j)
    <3>1. j \in Slots /\ j # i
      BY <2>3, <2>7 DEF Recyclable, StableStates
    <3>2. r.table[j] = T[j] /\ r.use[j] = u[j] /\ j \in Recyclable(T)
      BY <3>1, <2>7 DEF Recyclable
    <3>3. Renewed(T, u, req, lo, w, j) /\ T[j] \in Entry /\ lo \in Nat /\ lo2 \in Nat
      BY <3>1, <3>2, <1>2, <1>3 DEF StateOK
    <3> QED BY <3>1, <3>2, <3>3, <1>3, <2>8, StillRenewed
  <2>10. StateOK(r.table, r.hint, r.use, req2, lo2, NoWork)
    BY <1>3, <2>1, <2>6, <2>7, <2>8, <2>9 DEF StateOK
  <2>11. \A j \in Slots : /\ r.table[j].ip = T[j].ip
                          /\ r.table[j].ctime <= T[j].ctime
    BY <1>2, <2>3, <2>7, AgeIn DEF StateOK
  <2>12. FrameOK(r.sent)
    BY <2>1 DEF FrameOK
  <2>13. Done(T, r, req2, lo2)
    BY <2>10, <2>11, <2>12 DEF Done
  <2> QED BY <2>13 DEF req2, lo2
<1> QED BY <1>4, <1>5

\* Whatever is done with the entry.
LEMMA ActDone ==
  ASSUME NEW T, NEW h, NEW u, NEW req, NEW lo, NEW w, StateOK(T, h, u, req, lo, w),
         WorkOK(T, w), NEW ok \in Oks, ok # Full => lo < MaxLost,
         NEW r, r = Act(Begun(T, h, u), w, ok)
  PROVE  Done(T, r, Asked(req, r.asks, ok), Lost(lo, ok))
<1>1. CASE w.at = NoSlot
  <2>1. r.table = T /\ r.hint = h /\ r.asks = {} /\ r.use = u /\ r.sent = NoFrame
    <3>1. w.op = "update" \/ w.op = "output" \/ w.op = "query"
      BY DEF WorkOK
    <3>2. r = Begun(T, h, u)
      BY <1>1, <3>1 DEF Act
    <3> QED BY <3>2 DEF Begun
  <2>2. Asked(req, r.asks, ok) = req /\ NoSlot \notin Slots
    BY <2>1 DEF Asked, StateOK, Slots, NoSlot
  <2>3. Lost(lo, ok) \in 0 .. MaxLost /\ lo <= Lost(lo, ok)
    BY LostOK DEF StateOK
  <2>4. ASSUME NEW j \in Recyclable(T)
        PROVE  Renewed(T, u, req, Lost(lo, ok), NoWork, j)
    <3>1. j \in Slots /\ ~(w.op = "update" /\ w.at = j)
      BY <1>1, <2>2 DEF Recyclable
    <3>2. Renewed(T, u, req, lo, w, j) /\ T[j] \in Entry /\ lo \in Nat /\ Lost(lo, ok) \in Nat
      BY <3>1, <2>3 DEF StateOK, TableOK
    <3> QED BY <3>1, <3>2, <2>3, StillRenewed
  <2>5. StateOK(T, h, u, req, Lost(lo, ok), NoWork)
    BY <2>3, <2>4 DEF StateOK
  <2>6. FrameOK(r.sent)
    BY <2>1 DEF FrameOK
  <2> QED BY <2>1, <2>2, <2>5, <2>6, AgeIn DEF Done, StateOK
<1>2. CASE w.at # NoSlot /\ w.op = "output"
  <2>1. r = OutputToIndex(Begun(T, h, u), w.at, w.p, ok)
    BY <1>2 DEF Act
  <2> QED BY <1>2, <2>1, OutputDone
<1>3. CASE w.at # NoSlot /\ w.op = "query"
  <2>1. r = Queried(Begun(T, h, u), w.at, w.p, ok)
    BY <1>3 DEF Act
  <2> QED BY <1>3, <2>1, QueriedDone
<1>4. CASE w.at # NoSlot /\ w.op = "update"
  <2>1. r = Updated(Begun(T, h, u), w.at, w.ip, FALSE)
    BY <1>4 DEF Act
  <2>2. w.at \in Slots /\ w.ip \in Hosts /\ Ready(T, w.at, w.ip) /\ w.ip \notin Silent
    BY <1>4 DEF WorkOK
  <2>3. Lost(lo, ok) \in 0 .. MaxLost /\ lo <= Lost(lo, ok)
    BY LostOK DEF StateOK
  <2>4. Done(T, r, req, Lost(lo, ok)) /\ r.asks = {}
    <3>1. ASSUME NEW i \in Slots, NEW ip \in Hosts, NEW static \in BOOLEAN,
                 Ready(T, i, ip), static \/ ip \notin Silent, w.op = "update" /\ w.at = i,
                 r = Updated(Begun(T, h, u), i, ip, static)
          PROVE  Done(T, r, req, Lost(lo, ok)) /\ r.asks = {}
      BY <2>3, <3>1, UpdatedDone
    <3> QED BY <1>4, <2>1, <2>2, <3>1
  <2>5. Asked(req, r.asks, ok) = req
    BY <2>4 DEF Asked, StateOK
  <2> QED BY <2>4, <2>5
<1> QED BY <1>1, <1>2, <1>3, <1>4 DEF WorkOK

-----------------------------------------------------------------------------
(* The steps.                                                              *)

LEMMA HopIn == \A p \in Packets : Hop(p) \in Hosts
BY DEF Hop, Packets

\* A packet of etharp_output: an entry that has its address, or one that was
\* found or made ready for it.
LEMMA LookForOK ==
  ASSUME IInv, work = NoWork, NEW p \in Packets, NEW l, l = LookFor(p)
  PROVE  /\ StateOK(l.table, l.hint, use, requested, lost, l.work)
         /\ WorkOK(l.table, l.work)
         /\ \A i \in Slots : l.table[i] = table[i] \/ Recycled(table, l.table, i)
<1>1. /\ StateOK(table, hint, use, requested, lost, NoWork) /\ TableOK(table)
      /\ Hop(p) \in Hosts /\ hint \in Slots
  BY HopIn DEF IInv, StateOK
<1>2. ASSUME NEW i \in Slots, table[i].state \in StableStates, table[i].ip = Hop(p),
             l.table = table, l.hint = i,
             l.work = [op |-> "output", at |-> i, ip |-> Hop(p), p |-> p]
      PROVE  /\ StateOK(l.table, l.hint, use, requested, lost, l.work)
             /\ WorkOK(l.table, l.work)
  <2>1. Only(table, i, Hop(p)) /\ i # NoSlot
    BY <1>1, <1>2 DEF TableOK, StableStates, Slots, NoSlot
  <2>2. WorkOK(l.table, l.work)
    BY <1>1, <1>2, <2>1 DEF WorkOK, Ready, StableStates
  <2>3. ASSUME NEW j \in Recyclable(table)
        PROVE  Renewed(table, use, requested, lost, l.work, j)
    BY <1>1, <1>2 DEF StateOK, Renewed, NoWork
  <2> QED BY <1>1, <1>2, <2>2, <2>3 DEF StateOK
<1>3. CASE CacheHit(p)
  <2>1. /\ l.table = table /\ l.hint = hint
        /\ l.work = [op |-> "output", at |-> hint, ip |-> Hop(p), p |-> p]
    BY <1>3 DEF LookFor
  <2> QED BY <1>1, <1>2, <1>3, <2>1 DEF CacheHit
<1>4. CASE ~CacheHit(p) /\ Found(p) # {}
  <2>1. /\ l.table = table /\ l.hint = Min(Found(p))
        /\ l.work = [op |-> "output", at |-> Min(Found(p)), ip |-> Hop(p), p |-> p]
    BY <1>4 DEF LookFor
  <2>2. Min(Found(p)) \in Found(p)
    BY <1>4, MinIn DEF Found, Slots
  <2> QED BY <1>2, <2>1, <2>2 DEF Found
<1>5. CASE ~CacheHit(p) /\ Found(p) = {}
  <2>. DEFINE f == etharp_find_entry(table, Hop(p), TRUE)
  <2>1. /\ l.table = f.table /\ l.hint = hint
        /\ l.work = [op |-> "query", at |-> f.at, ip |-> Hop(p), p |-> p]
    BY <1>5 DEF LookFor
  <2>. HIDE DEF f
  <2>2. /\ f.at \in Slots \cup {NoSlot}
        /\ f.at # NoSlot => Ready(f.table, f.at, Hop(p))
        /\ TableOK(f.table)
        /\ \A i \in Slots : f.table[i] = table[i] \/ (i = f.at /\ Recycled(table, f.table, i))
    BY <1>1, FindEntry DEF f
  <2>3. WorkOK(l.table, l.work)
    BY <1>1, <2>1, <2>2 DEF WorkOK
  <2>4. StateOK(l.table, l.hint, use, requested, lost, l.work)
    <3>1. \A i \in Slots : l.table[i] = table[i] \/ (i = l.work.at /\ Recycled(table, l.table, i))
      BY <2>1, <2>2
    <3>2. TableOK(l.table) /\ l.hint = hint
      BY <2>1, <2>2
    <3> QED BY <1>1, <2>3, <3>1, <3>2, FoundOK
  <2> QED BY <2>1, <2>2, <2>3, <2>4
<1> QED BY <1>3, <1>4, <1>5

\* The state that is written back.
LEMMA BecomeOK ==
  ASSUME NEW T, NEW r, NEW ok \in Oks, Become(r, ok), work' = NoWork,
         Done(T, r, Asked(requested, r.asks, ok), Lost(lost, ok))
  PROVE  IInv'
<1>1. /\ table' = r.table /\ hint' = r.hint /\ sent' = r.sent /\ use' = r.use
      /\ requested' = Asked(requested, r.asks, ok) /\ lost' = Lost(lost, ok)
  BY DEF Become, Asked, Lost, Full
<1>2. StateOK(table', hint', use', requested', lost', work') /\ FrameOK(sent')
  BY <1>1 DEF Done
<1> QED BY <1>2 DEF IInv

LEMMA etharp_output_OK ==
  ASSUME IInv, NEW p \in Packets, etharp_output(p)
  PROVE  IInv'
<1>. DEFINE l == LookFor(p)
<1>1. /\ work = NoWork /\ table' = l.table /\ hint' = l.hint /\ work' = l.work
      /\ sent' = NoFrame /\ requested' = requested /\ lost' = lost /\ use' = use
  BY DEF etharp_output
<1>. HIDE DEF l
<1>2. StateOK(l.table, l.hint, use, requested, lost, l.work)
  BY <1>1, LookForOK DEF l
<1>3. StateOK(table', hint', use', requested', lost', work') /\ FrameOK(sent')
  BY <1>1, <1>2 DEF FrameOK
<1> QED BY <1>3 DEF IInv

LEMMA Finish_OK ==
  ASSUME IInv, NEW ok \in Oks, Finish(ok)
  PROVE  IInv' /\ Done(table, Act(Here, work, ok), requested', lost')
<1>. DEFINE r == Act(Here, work, ok)
<1>1. /\ Become(r, ok) /\ work' = NoWork
      /\ StateOK(table, hint, use, requested, lost, work) /\ WorkOK(table, work)
      /\ ok # Full => lost < MaxLost
  BY DEF Finish, IInv, StateOK, Become, Full
<1>2. r = Act(Begun(table, hint, use), work, ok)
  BY DEF Begun, Here, With
<1>. HIDE DEF r
<1>3. Done(table, r, Asked(requested, r.asks, ok), Lost(lost, ok))
  BY <1>1, <1>2, ActDone
<1>4. requested' = Asked(requested, r.asks, ok) /\ lost' = Lost(lost, ok)
  BY <1>1 DEF Become, Asked, Lost, Full
<1>5. IInv'
  BY <1>1, <1>3, BecomeOK
<1> QED BY <1>3, <1>4, <1>5 DEF r

\* What a step does to the entries: the steps of QueueKept and KeptWhileUsed.
QueueStep ==
  \A i \in Slots :
    table[i].q # None /\ table'[i].ip # table[i].ip
      => \A j \in Slots : table[j].state = "STATIC" \/ j \in Queueing(table)
UseStep ==
  \A i \in Slots :
    (/\ i \in Recyclable(table)
     /\ table'[i].state = "EMPTY"
     /\ table'[i].ctime > table[i].ctime)
      => use[i] # "used"

\* Only the timer makes an entry older.
LEMMA NotOlder ==
  ASSUME \A i \in Slots : table[i].ctime \in Nat /\ table'[i].ctime \in Nat,
         \A i \in Slots : table'[i].ctime <= table[i].ctime
  PROVE  UseStep
BY DEF UseStep

\* An entry is left alone, or is made ready for another host.
LEMMA FoundStep ==
  ASSUME TableOK(table), TableOK(table)', NEW U,
         \A i \in Slots : U[i] = table[i] \/ Recycled(table, U, i),
         \A i \in Slots : table'[i].ip = U[i].ip /\ table'[i].ctime <= U[i].ctime
  PROVE  QueueStep /\ UseStep
<1>1. \A i \in Slots : table[i].ctime \in Nat /\ table'[i].ctime \in Nat
  BY DEF TableOK, Entry
<1>2. ASSUME NEW i \in Slots
      PROVE  table'[i].ctime <= table[i].ctime
  BY <1>1 DEF Recycled
<1>3. UseStep
  BY <1>1, <1>2, NotOlder
<1>4. QueueStep
  BY DEF QueueStep, Recycled
<1> QED BY <1>3, <1>4

LEMMA OutputStep ==
  ASSUME IInv, IInv', NEW p \in Packets, etharp_output(p)
  PROVE  QueueStep /\ UseStep
<1>. DEFINE l == LookFor(p)
<1>1. work = NoWork /\ table' = l.table
  BY DEF etharp_output
<1>. HIDE DEF l
<1>2. \A i \in Slots : l.table[i] = table[i] \/ Recycled(table, l.table, i)
  BY <1>1, LookForOK DEF l
<1>3. TableOK(table) /\ TableOK(table)'
  BY DEF IInv, StateOK
<1>4. \A i \in Slots : table'[i].ip = l.table[i].ip /\ table'[i].ctime <= l.table[i].ctime
  BY <1>1, <1>3, AgeIn DEF TableOK, Entry
<1> QED BY <1>2, <1>3, <1>4, FoundStep

LEMMA etharp_arp_input_OK ==
  ASSUME IInv, NEW h \in Hosts, NEW for_us \in BOOLEAN, etharp_arp_input(h, for_us)
  PROVE  IInv' /\ QueueStep /\ UseStep
<1>. DEFINE f == etharp_find_entry(table, h, for_us)
            w == [op |-> "update", at |-> f.at, ip |-> h, p |-> None]
<1>1. /\ work = NoWork /\ h \notin Silent /\ table' = f.table /\ work' = w
      /\ requested' = (IF for_us THEN requested \ {h} ELSE requested)
      /\ sent' = NoFrame /\ hint' = hint /\ lost' = lost /\ use' = use
  BY DEF etharp_arp_input
<1>2. StateOK(table, hint, use, requested, lost, NoWork) /\ TableOK(table)
  BY <1>1 DEF IInv, StateOK
<1>. HIDE DEF f
<1>3. /\ f.at \in Slots \cup {NoSlot}
      /\ f.at # NoSlot => Ready(f.table, f.at, h)
      /\ TableOK(f.table)
      /\ \A i \in Slots : f.table[i] = table[i] \/ (i = f.at /\ Recycled(table, f.table, i))
  BY <1>2, FindEntry DEF f
<1>4. WorkOK(f.table, w)
  BY <1>1, <1>3 DEF WorkOK
<1>5. /\ w.op = "update" /\ w.at = f.at
      /\ requested' \in SUBSET (Hosts \ Silent)
      /\ \A g \in requested : g # h => g \in requested'
  BY <1>1, <1>2 DEF StateOK
<1>6. StateOK(f.table, hint, use, requested, lost, w)
  BY <1>2, <1>3, <1>4, <1>5, FoundOK
<1>7. ASSUME NEW i \in Recyclable(f.table)
      PROVE  Renewed(f.table, use, requested', lost, w, i)
  <2>1. Renewed(f.table, use, requested, lost, w, i) /\ i \in Slots
    BY <1>6 DEF StateOK, Recyclable
  <2>2. CASE f.table[i].ip # h
    BY <1>5, <2>1, <2>2 DEF Renewed
  <2>3. CASE f.table[i].ip = h /\ f.at # NoSlot
    <3>1. f.at = i
      BY <1>3, <2>3 DEF Ready, Only, Recyclable, StableStates
    <3> QED BY <1>5, <2>1, <3>1 DEF Renewed
  <2>4. CASE f.table[i].ip = h /\ f.at = NoSlot
    <3>1. i \in Matching(table, h)
      BY <1>3, <2>1, <2>4 DEF Matching, Recyclable, StableStates, Slots, NoSlot
    <3>2. f.at = Min(Matching(table, h)) /\ Min(Matching(table, h)) \in Slots
      BY <3>1, MinIn DEF f, etharp_find_entry, Matching, Slots
    <3> QED BY <2>4, <3>2 DEF Slots, NoSlot
  <2> QED BY <1>3, <2>2, <2>3, <2>4
<1>8. StateOK(table', hint', use', requested', lost', work') /\ FrameOK(sent')
  <2>. HIDE DEF w
  <2>1. StateOK(f.table, hint, use, requested', lost, w)
    BY <1>4, <1>5, <1>6, <1>7 DEF StateOK
  <2> QED BY <1>1, <2>1 DEF FrameOK
<1>9. IInv'
  BY <1>8 DEF IInv
<1>10. TableOK(table)'
  BY <1>1, <1>3
<1>11. \A i \in Slots : table'[i].ip = f.table[i].ip /\ table'[i].ctime <= f.table[i].ctime
  BY <1>1, <1>3, AgeIn
<1>12. QueueStep /\ UseStep
  BY <1>2, <1>3, <1>10, <1>11, FoundStep
<1> QED BY <1>9, <1>12

LEMMA FinishStep ==
  ASSUME IInv, IInv', NEW ok \in Oks, Finish(ok)
  PROVE  QueueStep /\ UseStep
<1>1. table' = Act(Here, work, ok).table
  BY DEF Finish, Become
<1>2. \A i \in Slots : table'[i].ip = table[i].ip /\ table'[i].ctime <= table[i].ctime
  BY <1>1, Finish_OK DEF Done
<1>3. TableOK(table) /\ TableOK(table)'
  BY DEF IInv, StateOK
<1> QED BY <1>2, <1>3, FoundStep

LEMMA OutputWhole_OK ==
  ASSUME IInv, NEW p \in Packets, NEW ok \in Oks, work = NoWork, OutputWhole(p, ok)
  PROVE  IInv' /\ QueueStep /\ UseStep
<1>. DEFINE l == LookFor(p)
            r == Act(With(l.table, l.hint), l.work, ok)
<1>1. Become(r, ok) /\ work' = NoWork /\ (ok # Full => lost < MaxLost)
  BY DEF OutputWhole, Become, Full
<1>3. r = Act(Begun(l.table, l.hint, use), l.work, ok)
  BY DEF With, Begun
<1>. HIDE DEF l, r
<1>4. /\ StateOK(l.table, l.hint, use, requested, lost, l.work)
      /\ WorkOK(l.table, l.work)
      /\ \A i \in Slots : l.table[i] = table[i] \/ Recycled(table, l.table, i)
  BY LookForOK DEF l
<1>5. Done(l.table, r, Asked(requested, r.asks, ok), Lost(lost, ok))
  BY <1>1, <1>3, <1>4, ActDone
<1>6. IInv'
  BY <1>1, <1>5, BecomeOK
<1>7. \A i \in Slots : table'[i].ip = l.table[i].ip /\ table'[i].ctime <= l.table[i].ctime
  BY <1>1, <1>5 DEF Become, Done
<1>8. TableOK(table) /\ TableOK(table)'
  BY <1>6 DEF IInv, StateOK
<1>9. QueueStep /\ UseStep
  BY <1>4, <1>7, <1>8, FoundStep
<1> QED BY <1>6, <1>9

\* What the timer makes of an entry.
LEMMA AgedOK ==
  ASSUME NEW e \in Entry, EntryOK(e), NEW a, a = Aged(e)
  PROVE  /\ a \in Entry /\ EntryOK(a) /\ a.ip = e.ip
         /\ e.state = "EMPTY" => a.state = "EMPTY"
         /\ a.state \in StableStates \ {"STATIC"} =>
              /\ e.state \in StableStates \ {"STATIC"}
              /\ a.state = "STABLE" /\ a.ctime = e.ctime + 1
         /\ a.state = "EMPTY" /\ e.state \in StableStates \ {"STATIC"} =>
              e.ctime + 1 >= ARP_MAXAGE
<1>. DEFINE old == [e EXCEPT !.ctime = @ + 1]
            over == \/ old.ctime >= ARP_MAXAGE
                    \/ e.state = "PENDING" /\ old.ctime >= ARP_MAXPENDING
<1>1. CASE e.state \in {"EMPTY", "STATIC"}
  <2>1. a = e
    BY <1>1 DEF Aged
  <2> QED BY <1>1, <2>1 DEF StableStates
<1>2. CASE e.state \notin {"EMPTY", "STATIC"}
  <2>1. e.ctime \in Nat /\ e.ctime < ARP_MAXAGE /\ e.ip \in Hosts /\ e.state \in States
    BY <1>2 DEF Entry, EntryOK
  <2>2. e.ctime + 1 \in 0 .. ARP_MAXAGE
    BY <2>1
  <2>3. CASE over
    <3>1. a = [old EXCEPT !.state = "EMPTY", !.q = None]
      BY <1>2, <2>3 DEF Aged
    <3>2. /\ a \in Entry /\ a.state = "EMPTY" /\ a.q = None /\ a.ip = e.ip
      BY <2>2, <3>1 DEF Entry, States
    <3>3. e.state \in StableStates => e.ctime + 1 >= ARP_MAXAGE
      BY <2>1, <2>3 DEF StableStates, Entry
    <3> QED BY <3>2, <3>3 DEF EntryOK, StableStates
  <2>4. CASE ~over /\ e.state = "STABLE_REREQUESTING"
    <3>1. a = [old EXCEPT !.state = "STABLE"]
      BY <1>2, <2>4 DEF Aged
    <3>2. /\ a \in Entry /\ a.state = "STABLE" /\ a.q = e.q /\ a.ip = e.ip
          /\ a.ethaddr = e.ethaddr /\ a.ctime = e.ctime + 1
      BY <2>2, <3>1 DEF Entry, States, StableStates
    <3>3. e.ctime + 1 < ARP_MAXAGE
      BY <2>1, <2>4 DEF Entry
    <3> QED BY <2>1, <2>4, <3>2, <3>3 DEF EntryOK, StableStates
  <2>5. CASE ~over /\ e.state # "STABLE_REREQUESTING"
    <3>1. a = old
      BY <1>2, <2>5 DEF Aged
    <3>2. /\ a \in Entry /\ a.state = e.state /\ a.q = e.q /\ a.ip = e.ip
          /\ a.ethaddr = e.ethaddr /\ a.ctime = e.ctime + 1
      BY <2>2, <3>1 DEF Entry
    <3>3. e.ctime + 1 < ARP_MAXAGE
      BY <2>1, <2>5 DEF Entry
    <3> QED BY <1>2, <2>1, <2>5, <3>2, <3>3 DEF EntryOK, StableStates, States
  <2> QED BY <2>3, <2>4, <2>5
<1> QED BY <1>1, <1>2

LEMMA etharp_tmr_OK ==
  ASSUME IInv, work = NoWork, NEW ok \in Oks, etharp_tmr(ok)
  PROVE  /\ IInv' /\ QueueStep
         /\ MaxLost + ARP_AGE_REREQUEST_USED < ARP_MAXAGE => UseStep
<1>. DEFINE T == [i \in Slots |-> Aged(table[i])]
            asks == {table[i].ip : i \in {j \in Slots : /\ table[j].state = "PENDING"
                                                        /\ Aged(table[j]).state = "PENDING"}}
            u == [i \in Slots |-> IF /\ table[i].ctime >= ARP_AGE_REREQUEST_USED
                                     /\ use[i] # "used"
                                  THEN "idle" ELSE "unused"]
<1>1. /\ table' = T /\ hint' = hint /\ sent' = NoFrame /\ use' = u /\ work' = NoWork
      /\ requested = {}
      /\ requested' = requested \cup IF "request" \in ok THEN asks \ Silent ELSE {}
      /\ ok # Full => lost < MaxLost
      /\ lost' = Lost(lost, ok)
  BY DEF etharp_tmr, Become, Here, With, Prompt, Lost, Full
<1>2. /\ TableOK(table) /\ hint \in Slots /\ lost \in 0 .. MaxLost
      /\ \A i \in Recyclable(table) : Renewed(table, use, requested, lost, NoWork, i)
  BY DEF IInv, StateOK
<1>3. \A i \in Slots : table[i] \in Entry /\ EntryOK(table[i]) /\ T[i] = Aged(table[i])
  BY <1>2 DEF TableOK
<1>4. asks \subseteq Hosts
  BY <1>3 DEF EntryOK
<1>5. lost' \in 0 .. MaxLost /\ lost <= lost'
  BY <1>1, <1>2, LostOK
<1>6. requested' \in SUBSET (Hosts \ Silent)
  BY <1>1, <1>4
<1>7. u \in [Slots -> Uses] /\ \A i \in Slots : u[i] # "used" /\
        (u[i] # "idle" => \/ use[i] = "used"
                          \/ ~(table[i].ctime >= ARP_AGE_REREQUEST_USED))
  BY DEF Uses
<1>. HIDE DEF T, u, asks
<1>8. T \in [Slots -> Entry]
  <2>1. \A i \in Slots : Aged(table[i]) \in Entry
    BY <1>3, AgedOK
  <2> QED BY <2>1 DEF T
<1>9. TableOK(T)
  <2>1. \A i \in Slots : EntryOK(T[i]) /\ T[i].ip = table[i].ip
                         /\ (table[i].state = "EMPTY" => T[i].state = "EMPTY")
    BY <1>3, AgedOK
  <2> QED BY <1>2, <1>8, <2>1 DEF TableOK, Only
<1>10. ASSUME NEW i \in Recyclable(T)
       PROVE  Renewed(T, u, requested', lost', NoWork, i)
  <2>1. i \in Slots /\ i \in Recyclable(table) /\ T[i].state = "STABLE"
        /\ T[i].ctime = table[i].ctime + 1 /\ T[i].ip = table[i].ip
    BY <1>3, AgedOK DEF Recyclable
  <2>2. Renewed(table, use, requested, lost, NoWork, i)
    BY <1>2, <2>1
  <2>3. table[i].ctime \in Nat
    BY <1>2, <2>1, AgeIn
  <2>4. CASE u[i] # "idle"
    <3>1. CASE use[i] = "used"
      <4>1. table[i].ctime < lost + ARP_AGE_REREQUEST_USED
        BY <1>1, <2>2, <3>1 DEF Renewed, NoWork
      <4> QED BY <1>2, <1>5, <1>7, <2>1, <2>2, <2>3, <4>1 DEF Renewed
    <3>2. CASE ~(table[i].ctime >= ARP_AGE_REREQUEST_USED)
      BY <1>2, <1>5, <1>7, <2>1, <2>2, <2>3, <3>2 DEF Renewed
    <3> QED BY <1>7, <2>1, <2>4, <3>1, <3>2
  <2>5. CASE u[i] = "idle"
    BY <2>1, <2>2, <2>5 DEF Renewed
  <2> QED BY <2>4, <2>5
<1>11. StateOK(table', hint', use', requested', lost', work') /\ FrameOK(sent')
  <2>1. StateOK(T, hint, u, requested', lost', NoWork)
    BY <1>2, <1>5, <1>6, <1>7, <1>9, <1>10 DEF StateOK
  <2> QED BY <1>1, <2>1 DEF FrameOK
<1>12. IInv'
  BY <1>11 DEF IInv
<1>13. QueueStep
  <2>1. \A i \in Slots : table'[i].ip = table[i].ip
    BY <1>1, <1>3, AgedOK
  <2> QED BY <2>1 DEF QueueStep
<1>14. ASSUME MaxLost + ARP_AGE_REREQUEST_USED < ARP_MAXAGE
       PROVE  UseStep
  <2>. SUFFICES ASSUME NEW i \in Recyclable(table), table'[i].state = "EMPTY", use[i] = "used"
                PROVE  FALSE
    BY DEF UseStep
  <2>1. i \in Slots /\ table[i].ctime \in Nat
    BY <1>2, AgeIn DEF Recyclable
  <2>2. table[i].ctime + 1 >= ARP_MAXAGE
    BY <1>1, <1>3, <2>1, AgedOK DEF Recyclable
  <2>3. table[i].ctime < lost + ARP_AGE_REREQUEST_USED
    BY <1>1, <1>2 DEF Renewed, NoWork
  <2> QED BY <1>2, <1>14, <2>1, <2>2, <2>3
<1> QED BY <1>12, <1>13, <1>14

LEMMA add_static_OK ==
  ASSUME IInv, NEW h \in Statics, etharp_add_static_entry(h)
  PROVE  IInv' /\ QueueStep /\ UseStep
<1>. DEFINE f == etharp_find_entry(table, h, TRUE)
            r == Updated(With(f.table, hint), f.at, h, TRUE)
<1>1. /\ work = NoWork /\ work' = NoWork /\ f.at # NoSlot /\ Become(r, Full)
  BY DEF etharp_add_static_entry, Full
<1>2. r = Updated(Begun(f.table, hint, use), f.at, h, TRUE)
  BY DEF With, Begun
<1>3. StateOK(table, hint, use, requested, lost, NoWork) /\ TableOK(table) /\ h \in Hosts
  BY <1>1 DEF IInv, StateOK
<1>. HIDE DEF f, r
<1>4. /\ f.at \in Slots \cup {NoSlot}
      /\ f.at # NoSlot => Ready(f.table, f.at, h)
      /\ TableOK(f.table)
      /\ \A i \in Slots : f.table[i] = table[i] \/ (i = f.at /\ Recycled(table, f.table, i))
  BY <1>3, FindEntry DEF f
<1>5. StateOK(f.table, hint, use, requested, lost, NoWork)
  <2>1. ASSUME NEW i \in Recyclable(f.table)
        PROVE  Renewed(f.table, use, requested, lost, NoWork, i)
    <3>1. i \in Slots /\ f.table[i] = table[i] /\ i \in Recyclable(table)
      BY <1>4 DEF Recyclable, Recycled, StableStates
    <3> QED BY <1>3, <3>1 DEF StateOK, Renewed
  <2> QED BY <1>3, <1>4, <2>1 DEF StateOK
<1>6. Done(f.table, r, requested, lost) /\ r.asks = {}
  <2>1. f.at \in Slots /\ Ready(f.table, f.at, h) /\ lost \in 0 .. MaxLost /\ lost <= lost
    BY <1>1, <1>3, <1>4 DEF StateOK
  <2>2. ASSUME NEW i \in Slots, NEW static \in BOOLEAN, Ready(f.table, i, h), static,
               r = Updated(Begun(f.table, hint, use), i, h, static)
        PROVE  Done(f.table, r, requested, lost) /\ r.asks = {}
    BY <1>3, <1>5, <2>1, <2>2, UpdatedDone
  <2> QED BY <1>2, <2>1, <2>2
<1>7. Asked(requested, r.asks, Full) = requested /\ Lost(lost, Full) = lost /\ Full \in Oks
  BY <1>6 DEF Asked, Lost, Full, Oks
<1>8. IInv'
  BY <1>1, <1>6, <1>7, BecomeOK
<1>9. \A i \in Slots : table'[i].ip = f.table[i].ip /\ table'[i].ctime <= f.table[i].ctime
  BY <1>1, <1>6 DEF Become, Done
<1>10. TableOK(table)'
  BY <1>8 DEF IInv, StateOK
<1>11. QueueStep /\ UseStep
  BY <1>3, <1>4, <1>9, <1>10, FoundStep
<1> QED BY <1>8, <1>11

LEMMA remove_static_OK ==
  ASSUME IInv, NEW h \in Statics, etharp_remove_static_entry(h)
  PROVE  IInv' /\ QueueStep /\ UseStep
<1>1. PICK i \in Matching(table, h) :
        /\ table[i].state = "STATIC"
        /\ table' = [table EXCEPT ![i].state = "EMPTY", ![i].q = None]
  BY DEF etharp_remove_static_entry
<1>2. /\ work = NoWork /\ work' = NoWork /\ sent' = NoFrame /\ hint' = hint
      /\ requested' = requested /\ lost' = lost /\ use' = use
  BY DEF etharp_remove_static_entry
<1>3. /\ StateOK(table, hint, use, requested, lost, NoWork) /\ TableOK(table) /\ i \in Slots
      /\ table \in [Slots -> Entry] /\ table[i] \in Entry
  BY <1>1, <1>2 DEF IInv, StateOK, TableOK, Matching
<1>. DEFINE e == [table[i] EXCEPT !.state = "EMPTY", !.q = None]
<1>4. table' = [table EXCEPT ![i] = e]
  BY <1>1, <1>3
<1>5. /\ e \in Entry /\ e.state = "EMPTY" /\ e.q = None /\ e.ip = table[i].ip
      /\ e.ctime = table[i].ctime
  BY <1>3 DEF Entry, States
<1>. HIDE DEF e
<1>6. EntryOK(e) /\ Only(table, i, e.ip)
  BY <1>1, <1>3, <1>5 DEF EntryOK, StableStates, TableOK
<1>7. TableOK(table')
  BY <1>3, <1>4, <1>5, <1>6, EntryChanged
<1>8. table'[i] = e /\ \A j \in Slots : j # i => table'[j] = table[j]
  BY <1>3, <1>4
<1>9. ASSUME NEW j \in Recyclable(table')
      PROVE  Renewed(table', use, requested, lost, NoWork, j)
  <2>1. j \in Slots /\ table'[j] = table[j] /\ j \in Recyclable(table)
    BY <1>5, <1>8 DEF Recyclable, StableStates
  <2> QED BY <1>3, <2>1 DEF StateOK, Renewed
<1>10. StateOK(table', hint', use', requested', lost', work') /\ FrameOK(sent')
  <2>1. StateOK(table', hint, use, requested, lost, NoWork)
    BY <1>3, <1>7, <1>9 DEF StateOK
  <2> QED BY <1>2, <2>1 DEF FrameOK
<1>11. IInv'
  BY <1>10 DEF IInv
<1>12. \A j \in Slots : table'[j].ip = table[j].ip /\ table'[j].ctime <= table[j].ctime
  BY <1>3, <1>5, <1>8, AgeIn
<1>13. TableOK(table)'
  BY <1>7
<1>14. QueueStep /\ UseStep
  BY <1>3, <1>12, <1>13, FoundStep
<1> QED BY <1>11, <1>14

LEMMA Lose_OK ==
  ASSUME IInv, NEW h \in Hosts, Lose(h)
  PROVE  IInv' /\ QueueStep /\ UseStep
<1>1. /\ table' = table /\ hint' = hint /\ work' = work /\ use' = use /\ sent' = NoFrame
      /\ requested' = requested \ {h} /\ lost < MaxLost /\ lost' = lost + 1
  BY DEF Lose
<1>2. StateOK(table, hint, use, requested, lost, work) /\ TableOK(table)
  BY DEF IInv, StateOK
<1>3. lost' \in 0 .. MaxLost /\ lost \in Nat /\ requested' \in SUBSET (Hosts \ Silent)
  BY <1>1, <1>2 DEF StateOK
<1>4. ASSUME NEW i \in Recyclable(table)
      PROVE  Renewed(table, use, requested', lost', work, i)
  <2>1. Renewed(table, use, requested, lost, work, i) /\ table[i].ctime \in Nat
    BY <1>2, AgeIn DEF StateOK, Recyclable
  <2> QED BY <1>1, <1>3, <2>1 DEF Renewed
<1>5. StateOK(table', hint', use', requested', lost', work') /\ FrameOK(sent')
  <2>1. StateOK(table, hint, use, requested', lost', work)
    BY <1>2, <1>3, <1>4 DEF StateOK
  <2> QED BY <1>1, <2>1 DEF FrameOK
<1>6. IInv'
  BY <1>5 DEF IInv
<1>7. \A j \in Slots : table'[j].ip = table[j].ip /\ table'[j].ctime <= table[j].ctime
  BY <1>1, <1>2, AgeIn
<1>8. TableOK(table)'
  BY <1>1, <1>2
<1>9. QueueStep /\ UseStep
  BY <1>2, <1>7, <1>8, FoundStep
<1> QED BY <1>6, <1>9

LEMMA StepOK ==
  ASSUME ~Preempts, IInv, [Next]_vars
  PROVE  /\ IInv' /\ QueueStep
         /\ MaxLost + ARP_AGE_REREQUEST_USED < ARP_MAXAGE => UseStep
<1>1. CASE \E p \in Packets : etharp_output(p)
  BY <1>1, etharp_output_OK, OutputStep
<1>2. CASE \E h \in Hosts, for_us \in BOOLEAN : etharp_arp_input(h, for_us)
  BY <1>2, etharp_arp_input_OK
<1>3. CASE \E ok \in Oks : Finish(ok)
  BY <1>3, Finish_OK, FinishStep
<1>4. CASE \E p \in Packets, ok \in Oks : OutputWhole(p, ok)
  <2>1. PICK p \in Packets, ok \in Oks : OutputWhole(p, ok)
    BY <1>4
  <2>2. work = NoWork
    BY <2>1 DEF OutputWhole, MayRun
  <2> QED BY <2>1, <2>2, OutputWhole_OK
<1>5. CASE \E ok \in Oks : etharp_tmr(ok)
  <2>1. PICK ok \in Oks : etharp_tmr(ok)
    BY <1>5
  <2>2. work = NoWork
    BY <2>1 DEF etharp_tmr, MayRun
  <2> QED BY <2>1, <2>2, etharp_tmr_OK
<1>6. CASE \E h \in Statics : etharp_add_static_entry(h)
  BY <1>6, add_static_OK
<1>7. CASE \E h \in Statics : etharp_remove_static_entry(h)
  BY <1>7, remove_static_OK
<1>8. CASE \E h \in Hosts : Lose(h)
  BY <1>8, Lose_OK
<1>9. CASE UNCHANGED vars
  <2>1. /\ table' = table /\ hint' = hint /\ work' = work /\ sent' = sent
        /\ requested' = requested /\ lost' = lost /\ use' = use
    BY <1>9 DEF vars
  <2>2. IInv'
    <3>1. StateOK(table, hint, use, requested, lost, work) /\ FrameOK(sent)
      BY DEF IInv
    <3>2. StateOK(table', hint', use', requested', lost', work') /\ FrameOK(sent')
      BY <2>1, <3>1
    <3> QED BY <3>2 DEF IInv
  <2>3. TableOK(table) /\ TableOK(table)'
    BY <2>2 DEF IInv, StateOK
  <2>4. \A j \in Slots : table'[j].ip = table[j].ip /\ table'[j].ctime <= table[j].ctime
    BY <2>1, <2>3, AgeIn
  <2>5. QueueStep /\ UseStep
    BY <2>3, <2>4, FoundStep
  <2> QED BY <2>2, <2>5
<1> QED BY <1>1, <1>2, <1>3, <1>4, <1>5, <1>6, <1>7, <1>8, <1>9 DEF Next

LEMMA InitOK == Init => IInv
<1>. SUFFICES ASSUME Init PROVE IInv
  OBVIOUS
<1>1. /\ table = [i \in Slots |-> NoEntry] /\ hint = 0 /\ work = NoWork /\ sent = NoFrame
      /\ requested = {} /\ lost = 0 /\ use = [i \in Slots |-> "unused"]
  BY DEF Init
<1>2. NoEntry \in Entry /\ NoEntry.state = "EMPTY" /\ NoEntry.q = None
  <2>1. 0 \in 0 .. ARP_MAXAGE
    OBVIOUS
  <2> QED BY <2>1 DEF NoEntry, Entry, States
<1>3. TableOK(table)
  BY <1>1, <1>2 DEF TableOK, EntryOK, StableStates
<1>4. Recyclable(table) = {}
  BY <1>1, <1>2 DEF Recyclable, StableStates
<1> QED BY <1>1, <1>3, <1>4 DEF IInv, StateOK, FrameOK, Slots, Uses

LEMMA Invariance ==
  ASSUME ~Preempts
  PROVE  Spec => []IInv
<1>1. IInv /\ [Next]_vars => IInv'
  BY StepOK
<1> QED BY <1>1, InitOK, PTL DEF Spec

\* The fields of the table, and the rest, have their types; an age is at most
\* ARP_MAXAGE.
THEOREM TypeCorrect ==
  ASSUME ~Preempts
  PROVE  Spec => []TypeOK
<1>1. IInv => TypeOK
  BY DEF IInv, StateOK, TableOK, Entry, WorkOK, NoWork, Uses, TypeOK
<1> QED BY <1>1, Invariance, PTL

\* No host has two entries, and packets wait only at entries that are pending.
THEOREM TableIsSound ==
  ASSUME ~Preempts
  PROVE  Spec => []TableSound
<1>1. IInv => TableSound
  BY DEF IInv, StateOK, TableOK, EntryOK, Only, Matching, TableSound
<1> QED BY <1>1, Invariance, PTL

\* Every IP packet goes to the Ethernet address of its next hop, whether the
\* remembered entry, the table or the queue of an entry has sent it.
THEOREM PacketsReachTheirHop ==
  ASSUME ~Preempts
  PROVE  Spec => []RightHost
<1>1. IInv => RightHost
  BY DEF IInv, FrameOK, RightHost
<1> QED BY <1>1, Invariance, PTL

\* A packet that waits for an address is given up for another host only when
\* every entry has such a packet or is static.
THEOREM WaitingPacketsKept ==
  ASSUME ~Preempts
  PROVE  Spec => QueueKept
<1>1. IInv /\ [Next]_vars => [QueueStep]_vars
  BY StepOK
<1>2. [QueueStep]_vars <=> [\A i \in Slots :
       table[i].q # None /\ table'[i].ip # table[i].ip
         => \A j \in Slots : table[j].state = "STATIC" \/ j \in Queueing(table)]_vars
  BY DEF QueueStep
<1> QED BY <1>1, <1>2, Invariance, PTL DEF Spec, QueueKept

\* An entry that is used in each of its last intervals does not expire: more
\* requests than MaxLost would have to be lost, if there is time for as many.
THEOREM EntriesInUseKept ==
  ASSUME ~Preempts, MaxLost + ARP_AGE_REREQUEST_USED < ARP_MAXAGE
  PROVE  Spec => KeptWhileUsed
<1>1. IInv /\ [Next]_vars => [UseStep]_vars
  BY StepOK
<1>2. [UseStep]_vars <=> [\A i \in Slots :
       (/\ i \in Recyclable(table)
        /\ table'[i].state = "EMPTY"
        /\ table'[i].ctime > table[i].ctime)
         => use[i] # "used"]_vars
  BY DEF UseStep
<1> QED BY <1>1, <1>2, Invariance, PTL DEF Spec, KeptWhileUsed
=============================================================================
