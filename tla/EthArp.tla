-------------------------------- MODULE EthArp --------------------------------
(***************************************************************************)
(* The ARP table of lwIP (netif/etharp.c): which Ethernet address an IP    *)
(* packet goes to, and the packets that wait for one.                      *)
(*                                                                         *)
(* A host stands for its IP address and for its Ethernet address; a packet *)
(* is the name of its destination.  The options are those of the firmware: *)
(* one packet is queued per entry (ARP_QUEUEING 0), there are static       *)
(* entries, and the entry of the last packet is remembered for all of them *)
(* (LWIP_NETIF_HWADDRHINT 0).  ARP_MAXAGE and the like count the calls of  *)
(* etharp_tmr.                                                             *)
(*                                                                         *)
(* An operation of FlyEthernetTask is two steps: it looks for an entry,    *)
(* and it uses the index that it has found.  Between the two tcpip_thread, *)
(* which has the higher priority, runs whole operations if Preempts; lwIP  *)
(* means its core for one thread (api/tcpip.c:71), and is right only then. *)
(***************************************************************************)
EXTENDS Naturals, FiniteSets, FiniteSetsExt

CONSTANTS
  Hosts,                   \* the hosts of the local network
  Outside,                 \* destinations behind the gateway
  Gateway,                 \* the host that is the gateway
  Silent,                  \* the hosts that are switched off
  None,                    \* no host, no packet
  ARP_TABLE_SIZE,
  ARP_MAXAGE,
  ARP_AGE_REREQUEST_USED,
  ARP_MAXPENDING,
  Byte,                    \* the modulus of u8_t, of the ages in the search
  Statics,                 \* the hosts for which static entries are made
  MaxLost,                 \* bound: requests lost and failed allocations
  Preempts                 \* whether tcpip_thread may come between two steps

ASSUME ArpAssumption ==
  /\ Gateway \in Hosts /\ Silent \subseteq Hosts /\ Statics \subseteq Hosts
  /\ None \notin Hosts \cup Outside
  /\ ARP_TABLE_SIZE \in Nat \ {0} /\ Byte \in Nat \ {0}
  /\ MaxLost \in Nat /\ ARP_MAXAGE \in Nat
  /\ ARP_MAXPENDING \in Nat \ {0, 1}
  /\ ARP_AGE_REREQUEST_USED \in 1 .. ARP_MAXAGE - 1

VARIABLES
  table,      \* arp_table
  hint,       \* etharp_cached_entry
  work,       \* what FlyEthernetTask is doing with the entry it has found
  sent,       \* the IP packet that the last step sent: its destination, and to whom
  requested,  \* the hosts that have a request of ours to answer
  lost,       \* requests lost and allocations failed
  use         \* auxiliary: how an entry is used at the end of its life

vars == <<table, hint, work, sent, requested, lost, use>>

Slots == 0 .. ARP_TABLE_SIZE - 1
NoSlot == ARP_TABLE_SIZE
Packets == Hosts \cup Outside

\* The states that are >= ETHARP_STATE_STABLE.
StableStates == {"STABLE", "STABLE_REREQUESTING", "STATIC"}
States == {"EMPTY", "PENDING"} \cup StableStates

NoEntry == [state |-> "EMPTY", ip |-> None, ethaddr |-> None, ctime |-> 0, q |-> None]
NoWork == [op |-> "none", at |-> NoSlot, ip |-> None, p |-> None]
NoFrame == [p |-> None, to |-> None]

Init ==
  /\ table = [i \in Slots |-> NoEntry]
  /\ hint = 0
  /\ work = NoWork
  /\ sent = NoFrame
  /\ requested = {}
  /\ lost = 0
  /\ use = [i \in Slots |-> "unused"]

-----------------------------------------------------------------------------
(* The search.  Of several candidates the last of the oldest is taken;     *)
(* their ages are kept in a u8_t, the times in a u16_t.                    *)

OldestOf(T, S) ==
  LET best[n \in 0 .. ARP_TABLE_SIZE] ==
        IF n = 0 THEN [at |-> NoSlot, age |-> 0]
        ELSE LET b == best[n - 1]
             IN IF n - 1 \in S /\ T[n - 1].ctime >= b.age
                THEN [at |-> n - 1, age |-> T[n - 1].ctime % Byte]
                ELSE b
  IN best[ARP_TABLE_SIZE].at

Matching(T, ip) == {i \in Slots : T[i].state # "EMPTY" /\ T[i].ip = ip}
Empty(T) == {i \in Slots : T[i].state = "EMPTY"}
Recyclable(T) == {i \in Slots : T[i].state \in StableStates \ {"STATIC"}}
Waiting(T) == {i \in Slots : T[i].state = "PENDING" /\ T[i].q = None}
Queueing(T) == {i \in Slots : T[i].state = "PENDING" /\ T[i].q # None}

\* Mutant: stable entries are spared.
SparesStable(T) ==
  IF Empty(T) # {} THEN Min(Empty(T))
  ELSE IF Waiting(T) # {} THEN OldestOf(T, Waiting(T))
  ELSE IF Queueing(T) # {} THEN OldestOf(T, Queueing(T))
  ELSE OldestOf(T, Recyclable(T))

\* The least destructive entry to recycle.
Victim(T) ==
  IF Empty(T) # {} THEN Min(Empty(T))
  ELSE IF Recyclable(T) # {} THEN OldestOf(T, Recyclable(T))
  ELSE IF Waiting(T) # {} THEN OldestOf(T, Waiting(T))
  ELSE OldestOf(T, Queueing(T))

\* etharp_find_entry: the index, and the table with the entry made ready.
etharp_find_entry(T, ip, tryhard) ==
  IF Matching(T, ip) # {} THEN [at |-> Min(Matching(T, ip)), table |-> T]
  ELSE IF ~tryhard \/ Victim(T) = NoSlot THEN [at |-> NoSlot, table |-> T]
  ELSE [at |-> Victim(T),
        table |-> [T EXCEPT ![Victim(T)] =
                    [@ EXCEPT !.state = "EMPTY", !.q = None, !.ip = ip, !.ctime = 0]]]

-----------------------------------------------------------------------------
(* What is done to the state [table, hint, sent, asks, use] with the entry *)
(* that was found; asks has the hosts that a request goes to.  ok says     *)
(* for what there is memory: the request, and the copy of the packet.      *)

Hop(p) == IF p \in Hosts THEN p ELSE Gateway

With(T, h) == [table |-> T, hint |-> h, sent |-> NoFrame, asks |-> {}, use |-> use]
Here == With(table, hint)

Used(u, i) == IF u[i] = "unused" THEN [u EXCEPT ![i] = "used"] ELSE u

\* etharp_update_arp_entry, from the index on.
Updated(s, i, h, static) ==
  LET e == s.table[i]
  IN [s EXCEPT
        !.table[i] = [e EXCEPT !.state = IF static THEN "STATIC" ELSE "STABLE",
                               !.ethaddr = h, !.ctime = 0, !.q = None],
        !.sent = IF e.q # None THEN [p |-> e.q, to |-> h] ELSE @,
        !.use[i] = "unused"]

\* etharp_output_to_arp_index: an entry that is about to expire is asked for
\* again, once in each interval of the timer.
OutputToIndex(s, i, p, ok) ==
  LET e == s.table[i]
      renew == e.state = "STABLE" /\ e.ctime >= ARP_AGE_REREQUEST_USED
  IN [s EXCEPT
        !.table[i].state = IF renew /\ "request" \in ok THEN "STABLE_REREQUESTING" ELSE @,
        !.asks = IF renew THEN {e.ip} ELSE @,
        !.sent = [p |-> p, to |-> e.ethaddr],
        !.use = Used(@, i)]

\* Mutant: every packet gives the entry a new time.
QueryRenews(s, i, p, ok) ==
  LET e == s.table[i]
      new == e.state = "EMPTY"
  IN IF e.state \in StableStates
     THEN [s EXCEPT !.hint = i, !.sent = [p |-> p, to |-> e.ethaddr]]
     ELSE [s EXCEPT
             !.table[i] = [e EXCEPT !.state = "PENDING", !.ctime = 0,
                                    !.q = IF "packet" \in ok THEN p ELSE @],
             !.asks = IF new THEN {Hop(p)} ELSE @,
             !.use[i] = "unused"]

\* etharp_query, from the index on.
Queried(s, i, p, ok) ==
  LET e == s.table[i]
      new == e.state = "EMPTY"
  IN IF e.state \in StableStates
     THEN [s EXCEPT !.hint = i, !.sent = [p |-> p, to |-> e.ethaddr]]
     ELSE [s EXCEPT
             !.table[i] = [e EXCEPT !.state = "PENDING", !.q = IF "packet" \in ok THEN p ELSE @],
             !.asks = IF new THEN {Hop(p)} ELSE @,
             !.use[i] = "unused"]

\* etharp_output and etharp_arp_input up to the index that they work with.
\* Mutant: the remembered entry is taken for the right one.
AnyCached(p) == table[hint].state \in StableStates

CacheHit(p) == table[hint].state \in StableStates /\ table[hint].ip = Hop(p)
Found(p) == {i \in Slots : table[i].state \in StableStates /\ table[i].ip = Hop(p)}

LookFor(p) ==
  IF CacheHit(p)
  THEN [table |-> table, hint |-> hint,
        work |-> [op |-> "output", at |-> hint, ip |-> Hop(p), p |-> p]]
  ELSE IF Found(p) # {}
  THEN [table |-> table, hint |-> Min(Found(p)),
        work |-> [op |-> "output", at |-> Min(Found(p)), ip |-> Hop(p), p |-> p]]
  ELSE LET f == etharp_find_entry(table, Hop(p), TRUE)
       IN [table |-> f.table, hint |-> hint,
           work |-> [op |-> "query", at |-> f.at, ip |-> Hop(p), p |-> p]]

Act(s, w, ok) ==
  IF w.at = NoSlot THEN s
  ELSE CASE w.op = "output" -> OutputToIndex(s, w.at, w.p, ok)
         [] w.op = "query" -> Queried(s, w.at, w.p, ok)
         [] w.op = "update" -> Updated(s, w.at, w.ip, FALSE)

-----------------------------------------------------------------------------
(* The steps.  A request that cannot be allocated or is lost on the way is *)
(* not answered; neither is one to a host that is switched off.            *)

Become(s, ok) ==
  /\ table' = s.table /\ hint' = s.hint /\ sent' = s.sent /\ use' = s.use
  /\ requested' = requested \cup IF "request" \in ok THEN s.asks \ Silent ELSE {}
  /\ ok # {"request", "packet"} => lost < MaxLost
  /\ lost' = IF ok = {"request", "packet"} THEN lost ELSE lost + 1

\* FlyEthernetTask: a packet to p, up to the index.
etharp_output(p) ==
  LET l == LookFor(p)
  IN /\ work = NoWork
     /\ table' = l.table /\ hint' = l.hint /\ work' = l.work
     /\ sent' = NoFrame
     /\ UNCHANGED <<requested, lost, use>>

\* FlyEthernetTask: an ARP packet of host h, for us or for another host, an
\* answer or a request; up to the index.  The answer to a request of h does
\* not touch the table.
etharp_arp_input(h, for_us) ==
  LET f == etharp_find_entry(table, h, for_us)
  IN /\ work = NoWork
     /\ h \notin Silent
     /\ table' = f.table
     /\ work' = [op |-> "update", at |-> f.at, ip |-> h, p |-> None]
     /\ requested' = IF for_us THEN requested \ {h} ELSE requested
     /\ sent' = NoFrame
     /\ UNCHANGED <<hint, lost, use>>

\* FlyEthernetTask: what is done with that index.
Finish(ok) ==
  /\ work # NoWork
  /\ Become(Act(Here, work, ok), ok)
  /\ work' = NoWork

MayRun == work = NoWork \/ Preempts

\* tcpip_thread: the same packet, sent by the timer of TCP, as a whole.
OutputWhole(p, ok) ==
  LET l == LookFor(p)
  IN /\ MayRun
     /\ Become(Act(With(l.table, l.hint), l.work, ok), ok)
     /\ UNCHANGED work

\* An answer that is on its way comes before the timer does, one second later.
Prompt == requested = {}

\* Mutant: a request that is lost is not repeated.
AsksOnce(e) ==
  LET old == [e EXCEPT !.ctime = @ + 1]
      over == \/ old.ctime >= ARP_MAXAGE
              \/ e.state = "PENDING" /\ old.ctime >= ARP_MAXPENDING
  IN IF e.state \in {"EMPTY", "STATIC"} THEN e
     ELSE IF over THEN [old EXCEPT !.state = "EMPTY", !.q = None]
     ELSE old

Aged(e) ==
  LET old == [e EXCEPT !.ctime = @ + 1]
      over == \/ old.ctime >= ARP_MAXAGE
              \/ e.state = "PENDING" /\ old.ctime >= ARP_MAXPENDING
  IN IF e.state \in {"EMPTY", "STATIC"} THEN e
     ELSE IF over THEN [old EXCEPT !.state = "EMPTY", !.q = None]
     ELSE IF e.state = "STABLE_REREQUESTING" THEN [old EXCEPT !.state = "STABLE"]
     ELSE old

etharp_tmr(ok) ==
  /\ MayRun /\ Prompt
  /\ Become([Here EXCEPT
               !.table = [i \in Slots |-> Aged(table[i])],
               !.asks = {table[i].ip : i \in {j \in Slots : /\ table[j].state = "PENDING"
                                                            /\ Aged(table[j]).state = "PENDING"}},
               !.use = [i \in Slots |->
                          IF /\ table[i].ctime >= ARP_AGE_REREQUEST_USED
                             /\ use[i] # "used"
                          THEN "idle" ELSE "unused"]], ok)
  /\ UNCHANGED work

\* etharp_add_static_entry and etharp_remove_static_entry.
etharp_add_static_entry(h) ==
  LET f == etharp_find_entry(table, h, TRUE)
  IN /\ work = NoWork
     /\ f.at # NoSlot
     /\ Become(Updated(With(f.table, hint), f.at, h, TRUE), {"request", "packet"})
     /\ UNCHANGED work

etharp_remove_static_entry(h) ==
  /\ work = NoWork
  /\ \E i \in Matching(table, h) :
       /\ table[i].state = "STATIC"
       /\ table' = [table EXCEPT ![i].state = "EMPTY", ![i].q = None]
  /\ sent' = NoFrame
  /\ UNCHANGED <<hint, work, requested, lost, use>>

\* The network loses a request or its answer.
Lose(h) ==
  /\ h \in requested
  /\ lost < MaxLost
  /\ requested' = requested \ {h}
  /\ lost' = lost + 1
  /\ sent' = NoFrame
  /\ UNCHANGED <<table, hint, work, use>>

Oks == SUBSET {"request", "packet"}

Next ==
  \/ \E p \in Packets : etharp_output(p)
  \/ \E h \in Hosts, for_us \in BOOLEAN : etharp_arp_input(h, for_us)
  \/ \E ok \in Oks : Finish(ok)
  \/ \E p \in Packets, ok \in Oks : OutputWhole(p, ok)
  \/ \E ok \in Oks : etharp_tmr(ok)
  \/ \E h \in Statics : etharp_add_static_entry(h)
  \/ \E h \in Statics : etharp_remove_static_entry(h)
  \/ \E h \in Hosts : Lose(h)

Spec == Init /\ [][Next]_vars

\* FlyEthernetTask finishes what it has begun, and the timer of ARP comes round
\* again and again (CyclicTimersGoOn of SysTimeouts), answers under way or not.
\* Nobody has to send.
FairSpec ==
  /\ Spec
  /\ WF_vars(\E ok \in Oks : Finish(ok))
  /\ []<><<\E ok \in Oks : etharp_tmr(ok)>>_vars

-----------------------------------------------------------------------------
(* Properties                                                              *)

TypeOK ==
  /\ \A i \in Slots :
       /\ table[i].state \in States
       /\ table[i].ip \in Hosts \cup {None} /\ table[i].ethaddr \in Hosts \cup {None}
       /\ table[i].ctime \in 0 .. ARP_MAXAGE /\ table[i].q \in Packets \cup {None}
       /\ use[i] \in {"unused", "used", "idle"}
  /\ hint \in Slots /\ work.at \in Slots \cup {NoSlot}
  /\ requested \subseteq Hosts \ Silent /\ lost \in 0 .. MaxLost

\* No host has two entries, and packets wait only at entries that are pending
\* ("no queued packets should exist on stable entries", etharp.c:369).
TableSound ==
  /\ \A i, j \in Slots : table[i].state # "EMPTY" /\ j \in Matching(table, table[i].ip) => i = j
  /\ \A i \in Slots : table[i].q # None => table[i].state = "PENDING"

\* Every IP packet goes to the Ethernet address of its next hop, by whichever
\* of the three ways it was sent (the entry of the last packet, the table, the
\* queue), although entries expire, are recycled and change their index.
RightHost == sent # NoFrame => sent.to = Hop(sent.p)

\* A packet that waits for an address is given up for another host only when
\* every entry has such a packet or is static ("choose the least destructive
\* entry to recycle", etharp.c:350).
QueueKept ==
  [][\A i \in Slots :
       table[i].q # None /\ table'[i].ip # table[i].ip
         => \A j \in Slots : table[j].state = "STATIC" \/ j \in Queueing(table)]_vars

\* An entry that is used in each of its last intervals does not expire, though
\* MaxLost of the requests that renew it are lost ("to prevent breaking a
\* steadily used connection because the ARP entry timed out", etharp.c:81).
KeptWhileUsed ==
  [][\A i \in Slots :
       (/\ i \in Recyclable(table)
        /\ table'[i].state = "EMPTY"
        /\ table'[i].ctime > table[i].ctime)
         => use[i] # "used"]_vars

IsPending(h) == \E i \in Matching(table, h) : table[i].state = "PENDING"

\* A host that does not answer is given up: its entry is not pending for ever,
\* however often packets for it are sent.
PendingEnds == \A h \in Hosts : IsPending(h) ~> ~IsPending(h)

\* Of the entries that may be recycled it is the oldest ("remember the oldest
\* stable entry", etharp.c:285).
OldestRecycled ==
  [][\A i \in Slots :
       i \in Recyclable(table) /\ table'[i].ip # table[i].ip
         => \A j \in Recyclable(table) : table[j].ctime <= table[i].ctime]_vars

\* A static entry stays until it is removed ("check that static entries don't
\* time out", test_etharp.c:233).
StaticStays ==
  [][\A i \in Slots :
       table[i].state = "STATIC" => table'[i].state \in {"STATIC", "EMPTY"}]_vars
=============================================================================
