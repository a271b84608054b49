------------------------------ MODULE TcpHosts -------------------------------
(***************************************************************************)
(* Two hosts that speak the TCP of LwipTcp over a network that reorders,   *)
(* loses and repeats segments, and an application on each.  Each action is *)
(* one call that tcpip_thread (or the task that calls the raw interface)   *)
(* makes: of the application, of tcp_input, of a timer.                    *)
(*                                                                         *)
(* Time is not counted: the timeouts of tcp_slowtmr come due when nothing  *)
(* is in flight, and setting.early times before that.                      *)
(***************************************************************************)
EXTENDS LwipTcp

CONSTANTS
  Settings   \* the uses of TCP that are examined: records with the fields
             \*   script     per host, the sizes of the calls of tcp_write
             \*   reads      what a recv callback does: "now", "later"
             \*   refusals   bound: how often it may refuse the data instead
             \*   ways       how an application ends: "close", "shutdown"
             \*   unsent     TRUE if it may with data still on ->unsent
             \*   expiring   the states whose timeouts may come due
             \*   losses, dups, early   bounds: segments lost, repeated,
             \*                         and timeouts that come early

VARIABLES
  setting,   \* the one of Settings in use
  pcb,       \* per host, its struct tcp_pcb; NoPcb when it has none
  opened,    \* per host, the number of pcbs it has allocated
  app,       \* per host, what its application has done and been told
  net,       \* the segments in flight
  spent      \* the losses, repeats and early timeouts there have been

vars == <<setting, pcb, opened, app, net, spent>>

Init ==
  /\ setting \in Settings
  /\ pcb = [h \in Hosts |-> NoPcb]
  /\ opened = [h \in Hosts |-> 0]
  /\ app = [h \in Hosts |->
              [accepted |-> FALSE, calls |-> 0, wrote |-> 0, got |-> <<>>, unread |-> 0,
               refusals |-> 0, eof |-> FALSE, done |-> "no", err |-> "none"]]
  /\ net = {}
  /\ spent = [losses |-> 0, dups |-> 0, early |-> 0]

Call(h) == [h |-> h, p |-> pcb[h], a |-> app[h], n |-> opened[h] + 1,
            out |-> {}, data |-> <<>>, fin |-> FALSE, end |-> ""]

Return(c) ==
  /\ pcb' = [pcb EXCEPT ![c.h] = c.p]
  /\ app' = [app EXCEPT ![c.h] = c.a]
  /\ opened' = [opened EXCEPT ![c.h] = c.n - 1]
  /\ UNCHANGED setting

Sends(c) == Return(c) /\ net' = net \cup c.out

Callbacks(h) ==
  setting.reads \cup (IF app[h].refusals < setting.refusals THEN {"refuse"} ELSE {})

-----------------------------------------------------------------------------
(* The application.                                                        *)

Usable(h) == /\ app[h].accepted /\ opened[h] = 1
             /\ app[h].err = "none" /\ app[h].done # "close"

Connect(h) ==
  /\ h = Client /\ opened[h] = 0
  /\ Sends(tcp_connect([Call(h) EXCEPT !.a.accepted = TRUE])) /\ UNCHANGED spent

(* tcp_write and the tcp_output after it.  The bytes written are numbered. *)
NextSize(h) == setting.script[h][app[h].calls + 1]
CanWrite(h) ==
  /\ Usable(h) /\ Open(pcb[h]) /\ app[h].done = "no"
  /\ app[h].calls < Len(setting.script[h]) /\ NextSize(h) <= pcb[h].snd_buf
Write(h) ==
  LET data == [i \in 1..NextSize(h) |-> app[h].wrote + i]
      c == [Call(h) EXCEPT !.a.calls = @ + 1, !.a.wrote = @ + NextSize(h)]
  IN  CanWrite(h) /\ Sends(tcp_output(tcp_write(c, data))) /\ UNCHANGED spent

(* tcp_recved by an application that kept data for later.                  *)
CanRead(h) == Usable(h) /\ app[h].unread > 0 /\ pcb[h].state # "CLOSED"
Read(h) ==
  LET n == app[h].unread
      c == [Call(h) EXCEPT !.p = tcp_recved(@, n), !.a.unread = 0]
  IN  /\ CanRead(h)
      /\ Sends(IF WorthUpdate(pcb[h], n) THEN tcp_output(c) ELSE c) /\ UNCHANGED spent

(* The application ends the stream when it has written everything.  A call *)
(* that fails is made again; tcp_close has then set TF_RXCLOSED already.   *)
Ends(h, way) ==
  /\ Usable(h) /\ pcb[h].state # "CLOSED" /\ app[h].calls = Len(setting.script[h])
  /\ setting.unsent \/ pcb[h].unsent = <<>>
  /\ IF Open(pcb[h]) /\ ~ResetsFirst(pcb[h], way) THEN app[h].done = "no"
     ELSE way = "close"
CloseFails(h, way) ==
  Open(pcb[h]) /\ ~ResetsFirst(pcb[h], way) /\ FinFails(pcb[h])
CanClose(h, way) == Ends(h, way) /\ ~CloseFails(h, way)
Close(h, way) ==
  LET done == IF CloseFails(h, way) THEN app[h].done ELSE way
  IN  /\ Ends(h, way)
      /\ Sends(tcp_close([Call(h) EXCEPT !.a.done = done], way)) /\ UNCHANGED spent

-----------------------------------------------------------------------------
(* The network: a segment arrives, arrives and stays, or is lost.          *)

Consumes(c, m) == Return(c) /\ net' = (net \ {m}) \cup c.out
Receive(h, m, cb) ==
  /\ m \in net /\ m.to = h
  /\ Consumes(tcp_input(Call(h), m, cb), m) /\ UNCHANGED spent

Repeat(h, m, cb) ==
  /\ m \in net /\ m.to = h /\ spent.dups < setting.dups
  /\ Sends(tcp_input(Call(h), m, cb))
  /\ spent' = [spent EXCEPT !.dups = @ + 1]

Lose(m) ==
  /\ m \in net /\ spent.losses < setting.losses
  /\ net' = net \ {m}
  /\ spent' = [spent EXCEPT !.losses = @ + 1]
  /\ UNCHANGED <<setting, pcb, opened, app>>

-----------------------------------------------------------------------------
(* The timers.  tcp_slowtmr for one pcb is split by what comes due; it ends*)
(* with the poll and tcp_output, or with the removal of the pcb.           *)

FastTimer(h, cb) ==
  /\ Active(pcb[h]) /\ ("ACK_DELAY" \in pcb[h].flags \/ pcb[h].refused # <<>>)
  /\ Sends(tcp_fasttmr(Call(h), cb)) /\ UNCHANGED spent

(* A timeout that comes due while segments are in flight is an early one.  *)
Waits == IF net = {} THEN UNCHANGED spent
         ELSE spent.early < setting.early /\ spent' = [spent EXCEPT !.early = @ + 1]

TooManyRetries(h) ==
  /\ Active(pcb[h]) /\ pcb[h].nrtx = MaxRtx
  /\ Sends(Gone(Call(h), "ABRT")) /\ UNCHANGED spent

RetransmissionTimeout(h) ==
  /\ Active(pcb[h]) /\ pcb[h].nrtx # MaxRtx
  /\ ~pcb[h].persist /\ pcb[h].timing /\ pcb[h].unacked # <<>>
  /\ Sends(tcp_output(Retransmits(Call(h)))) /\ Waits

PersistTimeout(h) ==
  /\ Active(pcb[h]) /\ pcb[h].nrtx # MaxRtx /\ pcb[h].persist
  /\ Sends(tcp_output(tcp_zero_window_probe(Call(h)))) /\ Waits

OoseqTimeout(h) ==
  /\ Active(pcb[h]) /\ pcb[h].ooseq # <<>>
  /\ Sends(tcp_output([Call(h) EXCEPT !.p.ooseq = <<>>])) /\ Waits

Expires(h) ==
  /\ pcb[h].state \in setting.expiring \cap {"SYN_RCVD", "FIN_WAIT_2", "LAST_ACK"}
  /\ pcb[h].state = "FIN_WAIT_2" => "RXCLOSED" \in pcb[h].flags
StateTimeout(h) ==
  /\ Expires(h)
  /\ Sends(Gone(Call(h), "ABRT")) /\ Waits

TimeWaitTimeout(h) ==
  /\ pcb[h].state = "TIME_WAIT" /\ net = {} /\ ~pcb[Peer(h)].timing
  /\ Sends([Call(h) EXCEPT !.p = NoPcb]) /\ UNCHANGED spent

Poll(h) ==
  /\ Active(pcb[h]) /\ pcb[h].nrtx # MaxRtx
  /\ Sends(tcp_output(Call(h))) /\ UNCHANGED spent

Due(h) ==
  /\ Active(pcb[h])
  /\ \/ pcb[h].nrtx = MaxRtx \/ "ACK_DELAY" \in pcb[h].flags
     \/ pcb[h].refused # <<>> /\ setting.reads # {}
     \/ /\ net = {}
        /\ \/ pcb[h].persist \/ (pcb[h].timing /\ pcb[h].unacked # <<>>)
           \/ Expires(h)

-----------------------------------------------------------------------------
(* The specification.                                                      *)

Application(h) ==
  Connect(h) \/ Write(h) \/ Read(h) \/ \E way \in setting.ways : Close(h, way)

Timers(h) ==
  \/ TooManyRetries(h) \/ RetransmissionTimeout(h) \/ PersistTimeout(h)
  \/ OoseqTimeout(h) \/ StateTimeout(h) \/ TimeWaitTimeout(h) \/ Poll(h)
  \/ \E cb \in Callbacks(h) : FastTimer(h, cb)

Deliver == \E m \in net : \E cb \in Callbacks(m.to) : Receive(m.to, m, cb)

Next ==
  \/ \E h \in Hosts : Application(h) \/ Timers(h)
  \/ Deliver
  \/ \E m \in net : Lose(m) \/ \E cb \in Callbacks(m.to) : Repeat(m.to, m, cb)

Spec == Init /\ [][Next]_vars

(* tcpip_thread takes every segment from its mailbox and its timers come   *)
(* round again and again; the applications go on with what they can do.    *)
(* The conditions are those of weak fairness, but for ENABLED: net # {},   *)
(* Due and CanWrite, CanRead, CanClose say when there is something to do.  *)
Busy(h) == CanWrite(h) \/ CanRead(h) \/ \E way \in setting.ways : CanClose(h, way)

FairSpec ==
  /\ Spec
  /\ WF_vars(Connect(Client))
  /\ []<>(\A h \in Hosts : ~Busy(h)) \/ []<><<\E h \in Hosts : Application(h)>>_vars
  /\ []<>(net = {}) \/ []<><<Deliver>>_vars
  /\ \A h \in Hosts : []<>~Due(h) \/ []<><<Timers(h)>>_vars
  /\ \A h \in Hosts : WF_vars(TimeWaitTimeout(h))

-----------------------------------------------------------------------------
(* Properties.                                                             *)

Seqno == 0..(SeqSpace - 1)
SegmentType == [seqno : Seqno, len : Nat, data : Seq(Nat), syn : BOOLEAN, fin : BOOLEAN]
PcbType ==
  [state : {"CLOSED", "SYN_SENT", "SYN_RCVD", "ESTABLISHED", "FIN_WAIT_1", "FIN_WAIT_2",
            "CLOSE_WAIT", "CLOSING", "LAST_ACK", "TIME_WAIT"},
   flags : SUBSET {"ACK_DELAY", "ACK_NOW", "INFR", "RXCLOSED", "FIN", "NAGLEMEMERR"},
   snd_nxt : Seqno, lastack : Seqno, snd_lbb : Seqno, snd_wl1 : Seqno, snd_wl2 : Seqno,
   snd_wnd : 0..TcpWnd, snd_wnd_max : 0..TcpWnd, snd_buf : 0..(TcpSndBuf + 1),
   cwnd : 0..TcpWnd, ssthresh : 0..TcpWnd, dupacks : 0..4, nrtx : 0..(MaxRtx + 1),
   timing : BOOLEAN, persist : BOOLEAN,
   unsent : Seq(SegmentType), unacked : Seq(SegmentType), ooseq : Seq(SegmentType),
   rcv_nxt : Seqno, rcv_wnd : 0..TcpWnd, rcv_ann_wnd : 0..TcpWnd,
   rcv_ann_right_edge : Seqno, refused : Seq(Nat), refused_fin : BOOLEAN]

(* The fields of a pcb have their types: no window is wider than TCP_WND,  *)
(* and the send buffer has no more room than it began with, but for the    *)
(* byte that a FIN joined to data gives back without having taken it.      *)
TypeOK == setting \in Settings /\ pcb \in [Hosts -> PcbType]

(* TCP is the stream of StreamService: what an application is given is what*)
(* the other one wrote, in order, without a gap or a repetition, and then  *)
(* the end of it, whatever the network does (tcp_receive, tcp_input).      *)
Stream == INSTANCE StreamService WITH
  sent <- [h \in Hosts |-> [i \in 1..app[h].wrote |-> i]],
  ended <- [h \in Hosts |-> app[h].done # "no"],
  got <- [h \in Hosts |-> app[h].got],
  eof <- [h \in Hosts |-> app[h].eof],
  gone <- [h \in Hosts |-> app[h].err # "none"]
ImplementsStream == Stream!Spec

(* Both ends speak of the same connection, both past the handshake.        *)
Together ==
  \A h \in Hosts : /\ opened[h] = 1 /\ app[h].err = "none"
                   /\ pcb[h].state \notin {"CLOSED", "TIME_WAIT", "SYN_SENT", "SYN_RCVD"}

(* Everything a host has been given to send and the other has not received *)
(* is on ->unacked or ->unsent, where the timers find it.                  *)
NothingForgotten ==
  Together => \A h \in Hosts :
    LET q == pcb[h].unacked \o pcb[h].unsent
        held == UNION {{Plus(q[i].seqno, k) : k \in 0..(TcpLen(q[i]) - 1)} : i \in DOMAIN q}
        missing == {Plus(pcb[Peer(h)].rcv_nxt, k) :
                      k \in 0..(Minus(pcb[h].snd_lbb, pcb[Peer(h)].rcv_nxt) - 1)}
    IN  missing \subseteq held

(* Nothing counts as acknowledged that the other host has not received.    *)
AckedIsReceived ==
  Together => \A h \in Hosts : LEQ(pcb[h].lastack, pcb[Peer(h)].rcv_nxt)

(* A host never takes the window for wider than the other has announced it,*)
(* whatever order the announcements come in.                               *)
WindowGranted ==
  Together => \A h \in Hosts :
    LEQ(Plus(pcb[h].snd_wl2, pcb[h].snd_wnd), pcb[Peer(h)].rcv_ann_right_edge)

(* A window once announced is never taken back.                            *)
WindowNotShrunk ==
  [][\A h \in Hosts : Open(pcb[h]) /\ Open(pcb'[h]) =>
       LEQ(pcb[h].rcv_ann_right_edge, pcb'[h].rcv_ann_right_edge)]_vars

(* Data that are unsent when the application closes are sent later: a      *)
(* closing that ends in order leaves nothing that has not been received.   *)
EndsInOrder(h) ==
  /\ app[h].done = "shutdown" /\ app[h].err = "none"
  /\ pcb[h].state # "TIME_WAIT"
  /\ pcb'[h].state = "TIME_WAIT" \/ app'[h].err = "CLSD"
UnsentIsSent ==
  [][\A h \in Hosts : EndsInOrder(h) /\ pcb[h].unsent # <<>> =>
       Len(app[Peer(h)].got) = app[h].wrote]_vars

(* No pcb retransmits more than TCP_MAXRTX times without an answer.        *)
RetransmissionsBounded == \A h \in Hosts : pcb[h].nrtx <= MaxRtx

(* Every byte a host writes reaches the other application, or one of the   *)
(* two is told that the connection broke.                                  *)
Broken == \E h \in Hosts : app[h].err \notin {"none", "CLSD"}
DataArrives ==
  []<>(Broken \/ \A h \in Hosts : Len(app[Peer(h)].got) = app[h].wrote)

(* When both applications have closed, both pcbs are freed in the end.     *)
CloseCompletes ==
  (\A h \in Hosts : app[h].done # "no")
     ~> (\A h \in Hosts : pcb[h] = NoPcb)

=============================================================================
