------------------------------- MODULE LwipTcp -------------------------------
(***************************************************************************)
(* TCP of lwIP (src/LwIP/src/core/tcp.c, tcp_in.c, tcp_out.c) with the     *)
(* options of src/LwIP/src/include/arch/lwipopts.h, as functions: what a    *)
(* call does to a pcb, and the segments it sends.  TcpHosts makes actions  *)
(* of them.  Two hosts run this code, a Client that calls tcp_connect and  *)
(* a Server that listens.                                                  *)
(*                                                                         *)
(* Sequence numbers are taken modulo SeqSpace (2^32 in the code) and       *)
(* compared as TCP_SEQ_LT does.  The round-trip time, options, checksums,  *)
(* ports and shortage of memory are left out.                              *)
(***************************************************************************)
EXTENDS Integers, FiniteSets, Sequences, SequencesExt

CONSTANTS
  Client, Server,
  Mss,          \* TCP_MSS, in bytes
  TcpWnd,       \* TCP_WND, the receive window
  TcpSndBuf,    \* TCP_SND_BUF, the send buffer
  MaxRtx,       \* TCP_MAXRTX and TCP_SYNMAXRTX
  SeqSpace,     \* the sequence space
  Iss           \* per host, the numbers that tcp_next_iss returns: one for each
                \*   pcb, and after it one for tcp_connect

Hosts == {Client, Server}
Peer(h) == IF h = Client THEN Server ELSE Client

ASSUME SizesAssumption ==
  /\ Mss \in Nat \ {0} /\ TcpWnd \in Nat /\ TcpWnd >= 2 * Mss
  /\ TcpSndBuf \in Nat \ {0} /\ MaxRtx \in Nat
  /\ SeqSpace \in Nat /\ SeqSpace > 4 * TcpWnd

-----------------------------------------------------------------------------
(* Sequence numbers: TCP_SEQ_LT and its companions (tcp_impl.h).           *)

Plus(a, n) == (a + n) % SeqSpace
Minus(a, b) == (a - b) % SeqSpace
LT(a, b) == Minus(a, b) >= SeqSpace \div 2
LEQ(a, b) == ~LT(b, a)
Between(a, b, c) == LEQ(b, a) /\ LEQ(a, c)

Least(a, b) == IF a < b THEN a ELSE b
Most(a, b) == IF a < b THEN b ELSE a
Prefix(s, Test(_)) == Max({n \in 0..Len(s) : \A i \in 1..n : Test(i)})
Drop(s, n) == SubSeq(s, n + 1, Len(s))
Take(s, n) == SubSeq(s, 1, Least(n, Len(s)))

(* A struct tcp_seg: its len is a field of its own, apart from its data.   *)
Segment(seqno, data, syn, fin) ==
  [seqno |-> seqno, len |-> Len(data), data |-> data, syn |-> syn, fin |-> fin]
TcpLen(s) == s.len + (IF s.syn \/ s.fin THEN 1 ELSE 0)
End(s) == Plus(s.seqno, TcpLen(s))
Trim(s, n) == [s EXCEPT !.len = n, !.data = Take(@, n)]

NoPcb ==
  [state |-> "CLOSED", flags |-> {}, snd_nxt |-> 0, lastack |-> 0, snd_lbb |-> 0,
   snd_wnd |-> 0, snd_wnd_max |-> 0, snd_wl1 |-> 0, snd_wl2 |-> 0, snd_buf |-> 0,
   cwnd |-> 0, ssthresh |-> 0, dupacks |-> 0, nrtx |-> 0, timing |-> FALSE,
   persist |-> FALSE, unsent |-> <<>>, unacked |-> <<>>, ooseq |-> <<>>,
   rcv_nxt |-> 0, rcv_wnd |-> 0, rcv_ann_wnd |-> 0, rcv_ann_right_edge |-> 0,
   refused |-> <<>>, refused_fin |-> FALSE]

Open(p) == p.state \in {"ESTABLISHED", "CLOSE_WAIT"}
Active(p) == p.state \notin {"CLOSED", "TIME_WAIT"}

(* tcp_alloc: a pcb with its first sequence number.                        *)
tcp_alloc(iss) ==
  [NoPcb EXCEPT !.snd_buf = TcpSndBuf, !.rcv_wnd = TcpWnd, !.rcv_ann_wnd = TcpWnd,
     !.cwnd = 1, !.snd_wl2 = iss, !.snd_nxt = iss, !.lastack = iss, !.snd_lbb = iss]

(* tcp_pcb_purge: the queues are freed and the retransmission timer stops. *)
tcp_pcb_purge(p) ==
  [p EXCEPT !.unsent = <<>>, !.unacked = <<>>, !.ooseq = <<>>, !.timing = FALSE,
            !.refused = <<>>, !.refused_fin = FALSE]

-----------------------------------------------------------------------------
(* Output.  A call works on a record c: the host h, its pcb p, what its    *)
(* application has seen a, the number n of its next pcb, and the segments  *)
(* out that the call has sent.                                             *)

(* The header tcp_output_alloc_header and tcp_output_segment fill in.      *)
Wire(c, seqno, data, syn, fin) ==
  [to |-> Peer(c.h), seqno |-> seqno, data |-> data, syn |-> syn, fin |-> fin,
   rst |-> FALSE, ack |-> c.p.state # "SYN_SENT",
   ackno |-> c.p.rcv_nxt, wnd |-> c.p.rcv_ann_wnd]

tcp_rst(h, seqno, ackno) ==
  [to |-> Peer(h), seqno |-> seqno, data |-> <<>>, syn |-> FALSE, fin |-> FALSE,
   rst |-> TRUE, ack |-> TRUE, ackno |-> ackno, wnd |-> TcpWnd]

\* Mutant: the edge of the window is not noted when it is announced.
EdgeNotNoted(p) == p
Announced(p) == [p EXCEPT !.rcv_ann_right_edge = Plus(p.rcv_nxt, p.rcv_ann_wnd)]

tcp_send_empty_ack(c) ==
  [c EXCEPT !.out = @ \cup {Wire(c, c.p.snd_nxt, <<>>, FALSE, FALSE)},
            !.p = Announced([@ EXCEPT !.flags = @ \ {"ACK_DELAY", "ACK_NOW"}])]

InWindow(p, s) ==
  (Minus(s.seqno, p.lastack) + s.len) % SeqSpace <= Least(p.snd_wnd, p.cwnd)

(* tcp_do_output_nagle for the i-th segment of ->unsent, and the two flags *)
(* that overrule it.                                                       *)
NagleAllows(p, i) ==
  \/ i = 1 /\ p.unacked = <<>>
  \/ i < Len(p.unsent) \/ p.unsent[i].len >= Mss
  \/ p.snd_buf = 0
  \/ p.flags \cap {"INFR", "NAGLEMEMERR", "FIN"} # {}

(* ->unacked and ->unsent are kept in the order of their numbers.          *)
InOrder(q, s) == SelectSeq(q, LAMBDA t : LT(t.seqno, s.seqno)) \o <<s>>
                   \o SelectSeq(q, LAMBDA t : ~LT(t.seqno, s.seqno))

tcp_output(c) ==
  LET p == c.p
      k == Prefix(p.unsent, LAMBDA i : InWindow(p, p.unsent[i]) /\ NagleAllows(p, i))
      sent == SubSeq(p.unsent, 1, k)
  IN  IF "ACK_NOW" \in p.flags /\ (p.unsent = <<>> \/ ~InWindow(p, p.unsent[1]))
      THEN tcp_send_empty_ack(c)
      ELSE IF k = 0 THEN [c EXCEPT !.p.flags = @ \ {"NAGLEMEMERR"}]
      ELSE [c EXCEPT
             !.out = @ \cup {Wire(c, s.seqno, s.data, s.syn, s.fin) : s \in ToSet(sent)},
             !.p = Announced(
               [p EXCEPT !.unsent = Drop(@, k), !.unacked = FoldLeft(InOrder, @, sent),
                         !.snd_nxt = IF LT(@, End(sent[k])) THEN End(sent[k]) ELSE @,
                         !.timing = TRUE,
                         !.flags = @ \ (IF p.state = "SYN_SENT" THEN {"NAGLEMEMERR"}
                                        ELSE {"NAGLEMEMERR", "ACK_DELAY", "ACK_NOW"})])]

(* tcp_enqueue_flags for SYN or FIN, when there is room in the send buffer.*)
tcp_enqueue_flags(p, syn) ==
  [p EXCEPT !.unsent = Append(@, Segment(p.snd_lbb, <<>>, syn, ~syn)),
            !.snd_lbb = Plus(@, 1), !.snd_buf = @ - 1,
            !.flags = @ \cup (IF syn THEN {} ELSE {"FIN"})]

(* tcp_send_fin: the FIN goes on the last unsent segment if it can.        *)
(* If not, and the send buffer is full, the call fails (ERR_MEM).          *)
FinJoinsData(p) == p.unsent # <<>> /\ ~Last(p.unsent).syn /\ ~Last(p.unsent).fin
FinFails(p) == ~FinJoinsData(p) /\ p.snd_buf = 0
tcp_send_fin(p) ==
  IF FinJoinsData(p)
  THEN [p EXCEPT !.unsent[Len(p.unsent)].fin = TRUE, !.flags = @ \cup {"FIN"}]
  ELSE tcp_enqueue_flags(p, FALSE)

(* nrtx is a u8_t that is only compared with MaxRtx: past it, it stands.   *)
OneMore(nrtx) == Least(nrtx + 1, MaxRtx + 1)

(* tcp_rexmit_rto: everything unacknowledged goes back to ->unsent.        *)
tcp_rexmit_rto(c) ==
  tcp_output([c EXCEPT !.p.unsent = c.p.unacked \o @, !.p.unacked = <<>>,
                       !.p.nrtx = OneMore(@)])

\* Mutant: the segment leaves ->unacked for nowhere.
RexmitForgets(p) ==
  IF p.unacked = <<>> THEN p
  ELSE [p EXCEPT !.unacked = Tail(@), !.nrtx = OneMore(@)]

(* tcp_rexmit: the first unacknowledged segment does.                      *)
tcp_rexmit(p) ==
  IF p.unacked = <<>> THEN p
  ELSE [p EXCEPT !.unsent = InOrder(@, p.unacked[1]), !.unacked = Tail(@),
                 !.nrtx = OneMore(@)]

(* Beyond the largest window a congestion window makes no difference.      *)
Wide(n) == Least(n, TcpWnd)

tcp_rexmit_fast(p) ==
  LET half == Most(Least(p.cwnd, p.snd_wnd) \div 2, 2 * Mss)
  IN  IF p.unacked = <<>> \/ "INFR" \in p.flags THEN p
      ELSE [tcp_rexmit(p) EXCEPT !.ssthresh = Wide(half), !.cwnd = Wide(half + 3 * Mss),
                                 !.flags = @ \cup {"INFR"}]

(* tcp_zero_window_probe: a FIN, or the first byte that is not acknowledged.*)
tcp_zero_window_probe(c) ==
  LET q == c.p.unacked \o c.p.unsent
  IN  IF q = <<>> THEN c
      ELSE [c EXCEPT !.out = @ \cup {Wire(c, q[1].seqno, Take(q[1].data, 1), FALSE,
                                          q[1].fin /\ q[1].len = 0)},
                     !.p = Announced(@)]

-----------------------------------------------------------------------------
(* The receive window.                                                     *)

RightEdge(p) == Plus(p.rcv_nxt, p.rcv_wnd)
MoreToAnnounce(p) ==
  ~LT(RightEdge(p), Plus(p.rcv_ann_right_edge, Least(TcpWnd \div 2, Mss)))

\* Mutant: a window that has not moved enough is announced as 0.
AnnouncesNothing(p) ==
  [p EXCEPT !.rcv_ann_wnd = IF MoreToAnnounce(p) THEN p.rcv_wnd ELSE 0]

tcp_update_rcv_ann_wnd(p) ==
  [p EXCEPT !.rcv_ann_wnd =
     IF MoreToAnnounce(p) THEN p.rcv_wnd
     ELSE IF LT(p.rcv_ann_right_edge, p.rcv_nxt) THEN 0
     ELSE Minus(p.rcv_ann_right_edge, p.rcv_nxt)]

(* tcp_recved, but for its call of tcp_output: that follows when the edge  *)
(* of the window has moved by TCP_WND_UPDATE_THRESHOLD.                    *)
Widened(p, len) == [p EXCEPT !.rcv_wnd = Least(@ + len, TcpWnd)]
WorthUpdate(p, len) ==
  LET w == Widened(p, len)
  IN  MoreToAnnounce(w) /\ Minus(RightEdge(w), w.rcv_ann_right_edge) >= TcpWnd \div 4
tcp_recved(p, len) ==
  [tcp_update_rcv_ann_wnd(Widened(p, len)) EXCEPT
     !.flags = @ \cup (IF WorthUpdate(p, len) THEN {"ACK_NOW"} ELSE {})]

(* tcp_ack: the first segment's ACK is delayed, the second's is not.       *)
tcp_ack(flags) ==
  IF "ACK_DELAY" \in flags THEN (flags \ {"ACK_DELAY"}) \cup {"ACK_NOW"}
  ELSE flags \cup {"ACK_DELAY"}

tcp_ack_now(p) == [p EXCEPT !.flags = @ \cup {"ACK_NOW"}]

-----------------------------------------------------------------------------
(* The queue of segments that came out of order.                           *)

(* Segment s is put before the queue q: what it covers is freed and its    *)
(* FIN taken over, and it is trimmed to what is left (tcp_oos_insert_      *)
(* segment; the same code stands in tcp_receive for a segment in sequence).*)
Overlay(s, q) ==
  LET end == Plus(s.seqno, s.len)
      n == Prefix(q, LAMBDA i : ~LT(end, Plus(q[i].seqno, q[i].len)))
      rest == Drop(q, n)
      len == IF rest # <<>> /\ LT(rest[1].seqno, end)
             THEN Minus(rest[1].seqno, s.seqno) ELSE s.len
  IN  IF s.fin THEN [seg |-> s, rest |-> <<>>]
      ELSE [seg |-> [Trim(s, len) EXCEPT !.fin = \E i \in 1..n : q[i].fin],
            rest |-> rest]

tcp_oos_insert_segment(s, q) == LET o == Overlay(s, q) IN <<o.seg>> \o o.rest

CutAt(s, seqno) ==
  IF LT(seqno, Plus(s.seqno, s.len)) THEN Trim(s, Minus(seqno, s.seqno)) ELSE s

(* The last check of tcp_receive's search, on the plain 32-bit sums.       *)
TrimToWindow(p, s) ==
  IF End(s) > RightEdge(p)
  THEN [Trim(s, Minus(RightEdge(p), s.seqno)) EXCEPT !.fin = FALSE]
  ELSE s

Queued(p, s) ==
  LET q == p.ooseq
      n == Prefix(q, LAMBDA i : LT(q[i].seqno, s.seqno))
      cut == IF n = 0 THEN <<>> ELSE Append(Take(q, n - 1), CutAt(q[n], s.seqno))
  IN  CASE q = <<>> -> <<s>>
        [] n < Len(q) /\ q[n + 1].seqno = s.seqno ->
             IF s.len > q[n + 1].len
             THEN Take(q, n) \o tcp_oos_insert_segment(s, Drop(q, n)) ELSE q
        [] n < Len(q) /\ q[n + 1].seqno # s.seqno ->
             cut \o tcp_oos_insert_segment(s, Drop(q, n))
        [] n = Len(q) /\ n > 0 ->
             IF q[n].fin THEN q ELSE Append(cut, TrimToWindow(p, s))

-----------------------------------------------------------------------------
(* tcp_receive.  For input, c also holds what the call hands up: data and  *)
(* fin (recv_data, TF_GOT_FIN) and end ("RST" or "CLOSED": TF_RESET,       *)
(* TF_CLOSED; "ABRT" when the pcb is gone).                                *)

UpdateWindow(p, m) ==
  IF \/ LT(p.snd_wl1, m.seqno)
     \/ p.snd_wl1 = m.seqno /\ LT(p.snd_wl2, m.ackno)
     \/ p.snd_wl2 = m.ackno /\ m.wnd > p.snd_wnd
  THEN [p EXCEPT !.snd_wnd = m.wnd, !.snd_wnd_max = Most(@, m.wnd),
                 !.snd_wl1 = m.seqno, !.snd_wl2 = m.ackno, !.persist = m.wnd = 0]
  ELSE p

(* An ACK of nothing new: the third in a row retransmits, more widen the   *)
(* window (dupacks is only compared with 3, so it stops at 4).             *)
DuplicateAck(p) ==
  LET n == Least(p.dupacks + 1, 4)
      q == [p EXCEPT !.dupacks = n]
  IN  IF n > 3 THEN [q EXCEPT !.cwnd = Wide(@ + Mss)]
      ELSE IF n = 3 THEN tcp_rexmit_fast(q) ELSE q

\* Mutants: everything sent counts as acknowledged; the timer stops though
\* segments are left on ->unacked.
AcksAllSent(p, ackno) ==
  [p EXCEPT !.nrtx = 0, !.dupacks = 0, !.lastack = p.snd_nxt, !.unacked = <<>>,
            !.snd_buf = @ + Minus(p.snd_nxt, p.lastack), !.timing = FALSE]
StopsTimer(p, ackno) ==
  [p EXCEPT !.nrtx = 0, !.dupacks = 0, !.flags = @ \ {"INFR"}, !.lastack = ackno,
            !.snd_buf = @ + Minus(ackno, p.lastack), !.timing = FALSE,
            !.unacked = SelectSeq(@, LAMBDA s : LT(ackno, End(s)))]

NewAck(p, ackno) ==
  LET left == SelectSeq(p.unacked, LAMBDA s : LT(ackno, End(s)))
      cwnd == IF "INFR" \in p.flags THEN p.ssthresh ELSE p.cwnd
  IN  [p EXCEPT !.nrtx = 0, !.dupacks = 0, !.flags = @ \ {"INFR"}, !.lastack = ackno,
                !.snd_buf = @ + Minus(ackno, p.lastack), !.unacked = left,
                !.timing = left # <<>>,
                !.cwnd = Wide(IF cwnd < p.ssthresh THEN cwnd + Mss
                              ELSE cwnd + (Mss * Mss) \div cwnd)]

(* What is on ->unsent may have been sent before and be acknowledged now.  *)
DropAcked(c, ackno) ==
  LET p == c.p
  IN  [c EXCEPT !.p.unsent = Drop(@, Prefix(@, LAMBDA i :
                               Between(ackno, End(p.unsent[i]), p.snd_nxt)))]

(* The window has been updated from old to c.p.                            *)
CountAck(c, old, m) ==
  LET p == c.p
      sameEdge == Plus(p.snd_wl2, p.snd_wnd) = Plus(old.snd_wl2, old.snd_wnd)
      empty == m.data = <<>> /\ ~m.fin /\ ~m.syn
  IN  IF LEQ(m.ackno, p.lastack)
      THEN [c EXCEPT !.p = IF empty /\ sameEdge /\ p.timing /\ p.lastack = m.ackno
                           THEN DuplicateAck(@) ELSE [@ EXCEPT !.dupacks = 0]]
      ELSE IF LEQ(m.ackno, p.snd_nxt) THEN [c EXCEPT !.p = NewAck(@, m.ackno)]
      ELSE tcp_send_empty_ack(c)

ReceiveAck(c, m) ==
  DropAcked(CountAck([c EXCEPT !.p = UpdateWindow(@, m)], c.p, m), m.ackno)

(* The segment next in sequence goes before the queue of the others.  What *)
(* of the queue is now in sequence goes with it: Released of it.           *)
Fits(p, s) == IF TcpLen(s) > p.rcv_wnd THEN [Trim(s, p.rcv_wnd) EXCEPT !.fin = FALSE] ELSE s

\* Mutant: the whole queue, gaps and all.
ReleasesAll(q) == Len(q)
Released(q) == Prefix(q, LAMBDA i : i = 1 \/ q[i].seqno = End(q[i - 1]))

(* The first n segments of q are handed up, the first one has just come.   *)
Accept(c, q, n) ==
  LET nxt == End(q[n])
      lateFin == \E i \in 2..n : q[i].fin
  IN  [c EXCEPT
        !.data = @ \o FlattenSeq([i \in 1..n |-> q[i].data]),
        !.fin = @ \/ q[1].fin \/ lateFin,
        !.p = tcp_update_rcv_ann_wnd(
                [@ EXCEPT !.rcv_nxt = nxt, !.ooseq = Drop(q, n),
                          !.rcv_wnd = @ - Minus(nxt, c.p.rcv_nxt),
                          !.state = IF lateFin /\ @ = "ESTABLISHED" THEN "CLOSE_WAIT" ELSE @,
                          !.flags = tcp_ack(@)])]
AcceptAll(c, q) == Accept(c, q, Released(q))
InSequence(c, s) == AcceptAll(c, tcp_oos_insert_segment(Fits(c.p, s), c.p.ooseq))

InReceiveWindow(p, seqno) ==
  Between(seqno, p.rcv_nxt, Minus(Plus(p.rcv_nxt, p.rcv_wnd), 1))

ReceiveData(c, m) ==
  LET whole == Segment(m.seqno, m.data, m.syn, m.fin)
      off == Minus(c.p.rcv_nxt, m.seqno)
      inside == Between(c.p.rcv_nxt, Plus(m.seqno, 1), Minus(End(whole), 1))
      s == IF inside
           THEN [whole EXCEPT !.seqno = c.p.rcv_nxt, !.len = @ - off, !.data = Drop(@, off)]
           ELSE whole
  IN  IF TcpLen(whole) = 0 \/ c.p.state \in {"CLOSE_WAIT", "CLOSING", "LAST_ACK"}
      THEN IF InReceiveWindow(c.p, m.seqno) THEN c ELSE [c EXCEPT !.p = tcp_ack_now(@)]
      ELSE IF ~InReceiveWindow(c.p, s.seqno) THEN tcp_send_empty_ack(c)
      ELSE IF s.seqno = c.p.rcv_nxt THEN InSequence(c, s)
      ELSE [tcp_send_empty_ack(c) EXCEPT !.p.ooseq = Queued(c.p, s)]

tcp_receive(c, m) == ReceiveData(IF m.ack THEN ReceiveAck(c, m) ELSE c, m)

-----------------------------------------------------------------------------
(* tcp_process: the state machine.                                         *)

ToTimeWait(c) == [c EXCEPT !.p = [tcp_pcb_purge(@) EXCEPT !.state = "TIME_WAIT"]]
RstTo(c, m) ==
  [c EXCEPT !.out = @ \cup {tcp_rst(c.h, m.ackno, End(Segment(m.seqno, m.data, m.syn, m.fin)))}]
AckAll(c, m) == m.ack /\ m.ackno = c.p.snd_nxt
FirstCwnd(cwnd) == IF cwnd = 1 THEN 2 * Mss ELSE Mss
AckFin(c, state) ==
  IF c.fin THEN [c EXCEPT !.p = [tcp_ack_now(@) EXCEPT !.state = state]] ELSE c

Reset(c, m) ==
  IF IF c.p.state = "SYN_SENT" THEN m.ackno = c.p.snd_nxt
     ELSE Between(m.seqno, c.p.rcv_nxt, RightEdge(c.p))
  THEN [c EXCEPT !.end = "RST"] ELSE c

SynSent(c, m) ==
  LET rest == Tail(c.p.unacked)
  IN  IF m.ack /\ m.syn /\ m.ackno = Plus(c.p.unacked[1].seqno, 1)
      THEN [c EXCEPT !.p = tcp_ack_now(
              [@ EXCEPT !.snd_buf = @ + 1, !.rcv_nxt = Plus(m.seqno, 1),
                        !.rcv_ann_right_edge = Plus(m.seqno, 1), !.lastack = m.ackno,
                        !.snd_wnd = m.wnd, !.snd_wnd_max = m.wnd,
                        !.snd_wl1 = Minus(m.seqno, 1), !.state = "ESTABLISHED",
                        !.ssthresh = Wide(10 * Mss), !.cwnd = FirstCwnd(@),
                        !.unacked = rest, !.timing = rest # <<>>,
                        !.nrtx = IF rest = <<>> THEN @ ELSE 0])]
      ELSE IF m.ack THEN RstTo(c, m) ELSE c

(* The accept callback takes the first connection and refuses a later one. *)
SynRcvd(c, m) ==
  LET e == [c EXCEPT !.p.state = "ESTABLISHED"]
      r == tcp_receive(e, m)
  IN  CASE m.ack /\ Between(m.ackno, Plus(c.p.lastack, 1), c.p.snd_nxt) /\ ~c.a.accepted ->
             AckFin([r EXCEPT !.p.cwnd = FirstCwnd(c.p.cwnd), !.a.accepted = TRUE],
                    "CLOSE_WAIT")
        [] m.ack /\ Between(m.ackno, Plus(c.p.lastack, 1), c.p.snd_nxt) /\ c.a.accepted ->
             [e EXCEPT !.end = "ABRT", !.out = @ \cup {tcp_rst(c.h, c.p.snd_nxt, c.p.rcv_nxt)}]
        [] m.ack /\ ~Between(m.ackno, Plus(c.p.lastack, 1), c.p.snd_nxt) -> RstTo(c, m)
        [] ~m.ack -> IF m.syn /\ m.seqno = Minus(c.p.rcv_nxt, 1)
                     THEN [c EXCEPT !.p = tcp_rexmit(@)] ELSE c

(* A segment after the handshake; r is what tcp_receive has made of it.    *)
FinWait1(r, m) ==
  IF r.fin /\ AckAll(r, m) THEN ToTimeWait([r EXCEPT !.p = tcp_ack_now(@)])
  ELSE IF r.fin THEN AckFin(r, "CLOSING")
  ELSE IF AckAll(r, m) THEN [r EXCEPT !.p.state = "FIN_WAIT_2"] ELSE r

FinWait2(r) == IF r.fin THEN ToTimeWait([r EXCEPT !.p = tcp_ack_now(@)]) ELSE r
Closing(r, m) == IF AckAll(r, m) THEN ToTimeWait(r) ELSE r
\* Mutant: the acknowledgement of the FIN is not noticed.
LastAckWaits(r, m) == r
LastAck(r, m) == IF AckAll(r, m) THEN [r EXCEPT !.end = "CLOSED"] ELSE r

Received(r, m) ==
  CASE Open(r.p) -> AckFin(r, "CLOSE_WAIT")
    [] r.p.state = "FIN_WAIT_1" -> FinWait1(r, m)
    [] r.p.state = "FIN_WAIT_2" -> FinWait2(r)
    [] r.p.state = "CLOSING" -> Closing(r, m)
    [] r.p.state = "LAST_ACK" -> LastAck(r, m)

tcp_process(c, m) ==
  CASE m.rst -> Reset(c, m)
    [] ~m.rst /\ c.p.state = "SYN_SENT" -> SynSent(c, m)
    [] ~m.rst /\ c.p.state = "SYN_RCVD" -> SynRcvd(c, m)
    [] ~m.rst /\ c.p.state \notin {"SYN_SENT", "SYN_RCVD"} ->
         IF m.syn THEN [c EXCEPT !.p = tcp_ack_now(@)] ELSE Received(tcp_receive(c, m), m)

-----------------------------------------------------------------------------
(* tcp_input: what is handed to the application, and the output after it.  *)

(* The recv callback takes the data and calls tcp_recved now or later, or  *)
(* it refuses them; it answers the same way for the whole of a tcp_input.  *)
Recv(c, data, cb) ==
  CASE cb = "refuse" -> [c EXCEPT !.p.refused = data, !.a.refusals = @ + 1]
    [] cb = "now" -> [c EXCEPT !.p = [tcp_recved(@, Len(data)) EXCEPT !.refused = <<>>],
                               !.a.got = @ \o data]
    [] cb = "later" -> [c EXCEPT !.p.refused = <<>>, !.a.got = @ \o data,
                                 !.a.unread = @ + Len(data)]

Eof(c) ==
  IF c.p.refused # <<>> THEN [c EXCEPT !.p.refused_fin = TRUE]
  ELSE [c EXCEPT !.p.rcv_wnd = IF @ # TcpWnd THEN @ + 1 ELSE @,
                 !.p.refused_fin = FALSE, !.a.eof = TRUE]

(* Data refused before are offered again: outside of tcp_process, so that  *)
(* tcp_recved sends its window update at once.                             *)
OfferAgain(c, cb) ==
  IF cb = "now" /\ WorthUpdate(c.p, Len(c.p.refused))
  THEN tcp_output(Recv(c, c.p.refused, cb)) ELSE Recv(c, c.p.refused, cb)
EofAfter(c, fin) == IF fin /\ c.p.refused = <<>> THEN Eof(c) ELSE c
tcp_process_refused_data(c, cb) ==
  IF c.p.refused = <<>> THEN c ELSE EofAfter(OfferAgain(c, cb), c.p.refused_fin)

Gone(c, err) == [c EXCEPT !.p = NoPcb, !.a.err = err]

HandUp(c, cb) ==
  LET r == IF c.data = <<>> THEN c ELSE Recv(c, c.data, cb)
  IN  CASE c.end = "RST" -> Gone(c, "RST")
        [] c.end = "ABRT" -> [c EXCEPT !.p = NoPcb]
        [] c.end = "CLOSED" -> IF "RXCLOSED" \in c.p.flags THEN [c EXCEPT !.p = NoPcb]
                               ELSE Gone(c, "CLSD")
        [] c.end = "" /\ c.data # <<>> /\ "RXCLOSED" \in c.p.flags ->
             IF c.p.state = "TIME_WAIT" THEN [c EXCEPT !.p = NoPcb]
             ELSE Gone([c EXCEPT !.out = @ \cup {tcp_rst(c.h, c.p.snd_nxt, c.p.rcv_nxt)}],
                       "ABRT")
        [] OTHER -> tcp_output(IF c.fin THEN Eof(r) ELSE r)

InputAfter(r, m, cb) ==
  IF r.p.refused # <<>> /\ (m.data # <<>> \/ m.syn \/ m.fin) THEN r
  ELSE HandUp(tcp_process(r, m), cb)
ActiveInput(c, m, cb) == InputAfter(tcp_process_refused_data(c, cb), m, cb)

tcp_timewait_input(c, m) ==
  CASE m.rst -> c
    [] ~m.rst /\ m.syn /\ Between(m.seqno, c.p.rcv_nxt, RightEdge(c.p)) -> RstTo(c, m)
    [] OTHER -> IF m.data # <<>> \/ m.syn \/ m.fin
                THEN tcp_output([c EXCEPT !.p = tcp_ack_now(@)]) ELSE c

tcp_listen_input(c, m) ==
  LET p == [tcp_alloc(Iss[c.h][c.n]) EXCEPT
              !.state = "SYN_RCVD", !.rcv_nxt = Plus(m.seqno, 1),
              !.rcv_ann_right_edge = Plus(m.seqno, 1), !.snd_wl1 = Minus(m.seqno, 1),
              !.snd_wnd = m.wnd, !.snd_wnd_max = m.wnd, !.ssthresh = Wide(m.wnd)]
  IN  CASE m.rst -> c
        [] ~m.rst /\ m.ack -> RstTo(c, m)
        [] OTHER -> IF m.syn /\ c.n \in DOMAIN Iss[c.h]
                    THEN tcp_output([c EXCEPT !.p = tcp_enqueue_flags(p, TRUE), !.n = @ + 1])
                    ELSE c

tcp_input(c, m, cb) ==
  CASE Active(c.p) -> ActiveInput(c, m, cb)
    [] c.p.state = "TIME_WAIT" -> tcp_timewait_input(c, m)
    [] c.p.state = "CLOSED" /\ c.h = Server -> tcp_listen_input(c, m)
    [] c.p.state = "CLOSED" /\ c.h # Server -> IF m.rst THEN c ELSE RstTo(c, m)

-----------------------------------------------------------------------------
(* The calls of the application.                                           *)

(* tcp_alloc has drawn a number before: snd_wl2 keeps that.                *)
tcp_connect(c) ==
  LET iss == Iss[c.h][c.n + 1]
      p == [tcp_alloc(Iss[c.h][c.n]) EXCEPT !.snd_nxt = iss,
              !.lastack = Minus(iss, 1), !.snd_lbb = Minus(iss, 1), !.snd_wnd = TcpWnd,
              !.ssthresh = Wide(10 * Mss)]
  IN  tcp_output([c EXCEPT !.p = [tcp_enqueue_flags(p, TRUE) EXCEPT !.state = "SYN_SENT"],
                           !.n = @ + 1])

(* tcp_write fills the last unsent segment and adds new ones.              *)
Room(p) == IF p.unsent = <<>> \/ Last(p.unsent).len = 0 THEN 0
           ELSE Least(Mss, p.snd_wnd_max \div 2) - Last(p.unsent).len
Chunks(p, data) ==
  LET size == Least(Mss, p.snd_wnd_max \div 2)
      rest == Drop(data, Room(p))
      base == Plus(p.snd_lbb, Len(data) - Len(rest))
  IN  [i \in 1..((Len(rest) + size - 1) \div size) |->
         Segment(Plus(base, (i - 1) * size), Take(Drop(rest, (i - 1) * size), size),
                 FALSE, FALSE)]
Extended(p, data) ==
  IF Room(p) = 0 THEN p.unsent
  ELSE [p.unsent EXCEPT ![Len(p.unsent)].data = @ \o Take(data, Room(p)),
                        ![Len(p.unsent)].len = @ + Least(Room(p), Len(data))]

tcp_write(c, data) ==
  [c EXCEPT !.p.unsent = Extended(c.p, data) \o Chunks(c.p, data),
            !.p.snd_lbb = Plus(@, Len(data)), !.p.snd_buf = @ - Len(data)]

(* tcp_close ("close"), and tcp_shutdown of the sending side ("shutdown"). *)
Unread(p) == p.refused # <<>> \/ p.rcv_wnd # TcpWnd
ResetsFirst(p, way) == Open(p) /\ way = "close" /\ Unread(p)
CloseReset(c) ==
  [c EXCEPT !.out = @ \cup {tcp_rst(c.h, c.p.snd_nxt, c.p.rcv_nxt)},
            !.p = IF @.state = "ESTABLISHED"
                  THEN [tcp_pcb_purge(@) EXCEPT !.state = "TIME_WAIT"] ELSE NoPcb]
SendsFin(c) ==
  IF FinFails(c.p) THEN c
  ELSE tcp_output([c EXCEPT !.p = [tcp_send_fin(@) EXCEPT
         !.state = IF @ = "CLOSE_WAIT" THEN "LAST_ACK" ELSE "FIN_WAIT_1"]])

tcp_close(c, way) ==
  LET d == [c EXCEPT !.p.flags = @ \cup (IF way = "close" THEN {"RXCLOSED"} ELSE {})]
  IN  CASE ResetsFirst(c.p, way) -> CloseReset(d)
        [] Open(c.p) /\ ~ResetsFirst(c.p, way) -> SendsFin(d)
        [] c.p.state = "SYN_SENT" -> [d EXCEPT !.p = NoPcb]
        [] OTHER -> d

-----------------------------------------------------------------------------
(* The timers.                                                             *)

(* tcp_fasttmr: the delayed ACK, and the data refused before.              *)
tcp_fasttmr(c, cb) ==
  LET acked == [tcp_output([c EXCEPT !.p = tcp_ack_now(@)]) EXCEPT
                  !.p.flags = @ \ {"ACK_DELAY", "ACK_NOW"}]
  IN  tcp_process_refused_data(IF "ACK_DELAY" \in c.p.flags THEN acked ELSE c, cb)

(* What tcp_slowtmr does for a pcb whose retransmission timer has run out. *)
Retransmits(c) ==
  LET half == Most(Least(c.p.cwnd, c.p.snd_wnd) \div 2, 2 * Mss)
  IN  tcp_rexmit_rto([c EXCEPT !.p.ssthresh = Wide(half), !.p.cwnd = Mss])

=============================================================================
