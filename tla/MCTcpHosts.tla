------------------------------ MODULE MCTcpHosts -----------------------------
(***************************************************************************)
(* The instances of TcpHosts that TLC checks.                              *)
(***************************************************************************)
EXTENDS TcpHosts

\* The numbers of the server wrap early: the space has 32 and they begin at 30.
\* Its second pcb, for a SYN that comes again, begins at 10.  The client draws a
\* number for its pcb and a later one for tcp_connect.
MCIss == [h \in Hosts |-> IF h = Client THEN <<0, 1>> ELSE <<30, 10>>]

Scripts(client, server) == [h \in Hosts |-> IF h = Client THEN client ELSE server]

\* The client writes one full segment; both hosts shut down; nothing is lost.
Plain ==
  [script |-> Scripts(<<2>>, <<>>), reads |-> {"now"}, refusals |-> 0,
   ways |-> {"shutdown"}, unsent |-> FALSE, expiring |-> {},
   losses |-> 0, dups |-> 0, early |-> 0]
\* The same in a connection that nobody closes.
Steady == [Plain EXCEPT !.ways = {}]

Lossy == [Plain EXCEPT !.script = Scripts(<<2>>, <<1>>), !.losses = 1]
Doubling == [Plain EXCEPT !.losses = 1, !.dups = 1]
\* Three segments, the last one with the FIN, in any order.
Gaps == [Plain EXCEPT !.script = Scripts(<<1, 2>>, <<>>)]
Hasty == [Plain EXCEPT !.early = 1]
Expiring ==
  [Plain EXCEPT !.ways = {"close", "shutdown"}, !.losses = 1,
                !.expiring = {"SYN_RCVD", "FIN_WAIT_2", "LAST_ACK"}]
GivingUp == [Steady EXCEPT !.losses = 2]
Refusing == [Steady EXCEPT !.script = Scripts(<<1, 2>>, <<>>), !.refusals = 1, !.losses = 1]
\* Four bytes close the window; the fifth waits for the application to read.
Reading == [Steady EXCEPT !.script = Scripts(<<4, 1>>, <<>>), !.reads = {"later"},
                          !.losses = 1]
\* Three ACKs that come twice: the fast retransmission.
Fast == [Steady EXCEPT !.script = Scripts(<<2, 1>>, <<>>), !.dups = 3]

MCAll == {Lossy, Gaps, Doubling, Hasty, Expiring, GivingUp, Refusing,
          Reading, Fast}

\* With a send buffer that is no larger than the window (TcpSndBuf = 4) a FIN finds
\* no room in it, and tcp_close and tcp_shutdown fail until the data are acknowledged.
MCFull == {[Plain EXCEPT !.script = Scripts(<<4>>, <<>>), !.ways = {"close", "shutdown"}]}

\* Data larger than the window are queued when the client shuts down.
MCUnsent == {[Plain EXCEPT !.script = Scripts(<<4, 2>>, <<>>), !.unsent = TRUE]}
\* The last write is larger than what is left of the window.
MCUpdate == {[Steady EXCEPT !.script = Scripts(<<2, 1, 2>>, <<>>), !.reads = {"later"},
                            !.losses = 1]}
\* Timeouts and a fast retransmission between two of them.
MCRetries == {[Steady EXCEPT !.script = Scripts(<<2, 2>>, <<>>), !.refusals = 2, !.dups = 3,
                             !.early = 2]}
\* Both sides shut down, and data that come with the FIN are refused.
MCRefused == {[Plain EXCEPT !.script = Scripts(<<1, 2>>, <<>>), !.refusals = 1]}
\* The numbers of the client wrap while three segments come out of order.
MCWrap == {[Steady EXCEPT !.script = Scripts(<<1, 3, 1>>, <<>>)]}
MCIssWrap == [h \in Hosts |-> IF h = Client THEN <<26, 27>> ELSE <<12, 20>>]
=============================================================================
