------------------------------- MODULE FtpServer ------------------------------
(***************************************************************************)
(* The FTP server (ftp.c and the callbacks of flyEthernetTask.c) on the    *)
(* RAW API of lwIP: one client, its control connection, and the data       *)
(* connections that the server opens to it.                                *)
(*                                                                         *)
(* A callback is the list of the statements it still has to execute, so    *)
(* that another thread can run between two of them: the server keeps the   *)
(* reply it is sending in a global buffer and the connection it sends to   *)
(* in the global ctrOrMsg.  lwIP calls the receiving callbacks from        *)
(* FlyEthernetTask (netif->input is ethernet_input) and ftp_poll_fn from   *)
(* the timers of tcpip_thread; each is given by its priority, a smaller    *)
(* number is a higher one.  They are equal when one thread runs the core.  *)
(*                                                                         *)
(* The client waits for the replies it is owed before it sends the next    *)
(* command.  Of lwIP the model has the connections and who frees them; the *)
(* network loses nothing.                                                  *)
(***************************************************************************)
EXTENDS Naturals, Sequences, SequencesExt, FiniteSets

CONSTANTS
  InputThread,  \* the priority of the thread that calls ftp_recv_fn
  TimerThread,  \* the priority of the thread that calls ftp_poll_fn
  Pcbs,         \* the pcbs of lwIP (MEMP_NUM_TCP_PCB)
  Listen,       \* the listening pcb; no pcb
  Rounds,       \* the polls of a listing (10 in send_next_directory)
  Window,       \* how many commands the receive window has room for
  Commands,     \* the commands that the client sends
  Faults        \* bound: how often the client closes or refuses a connection, or
                \*   lwIP has no memory for tcp_write

ASSUME FtpAssumption ==
  /\ InputThread \in Nat /\ TimerThread \in Nat
  /\ Listen \notin Pcbs
  /\ Rounds \in Nat \ {0} /\ Window \in Nat
  /\ Faults \in Nat

VARIABLES
  work,           \* per thread: what is left of the callback it runs
  buffer,         \* the text that send_msg or send_data is sending
  ctrOrMsg,       \* the connection that the next call of the RAW API is for
  ftpRAWControl, ftpRAWDataMsg,
  state,          \* fsm->state
  bConnect,       \* of the data connection
  msgcount,
  recBuf,         \* the command that ftp_recv_fn copied last
  conn,           \* the pcbs
  mine,           \* the client's control connection, Listen if it has none
  owed,           \* the replies that the client waits for
  window,         \* the commands that the client may still send
  faults,         \* the connections closed, refused or aborted, and the calls
                  \*   of tcp_write that failed, so far
  begun           \* history: a listing has begun since the last 226

server == <<buffer, ctrOrMsg, ftpRAWControl, ftpRAWDataMsg, state, bConnect,
            msgcount, begun>>
client == <<mine, owed, window, faults>>
vars == <<work, server, recBuf, conn, client>>

Threads == {InputThread, TimerThread}

Messages ==
  {"line", "125", "150", "200", "214", "220", "226", "230", "250", "257",
   "331", "500", "502"}

\* What a callback may still have to execute: the names of the connections stand
\* for the assignment to ctrOrMsg, the replies for the filling of buffer.
Statements ==
  {"eCtr", "eMsg", "write", "callbacks", "new", "connect", "clear", "connected",
   "restart", "PASS", "IDLE", "LIST"} \cup Messages

Free == [use |-> "free", open |-> FALSE, recv |-> FALSE, poll |-> FALSE,
         got |-> <<>>]

TypeOK ==
  /\ work \in [Threads -> Seq(Statements)]
  /\ buffer \in Messages \cup {""}
  /\ ctrOrMsg \in {"eCtr", "eMsg"}
  /\ ftpRAWControl \in Pcbs \cup {Listen}
  /\ ftpRAWDataMsg \in Pcbs \cup {Listen}
  /\ state \in {"USER", "PASS", "IDLE", "LIST"}
  /\ bConnect \in BOOLEAN
  /\ msgcount \in 0 .. Rounds + 2
  /\ recBuf \in Commands \cup {""}
  /\ conn \in [Pcbs -> [use : {"free", "control", "data", "closed"},
                        open : BOOLEAN, recv : BOOLEAN, poll : BOOLEAN, got : Seq(Messages)]]
  /\ mine \in Pcbs \cup {Listen}
  /\ owed \in Seq(Messages)
  /\ window \in 0 .. Window
  /\ faults \in 0 .. Faults + 1
  /\ begun \in BOOLEAN

-----------------------------------------------------------------------------
(* The statements of the server.                                            *)

\* Mutant: the connection is left as it was set last.
SendMsgUnset(m) == <<m, "write">>

\* send_msg.
SendMsg(m) == <<m, "eCtr", "write">>

\* send_data.
SendData(m) == <<m, "eMsg", "write">>

\* open_dataconnection: clear is the memset, which resets bConnect.
OpenData == <<"clear", "eMsg", "new", "connect">>

\* Mutant: the state of the last command is left.
CmdUserKeepsState == SendMsg("331") \o <<"restart">>

CmdUser == SendMsg("331") \o <<"restart", "PASS">>
CmdPass == SendMsg("230") \o <<"IDLE">>

\* The address and port that it parses are left out.
CmdPort == SendMsg("200")

\* pDirPatch is never NULL.
CmdCwd == SendMsg("250")
CmdPwd == SendMsg("257")
CmdSyst == SendMsg("214")
CmdType == SendMsg("502")

\* cmd_list_common, for LIST and NLST alike.
ListCommon == OpenData \o <<"LIST">>
CmdNlst == ListCommon \o SendMsg("125") \o SendMsg("150")
CmdList == ListCommon \o SendMsg("150") \o SendMsg("125")

\* What ftpd_msgrecv executes for a command.  "NOOP" stands for all commands of
\* the table that have an empty function (QUIT, CDUP, RETR, STOR, ABOR, ...).
Command(c) ==
  CASE c = "USER" -> CmdUser
    [] c = "PASS" -> CmdPass
    [] c = "PORT" -> CmdPort
    [] c = "CWD"  -> CmdCwd
    [] c = "PWD"  -> CmdPwd
    [] c = "SYST" -> CmdSyst
    [] c = "TYPE" -> CmdType
    [] c = "LIST" -> CmdList
    [] c = "NLST" -> CmdNlst
    [] c = "NOOP" -> <<>>
    [] OTHER      -> SendMsg("500")

\* The replies that the server means to give: the texts that each function of the
\* table sends, and after a listing those of send_next_directory.
Replies(c) ==
  CASE c = "USER" -> <<"331">>
    [] c = "PASS" -> <<"230">>
    [] c = "PORT" -> <<"200">>
    [] c = "CWD"  -> <<"250">>
    [] c = "PWD"  -> <<"257">>
    [] c = "SYST" -> <<"214">>
    [] c = "TYPE" -> <<"502">>
    [] c = "LIST" -> <<"150", "125", "226", "250">>
    [] c = "NLST" -> <<"125", "150", "226", "250">>
    [] c = "NOOP" -> <<>>
    [] OTHER      -> <<"500">>

\* Mutant: the listing is completed one poll early.
NextDirectoryEarly(n) ==
  IF n < Rounds - 1 THEN SendData("line") \o SendData("line")
  ELSE IF n = Rounds THEN SendMsg("226") \o SendMsg("250")
  ELSE <<>>

\* Mutant: 226 is sent by every poll after the listing.
NextDirectoryAgain(n) ==
  IF n < Rounds THEN SendData("line") \o SendData("line")
  ELSE IF n > Rounds THEN SendMsg("226") \o SendMsg("250")
  ELSE <<>>

\* send_next_directory, which has counted msgcount up to n.
NextDirectory(n) ==
  IF n < Rounds THEN SendData("line") \o SendData("line")
  ELSE IF n = Rounds + 1 THEN SendMsg("226") \o SendMsg("250")
  ELSE <<>>

-----------------------------------------------------------------------------
\* The pcbs that tcp_alloc may return: a free one, and if there is none that
\* of a connection which it aborts.  All have the same priority; which one has
\* been inactive for longest is left open.
Allocatable ==
  LET free == {p \in Pcbs : conn[p].use = "free"}
  IN  IF free = {} THEN Pcbs ELSE free

\* tcp_kill_prio aborts the connection of p, if there is one.
Aborts(p) ==
  faults' = IF conn[p].use # "free" /\ faults <= Faults THEN faults + 1
                                                        ELSE faults

Selected == IF ctrOrMsg = "eCtr" THEN ftpRAWControl ELSE ftpRAWDataMsg

\* No other thread that is ready has a higher priority.
Runs(t) == \A r \in Threads : r < t => work[r] = <<>>

\* The thread is at one of the statements S, and goes on.
Step(t, S) ==
  /\ Runs(t)
  /\ work[t] # <<>>
  /\ Head(work[t]) \in S
  /\ work' = [work EXCEPT ![t] = Tail(@)]
  /\ UNCHANGED <<recBuf, owed, window>>

At(t, S) == Step(t, S) /\ UNCHANGED faults

\* memset and vsprintf to buffer.
Fill(t) ==
  /\ At(t, Messages)
  /\ buffer' = Head(work[t])
  /\ begun' = (begun /\ buffer' # "226")
  /\ UNCHANGED <<ctrOrMsg, ftpRAWControl, ftpRAWDataMsg, state, bConnect,
                 msgcount, conn, mine>>

Select(t) ==
  /\ At(t, {"eCtr", "eMsg"})
  /\ ctrOrMsg' = Head(work[t])
  /\ UNCHANGED <<buffer, ftpRAWControl, ftpRAWDataMsg, state, bConnect,
                 msgcount, begun, conn, mine>>

\* ftp_writeData: what is written to a pcb that is free, or to a client that
\* is gone, is lost.  What is written before the connection is open is kept.
\* The result of tcp_write is not looked at: if it fails, the text is lost.
Write(t) ==
  /\ Step(t, {"write"})
  /\ \/ /\ IF Selected \in Pcbs /\ (conn[Selected].open \/ conn[Selected].use = "data")
           THEN conn' = [conn EXCEPT ![Selected].got = Append(@, buffer)]
           ELSE UNCHANGED conn
        /\ UNCHANGED faults
     \/ /\ faults < Faults
        /\ faults' = faults + 1
        /\ UNCHANGED conn
  /\ UNCHANGED <<server, mine>>

\* ftp_new and ftp_bind; the connection whose pcb it may take is aborted.
New(t) ==
  /\ Step(t, {"new"})
  /\ \E p \in Allocatable :
       /\ Aborts(p)
       /\ conn' = [conn EXCEPT ![p] = [Free EXCEPT !.use = "data"]]
       /\ ftpRAWDataMsg' = p
       /\ mine' = IF p = mine THEN Listen ELSE mine
  /\ UNCHANGED <<buffer, ctrOrMsg, ftpRAWControl, state, bConnect, msgcount, begun>>

\* Mutant: no poll is asked for.
CallbacksNoPoll(t) ==
  /\ At(t, {"callbacks"})
  /\ IF Selected \in Pcbs /\ conn[Selected].use # "free"
     THEN conn' = [conn EXCEPT ![Selected].recv = TRUE]
     ELSE UNCHANGED conn
  /\ UNCHANGED <<server, mine>>

\* ftp_recv, ftp_poll and their like in ftp_accept_fn.
Callbacks(t) ==
  /\ At(t, {"callbacks"})
  /\ IF Selected \in Pcbs /\ conn[Selected].use # "free"
     THEN conn' = [conn EXCEPT ![Selected].recv = TRUE, ![Selected].poll = TRUE]
     ELSE UNCHANGED conn
  /\ UNCHANGED <<server, mine>>

\* The assignments to fsm and msgcount, and the call of tcp_connect, of which
\* the model has only the answer of the client (DataOpen).
Assign(t) ==
  /\ At(t, {"clear", "connected", "connect", "restart", "PASS", "IDLE", "LIST"})
  /\ LET s == Head(work[t])
     IN  /\ bConnect' = IF s = "clear" THEN FALSE
                        ELSE IF s = "connected" THEN TRUE
                        ELSE bConnect
         /\ msgcount' = IF s = "restart" THEN 0 ELSE msgcount
         /\ state' = IF s \in {"PASS", "IDLE", "LIST"} THEN s ELSE state
         /\ begun' = (begun \/ s = "LIST")
  /\ UNCHANGED <<buffer, ctrOrMsg, ftpRAWControl, ftpRAWDataMsg, conn,
                 mine>>

-----------------------------------------------------------------------------
(* What lwIP calls, and the client.                                         *)

\* A thread that is idle is given the callback code.
Calls(t, code) ==
  /\ work[t] = <<>>
  /\ work' = [work EXCEPT ![t] = code]

\* The client connects, and lwIP calls ftp_accept_fn.
Accept ==
  /\ mine = Listen
  /\ \E p \in Allocatable :
       /\ Aborts(p)
       /\ conn' = [conn EXCEPT ![p] =
                     [Free EXCEPT !.use = "control", !.open = TRUE]]
       /\ mine' = p
       /\ ftpRAWControl' = p
  /\ owed' = <<"220">>
  /\ window' = Window
  /\ Calls(InputThread, <<"callbacks">> \o SendMsg("220"))
  /\ UNCHANGED <<buffer, ctrOrMsg, ftpRAWDataMsg, state, bConnect, msgcount,
                 begun, recBuf>>

\* The client sends the command c, and lwIP calls ftp_recv_fn.  The window
\* shrinks, for ftp_recv_fn never calls tcp_recved; without ftp_recv_fn lwIP
\* does so itself and drops the command.
Send(c) ==
  /\ mine # Listen
  /\ owed = <<>>
  /\ window > 0
  /\ owed' = Replies(c)
  /\ IF conn[mine].recv
     THEN recBuf' = c /\ window' = window - 1 /\ Calls(InputThread, Command(c))
     ELSE UNCHANGED <<recBuf, window, work>>
  /\ UNCHANGED <<server, conn, mine, faults>>

\* The client reads a reply that it waits for.
Read ==
  /\ mine # Listen
  /\ owed # <<>>
  /\ conn[mine].got # <<>>
  /\ Head(conn[mine].got) = Head(owed)
  /\ owed' = Tail(owed)
  /\ conn' = [conn EXCEPT ![mine].got = Tail(@)]
  /\ UNCHANGED <<work, server, recBuf, mine, window, faults>>

\* tcp_slowtmr polls a control connection: ftp_poll_fn.  msgcount is compared
\* with Rounds and Rounds + 1 only, so the model stops it at Rounds + 2.
Poll(p) ==
  /\ conn[p].poll
  /\ IF bConnect /\ state = "LIST"
     THEN LET n == IF msgcount < Rounds + 2 THEN msgcount + 1 ELSE msgcount
          IN  /\ msgcount' = n
              /\ Calls(TimerThread, NextDirectory(n))
     ELSE Calls(TimerThread, <<>>) /\ UNCHANGED msgcount
  /\ UNCHANGED <<buffer, ctrOrMsg, ftpRAWControl, ftpRAWDataMsg, state, bConnect,
                 begun, recBuf, conn, client>>

\* The client accepts a data connection, and lwIP calls ftp_connected_fn.
DataOpen(p) ==
  /\ conn[p].use = "data"
  /\ ~conn[p].open
  /\ conn' = [conn EXCEPT ![p].open = TRUE]
  /\ Calls(InputThread, <<"connected">>)
  /\ UNCHANGED <<server, recBuf, client>>

\* The client refuses, resets or closes a data connection.  tcp_recv_null closes
\* it too, and lwIP frees the pcb; but a pcb that ftp_accept_fn has registered
\* ftp_recv_fn on by mistake calls that, with a NULL pbuf (see Fin).
DataClose(p) ==
  /\ faults < Faults
  /\ conn[p].use = "data"
  /\ \/ conn' = [conn EXCEPT ![p] = Free] /\ UNCHANGED work
     \/ /\ conn[p].open /\ conn[p].recv
        /\ conn' = [conn EXCEPT ![p].use = "closed", ![p].open = FALSE]
        /\ Calls(InputThread, Command(recBuf))
  /\ faults' = faults + 1
  /\ UNCHANGED <<server, recBuf, mine, owed, window>>

\* The client closes its control connection.  lwIP calls ftp_recv_fn with a
\* NULL pbuf, and it executes what recBuf holds.
Fin ==
  /\ faults < Faults
  /\ mine # Listen
  /\ IF conn[mine].recv
     THEN /\ conn' = [conn EXCEPT ![mine].open = FALSE]
          /\ Calls(InputThread, Command(recBuf))
     ELSE /\ conn' = [conn EXCEPT ![mine] = Free]
          /\ UNCHANGED work
  /\ mine' = Listen
  /\ owed' = <<>>
  /\ faults' = faults + 1
  /\ UNCHANGED <<server, recBuf, window>>

-----------------------------------------------------------------------------
\* After lwipServiceInit.
Init ==
  /\ work = [t \in Threads |-> <<>>]
  /\ buffer = ""
  /\ ctrOrMsg = "eCtr"
  /\ ftpRAWControl = Listen
  /\ ftpRAWDataMsg = Listen
  /\ state = "USER"
  /\ bConnect = FALSE
  /\ msgcount = 0
  /\ recBuf = ""
  /\ conn = [p \in Pcbs |-> Free]
  /\ mine = Listen
  /\ owed = <<>>
  /\ window = 0
  /\ faults = 0
  /\ begun = FALSE

Statement(t) ==
  Fill(t) \/ Select(t) \/ Write(t) \/ New(t) \/ Callbacks(t) \/ Assign(t)

Next ==
  \/ \E t \in Threads : Statement(t)
  \/ Accept
  \/ \E c \in Commands : Send(c)
  \/ Read
  \/ \E p \in Pcbs : Poll(p) \/ DataOpen(p) \/ DataClose(p)
  \/ Fin

Spec == Init /\ [][Next]_vars

\* The threads run, the slow timer polls and the client takes part in what it
\* has asked for; nothing makes it connect, send or close.
FairSpec ==
  /\ Spec
  /\ \A t \in Threads : SF_vars(Statement(t))
  /\ WF_vars(Read)
  /\ SF_vars(\E p \in Pcbs : Poll(p))
  /\ SF_vars(\E p \in Pcbs : DataOpen(p))

-----------------------------------------------------------------------------
(* Properties.                                                              *)

\* Until the first fault, a reply goes to a control connection
\* and a line of a listing to a data connection (send_msg, send_data and
\* ftp_writeData, by way of ctrOrMsg).
RepliesOnControl ==
  faults = 0 => \A p \in Pcbs : \A i \in DOMAIN conn[p].got :
    (conn[p].got[i] = "line") <=> (conn[p].use = "data")

\* Until the first fault, the client is sent the replies of its
\* commands, in their order, and no other.
RepliesInOrder == faults = 0 /\ mine # Listen => IsPrefix(conn[mine].got, owed)

\* "226 Closing data connection." comes after the whole listing, until the
\* first fault: the lines of Rounds - 1 polls are in the
\* data connection.
ListingComplete ==
  faults = 0 => \A t \in Threads :
    work[t] # <<>> /\ Head(work[t]) = "226"
      => Len(conn[ftpRAWDataMsg].got) = 2 * (Rounds - 1)

\* Each 226 completes a listing of its own: between it and the 226 before, a LIST
\* or NLST has been executed, whatever the client closes, lwIP aborts or a poll
\* finds in the state and msgcount that an earlier listing has left behind
\* (cmd_user, cmd_list_common, send_next_directory).
CompletionAnswersListing ==
  \A t \in Threads : work[t] # <<>> /\ Head(work[t]) = "226" => begun

\* A listing that is asked for after a USER is completed, unless
\* there is a fault.
FirstListCompletes ==
  (msgcount = 0 /\ owed # <<>>) ~> (owed = <<>> \/ faults > 0)

\* The reply 226 is (ftp.c:38) "the data connection is closed, the file action
\* requested was successful": every listing is completed.
EveryListCompletes == (owed # <<>>) ~> (owed = <<>>)

\* "226 Closing data connection.": when the client has read it and the server
\* has nothing left to do, the data connection is not open.
DataConnectionClosed ==
  msgcount > Rounds /\ (\A t \in Threads : work[t] = <<>>) /\ owed = <<>>
    => \A p \in Pcbs : conn[p].use = "data" => ~conn[p].open

\* tcp_recved "must be called when the application has received the data": the
\* client that has been answered can send again.
WindowReturned ==
  mine # Listen /\ conn[mine].recv /\ owed = <<>> /\ work[InputThread] = <<>>
    => window > 0

\* "The callback function will be passed a NULL pbuf to indicate that the
\* remote host has closed the connection": a close is not a command.
CloseIsNoCommand ==
  [][mine # Listen /\ mine' = Listen => \A t \in Threads : work'[t] = <<>>]_vars
=============================================================================
