# Verification of FlyMcu

FlyMcu is firmware for an LPC1768 (Cortex-M3) board: an FTP server on lwIP over
the on-chip Ethernet controller, scheduled by uC/OS-II. This directory holds
TLA+ specifications of its core, the TLC configurations that check them, and
proofs that TLAPS checks. Source paths below are relative to `src/`.

## 1. The system

The tasks and their priorities (`Common/Inc/UserType.h`; a smaller number is a
higher priority) are `tcpip_thread` 6, `FlyEthernetTask` 9, the system task 10,
the file task 11, the EEPROM task 12 (not started) and the demo task 13. The
tick is 1 ms. Two interrupt handlers matter: SysTick, which runs `OSTimeTick`,
and `ENET_IRQHandler`, which posts the semaphore `LwIPSem`.

| Component | State | Operations | What is hard about it | What makes it correct |
|---|---|---|---|---|
| uC/OS-II scheduling core (`OS_CORE.C`, `OS_TIME.C`, `OS_TASK.C`) and Cortex-M3 port (`os_cpu_a.asm`) | ready list, task control blocks, event wait lists, `OSPrioCur`/`OSPrioHighRdy`, PendSV | tick, `OS_Sched`, `OSIntExit`, delay, suspend and resume, scheduler lock, `PendSV_Handler` | the switch is deferred to an exception; interrupts come between any two critical sections | lists and control blocks agree; the running task is the one the kernel thinks, and the highest ready one |
| Semaphores (`OS_SEM.C`) | count and wait list per event | create, delete, accept, pend with timeout, post from tasks and interrupts | a pend is two critical sections with a switch between | no event lost or handed out twice; a timed pend ends |
| Message queues (`OS_Q.C`) | ring, and `OSTCBMsg` of the waiting tasks | create, delete, flush, accept, pend, three kinds of post | a message for a waiting task bypasses the ring | no message lost, duplicated or overtaken |
| Ethernet interface (`ethernetif.c`) and `FlyEthernetTask` | receive and transmit descriptor rings, `LwIPSem` | `ENET_IRQHandler`, `low_level_input`, `ethernetif_input`, `low_level_output` | the controller runs in parallel; posts and frames drift apart; two threads send | each ring is a bounded queue of frames; the receive ring drains |
| lwIP timers (`timers.c`) and `tcpip_thread` (`tcpip.c`, `sys_arch.c`) | a list of relative times, the pool of `sys_timeo`, `tcpip_tcp_timer_active` | `sys_timeout`, `sys_timeouts_mbox_fetch`, the handlers of IP, ARP and TCP | a second thread changes the list behind the back of the first | the list stays a list; no timer late, lost or doubled |
| lwIP TCP (`tcp.c`, `tcp_in.c`, `tcp_out.c`) | a pcb per connection: sequence numbers, windows, the queues `unsent`, `unacked`, `ooseq`, timers | connect, write, close, shutdown, `tcp_input`, `tcp_recved`, slow and fast timer | segments are lost, repeated and reordered; each of three queues may hold what another one has | a stream in both directions; all of it arrives; both pcbs are freed |
| lwIP heap (`mem.c`) | a list of structs in an array, `lfree` | `mem_malloc`, `mem_free`, `mem_trim` | the structs lie between the areas; `mem_trim` reads before it locks | no byte has two owners; no memory is lost |
| lwIP ARP (`etharp.c`) | a table of hosts, ages and waiting packets, the entry used last | output, query, input, timer, static entries | entries expire and are used for other hosts while an index to them is kept | every packet goes to its next hop; an entry in use is renewed in time |
| FTP server (`ftp.c`, callbacks in `flyEthernetTask.c`) | one state machine, two connections, global buffer and selector | 15 commands, replies, listing by polls, data connections | callbacks in two threads share globals; the peer may close at any time | replies on their connection, in order; `226` after the whole listing |
| Wrappers of lwIP over uC/OS-II (`sys_arch.c`) | counters of mailboxes and threads | `sys_sem_*`, `sys_mbox_*`, `sys_thread_new` | full mailboxes, exhausted arrays | a post blocks until the message is queued |
| EEPROM task (`flyeepromTask.c`) | a ring of messages of different lengths | `messageToFifo`, `getMessage`, `messageDropMessage`, I2C frames | the ring rolls back before its end | a message read is one that was written; the oldest is dropped first |
| Event exchange and start-up (`ipcExchange.c`, `main.c`) | a bit per event | `ipcStartEvent`, one procedure per task | each receiver clears the same bit | every component is initialised before `OSStart` |
| uC/FS locking layer (`fs_x_ucos_ii.c`) | a semaphore per kind of resource | lock, unlock | lock order | no deadlock |

How they interact. The controller fills the receive ring and raises the
Ethernet interrupt; `ENET_IRQHandler` posts `LwIPSem`; `FlyEthernetTask` takes a
frame and calls `netif->input`, which is `ethernet_input` and not `tcpip_input`
(`flyEthernetTask.c:191`). So the lwIP core, the callbacks of the FTP server and
`low_level_output` run in `FlyEthernetTask`, and also, from the TCP timer, in
`tcpip_thread`, which has the higher priority and preempts it anywhere. lwIP
means its core for one thread (`api/tcpip.c:71`). Most of the hard behaviour of
the firmware comes from there, and from the deferred switch of the port.

TCP, ARP and the heap are code of lwIP and not of the firmware; they are modelled
because the firmware's own behaviour rests on them: every reply and listing goes
through TCP, every frame that `low_level_output` sends has its address from ARP,
and every segment and pbuf comes from the heap.

`PROJECT.json` lists every component, also those that are not modelled, and the
hazards of the code with the properties that cover them.

## 2. The modules

    UcosCore <- UcosSem   -- refines --> SemService
             <- UcosQueue -- refines --> QueueService
    EthReceive  -- refines --> FrameQueue
    EthTransmit -- refines --> FrameQueue
    SysTimeouts
    LwipTcp <- TcpHosts -- refines --> StreamService
    MemHeap -- refines --> Allocator
    EthArp
    FtpServer
    UcosSem_proof, UcosQueue_proof, EthReceive_proof, EthTransmit_proof,
    SysTimeouts_proof, EthArp_proof, MemHeap_proof, FtpServer_proof

Each `MC<module>` gives values to the constants; each `MC<module>_<name>.cfg` is
one instance. Definitions have the names of the functions and variables they
model. A definition whose comment begins with "Mutant" or says "faulty" is not
part of any specification: it is a plausible mistake in the definition below it,
with which a property of the run must fail.

**UcosCore.** A step is one critical section of the running task, one interrupt
handler, or `PendSV_Handler`. The bit tables of the ready list and of the events
are sets of priorities. `OS_Sched` does what it does in the port: it chooses
`OSPrioHighRdy` and sets PendSV pending, and the switch is a step of its own.
`Preempts` says which interrupts outrank PendSV and so may come between.
Initialisation, statistics and the idle counter are left out.

**UcosSem, UcosQueue.** Every service of `OS_SEM.C` and `OS_Q.C`. A pend is its
first critical section (`...Take` or `...Wait`), `TaskSched` of the core, and
`...PendWake`, the second critical section, which runs when the task does. Posts
from an interrupt handler include their `OS_Sched`, since `OSIntEnter` and
`OSIntExit` are commented out in `ENET_IRQHandler`. Arguments that the functions
reject change nothing and are no step.

**SemService, QueueService, FrameQueue, StreamService, Allocator.** What the users
of these parts rely on: sets of waiting callers with tokens or a sequence of
messages, a bounded sequence of frames, what each of two hosts has written and
read, the areas that are given out. They know nothing of ready lists, status bits,
ring positions, sequence numbers, segments or structs.

**EthReceive.** The controller, the three steps of `ENET_IRQHandler` (reading and
clearing the status, the post, the second clearing) and the steps of
`FlyEthernetTask` from its pend to `netif->input`. A frame is a model value.

**EthTransmit.** `low_level_output` in the five steps at which another thread or
the controller can come in between, and the controller.

**SysTimeouts.** `sys_timeout` statement by statement for both threads,
`sys_timeouts_mbox_fetch` with what `sys_arch_mbox_fetch` says it has slept, and
the tick. `due` is an auxiliary variable: how long the caller of `sys_timeout` has
asked for. Message contents are left out. The variable `setting` says which use is
examined: whether `FlyEthernetTask` registers connections, and the intervals.

**LwipTcp, TcpHosts.** `LwipTcp` has the functions of TCP as operators on a record
of a call: the pcb, what the application is told, the segments that leave. It
follows the C functions and their order: `tcp_receive` with the acknowledgement,
the trimming and the queue of what is out of order, `tcp_process` by states,
`tcp_output`, the two timers. `TcpHosts` makes actions of them for a client and a
server that both run this code: an application that connects, writes, reads, reads
later or refuses, and ends with `tcp_close` or `tcp_shutdown`; a network that is a
set of segments; the timers. A byte is its number in the stream, so that a lost,
repeated or misplaced one is seen. Time is not counted: a timeout comes due when
nothing is in flight, and a bounded number of times before that. The round-trip
time, the options, checksums, urgent data, keepalive and shortage of memory are left
out; the segments of the model need no IP.

**MemHeap.** `ram[]` is a set of positions, and `next` and `prev` are functions on the
positions that have a struct, so that a struct that is read after it was joined with
another one is an error of evaluation. `mem_malloc` and `mem_free` hold the mutex and
are one step; `mem_trim` reads before it locks and is two. `asked` is auxiliary: what
the owner asked for.

**EthArp.** The table, its search and its timer as in the code; a host stands for its
IP and its Ethernet address. An operation of `FlyEthernetTask` is a search and the use
of what was found; `Preempts` lets `tcpip_thread` run between the two.

**FtpServer.** A callback is the sequence of statements that it still has to
execute (`work`), so that the other thread can run between two of them; texts are
their reply codes. The client waits for the replies it is owed before it sends
the next command; it may close, abort, refuse and reconnect, and `tcp_write` may fail,
`Faults` times in all. Of lwIP the model has the pcbs, with `tcp_alloc` aborting a
connection when there is none, their callbacks and the receive window; the network loses
nothing, for TCP hides it. A data connection on which `ftp_accept_fn` has registered
`ftp_recv_fn` (`ctrOrMsg` was left there) runs the last command when it is closed. `begun`
is auxiliary: whether a list command has been executed since the last 226. `Replies` is the table of what the client is owed for each
command, against which the replies are compared. The arguments of PORT are left out, and the listing is
the fixed one of the source.

## 3. The runs

| Run | What it shows | Bounds | States |
|---|---|---|---|
| `sem` | lists, control blocks and counts agree; the kernel implements `SemService`; the running task is the one the kernel thinks and the highest ready one; timed pends end; the first task returns | 2 tasks and idle, 1 semaphore, timeout 2, count 2, lock depth 1, the second task may be suspended, no interrupt above PendSV | 16,397 |
| `sem_window` (violation) | a tick between `OS_Sched` and PendSV makes `OSPrioCur` wrong | 2 tasks, tick above PendSV | 65 |
| `queue` | ring and hand-over implement `QueueService` | 2 tasks, 1 queue of 2 entries, 2 messages, timeout 1, both interrupts above PendSV | 425,489 |
| `eth_receive` | receive ring is a queue and drains; the count of `LwIPSem` stays bounded | the 4 fragments of the code, 2 frames, count 8 | 57,751 |
| `eth_transmit` | transmit ring is a queue with one sender | the 3 fragments of the code, 3 frames, one of them too long | 2,498 |
| `eth_threads` (violation) | with two senders a packet is overwritten | as above, two threads | 615 |
| `timers` | list whole, no timer late or lost, each connection timed | two settings: the firmware's (interval 3 for the 3 timers and 3 structures, a second thread registers), and lwIP's (intervals 2, 3, 5, one thread, one message) | 105,700 |
| `ftp` | replies in order and on their connection; the first listing completes; each `226` is for a listing of its own | 2 pcbs, 2 polls of a listing, 2 commands outstanding, 8 commands (`CWD`, `SYST`, `TYPE` are handled like `PWD`), 4 faults (an abort by the peer, a `tcp_write` that fails, ...), one thread | 1,583,149 |
| `ftp_lists` (violation) | the second listing of a login never completes | 3 pcbs, 2 polls | 2,707 |
| `tcp` | TCP is a stream in both directions; all data arrive, both pcbs are freed, or the application is told | nine settings, see below | 129,332 |
| `heap` | the list of structs, no memory lost, the areas are those of `Allocator` | 13 bytes with structs of 1 and areas from 2, sizes 1, 2, 3, 6, two threads | 18,518 |
| `arp` | every packet goes to its next hop; a waiting packet is given up only when every entry has one; an entry in use is renewed; a silent host is given up | a gateway, a host that answers, one that is switched off, a destination outside; table of 2, maximal age 3, re-request at 1, 2 tries, one loss or failed allocation | 74,512 |

Why the bounds are enough. Two application tasks are a waiter and a poster, or two
waiters of different priority, with the idle task below; kernel code compares
only the highest ready task with the current one. Timeouts of one or two ticks have
the cases that the code tells apart: none, expires now, expires later. A queue of two
entries is empty, part full and full, and wraps at every position from both ends. The
rings have their real sizes. The count of `LwIPSem` never comes near 8, which
`SignalsBounded` shows. Three timers with three structures are what the code has;
an interval of 3 leaves room for a registration at its beginning, in its middle
and at its end. `Word` is the modulus of `u32_t` scaled to 16, more than twice the
longest interval, so that a wrapped difference is seen as one. The ten polls of a
listing are two: the code compares `msgcount` with the last one only.

TCP: `TCP_MSS` is 2 bytes, the window 4, the send buffer 6, `TCP_MAXRTX` 2, so a
segment may be whole, part or trimmed, the window closes after two, and a connection
can be given up. The sequence space has 32 numbers, more than four windows; the
server's begin at 30 and wrap at once. The nine settings (`MCTcpHosts`) each give a
part of the code its case: one loss with data in both directions, a loss and a
repeat, three segments in any order, a timeout that comes early, states that time
out, two losses and giving up, refused data, data read late with a closed window,
three repeated acknowledgements. A congestion window larger than `TCP_WND` has no
effect and is kept at that. `tcp_close` fails, with TF_RXCLOSED set already, when the send
buffer is full and no unsent segment can take the FIN (`tcp_out.c:779`). Between two hosts
of this firmware that cannot happen, in the model as in the code: the send buffer
(12 segments) is larger than the window (4), so a full one has unsent data. `Close` has the
case; with `TcpSndBuf = 4` and `Settings <- MCFull` in `MCTcpHosts_tcp.cfg` it is reached,
and all properties of the run hold there too.

Heap: the smallest struct and area keep every boundary of the code (room for a split
or one byte less, a struct moved by one byte, four neighbours to join) in 13 bytes;
the proofs (section 4) are for any sizes. ARP: with two entries for
three hosts and one of them static, every search meets a full table. Ages are
compared as bytes, `Byte` 2, smaller than `ARP_MAXAGE` as in the code. With two
losses `KeptWhileUsed` fails: an entry is asked for again often enough to survive
one lost request here, and 59 with the ages of the code (1200 and 1140): the theorem
of section 4 has the inequality.

The FTP and the TCP runs may stop (`CHECK_DEADLOCK FALSE`): when the client of FTP
has used its window, which the server never gives back, or both hosts have freed
their pcbs, nothing is left to happen.

Fairness. `UcosSem!FairSpec`: the tick is latched by hardware and taken as soon as
it can be (strong fairness), a pending PendSV is taken, and the processor does not
stop inside a service. Tasks need not call anything. `EthReceive!FairSpec`: the
handler goes on, and so does the task whenever the handler lets it; frames need
not come. `SysTimeouts!FairSpec`: the tick goes on, neither thread stops in the middle
of its work, and `FlyEthernetTask`, below `tcpip_thread`, gets the CPU again and again;
connections and messages need not come. `FtpServer!FairSpec`: lwIP keeps polling and
runs the callbacks that have begun, and the client reads what arrives; it need not
send. `TcpHosts!FairSpec`: the applications do what they have in their script, a segment
in flight is delivered (those that the bound lets be lost are not), and a timer that is
due comes; each is written as weak fairness with its enabling condition spelled out.
`EthArp!FairSpec`: an operation ends, and `etharp_tmr` is called again and again, which
is `CyclicTimersGoOn` of `SysTimeouts`; nobody has to send.

### Instances that are run by hand

These show where the code falls short of one of its documents, or of what the
firmware would need under other settings. Each is run with
`tlc -config <cfg> <module>` and ends with a counterexample; those named `_promises`
have several properties and are run with `-continue`.

| cfg | Violated | What the document says, what the code does |
|---|---|---|
| `MCUcosSem_promises` | `TimedPendEnds` | a pend waits "up to the amount of time specified" (`OS_SEM.C:223`); a task suspended when its ticks have run out is not readied by `OSTaskResume` (`OS_TASK.C:566`) |
| | `DeletionNoticed` | callers "MUST check the return code" for a deletion (`OS_SEM.C:135`); the deleted wait returns `OS_NO_ERR` |
| `MCEthReceive_signal` | `ReadyFrameSignalled` | the function is to be called when a packet is ready; the second clearing at `flyEthernetTask.c:112` loses the signal of a frame that has just arrived, and it waits for the timeout |
| `MCEthTransmit_full` | `OkMeansQueued` | `ethernetif.c:121` "ERR_OK if the packet could be sent"; a full ring returns FALSE, which is `ERR_OK` |
| `MCFtpServer_promises` | `ListingComplete` | "226 Closing data connection." (`ftp.c:90`) before the listing is whole: with the two threads of the firmware, which this instance has, a poll preempts `cmd_user` (`ftp.c:380`) |
| | `DataConnectionClosed` | "226 Closing data connection." (`ftp.c:90`); it is not closed |
| | `WindowReturned` | `rawapi.txt:245`: `tcp_recved` must be called; it is not |
| | `CloseIsNoCommand` | `rawapi.txt:237`: a NULL pbuf means closed; the last command is run again |
| `MCSysTimeouts_race` | `ListIntact` | "exclusive access to lwIP core functions" (`tcpip.c:71`); with different intervals the second thread makes the list cyclic |
| `MCSysTimeouts_early` | `NoTimerEarly` | "time in milliseconds after that the timer should expire" (`timers.c:316`); `FlyEthernetTask` reckons from a head that has not been brought forward |
| `MCTcpHosts_close` | `UnsentIsSent` | "unsent data is sent from tcp timer functions, also" (`tcp.c:264`); data that the window holds back stay on `unsent` when `tcp_in.c:803` takes the acknowledgement of what was sent for that of the FIN |
| `MCTcpHosts_refused` | `DataArrives` | data that the application has refused are offered again by `tcp_fasttmr`, which walks `tcp_active_pcbs` only; those of a pcb that has gone to TIME_WAIT are lost |
| `MCTcpHosts_window` | `DataArrives` | the persist timer is "to keep a connection active when a window update is lost" (`tcp_out.c:1479`); it starts for a window of 0 only (`tcp_in.c:942`), but `tcp_output` stops for any window smaller than the segment |
| `MCTcpHosts_retries` | `RetransmissionsBounded` | `TCP_MAXRTX` is the "Maximum number of retransmissions" (`opt.h:974`); it is compared by `==` (`tcp.c:873`) and `tcp_rexmit` counts as well, so it can be stepped over, and `tcp_backoff[]` is read past its end |
| `MCTcpHosts_wrap` | `DataArrives` | `tcp_in.c:1548` compares plain sums, everything else uses `TCP_SEQ_LT`, and `test_tcp.c:311` is about numbers that wrap; with the edge of the window past the wrap, segments that fit are cut |
| `MCEthArp_promises` | `StaticStays` | "static entries don't time out" (`test_etharp.c:233`); `etharp.c:495` makes a stable one of it when the host answers |
| | `OldestRecycled` | the oldest stable entry is recycled (`etharp.c:285`); ages are cut to 8 bits in the search. With `Byte = 10` it holds |
| `MCEthArp_threads` | `RightHost` | "exclusive access to lwIP core functions"; when `tcpip_thread` runs between the search and its use, a packet goes to another host |

Those that list `TypeOK` as well do not violate it. With `-continue` TLC prints a
counterexample for every step that violates a property, and may be stopped when each of
the properties has been seen.

## 4. The proofs

| Theorem | For every value of the constants |
|---|---|
| `UcosSem_proof!TypeCorrect` | types, and the idle task is always ready |
| `UcosSem_proof!WaitListsCorrect` | wait lists and control blocks agree |
| `UcosSem_proof!CountsCorrect` | no semaphore has a count while a task waits for it |
| `UcosSem_proof!SuspensionCorrect` | a suspended task is not ready |
| `UcosSem_proof!SwitchCorrect` | if no interrupt outranks PendSV, the running task is the one the kernel thinks and the highest ready one |
| `UcosSem_proof!HighestRuns` | if no interrupt outranks PendSV, the running task is the highest ready one or the switch to it is pending |
| `UcosSem_proof!ServiceImplemented` | the semaphores implement `SemService` |
| `UcosQueue_proof!TypeCorrect`, `WaitListsCorrect` | types, with the positions of the rings; wait lists and control blocks agree |
| `UcosQueue_proof!NoMessageKept` | no queue has a message in its ring while a task waits for it |
| `UcosQueue_proof!LeftMessagesReachTasks` | a message left in the control block of a task reaches it |
| `UcosQueue_proof!ServiceImplemented` | ring and hand-over implement `QueueService`, for any sizes, queues and tasks |
| `EthReceive_proof!TypeCorrect`, `SignalsStayBounded`, `CopySafe` | types, the bound of the semaphore, the copied frame is not overwritten |
| `EthReceive_proof!RingImplementsQueue` | the receive ring implements `FrameQueue`, for any number of fragments |
| `EthTransmit_proof!TypeCorrect` | types and indices, also with several threads |
| `EthTransmit_proof!FragmentsWhole`, `RingImplementsQueue`, `PacketsQueued` | while the threads send one after the other: what the controller may read is whole, the transmit ring implements `FrameQueue`, a call queues its own packet |
| `SysTimeouts_proof!TypeCorrect` | types, and the bounds of all times |
| `SysTimeouts_proof!ListStaysIntact` | the list of timers is acyclic and shares no struct with the pool |
| `SysTimeouts_proof!TimersRunOnce` | each timer that goes on is in the list once, or being put there |
| `SysTimeouts_proof!TimersNotLate` | no timer expires late |
| `EthArp_proof!TypeCorrect`, `TableIsSound` | types; no host has two entries |
| `EthArp_proof!PacketsReachTheirHop` | every packet goes to the address of its next hop |
| `EthArp_proof!WaitingPacketsKept` | a waiting packet is given up only when every entry has one or is static |
| `EthArp_proof!EntriesInUseKept` | an entry in use does not expire, if few enough requests are lost |
| `FtpServer_proof!TypeCorrect` | types, with two threads of any priorities |
| `FtpServer_proof!CompletionsAnswerListings` | with one thread, whatever is closed, aborted or lost: each `226` is for a listing that has been asked for since the one before |
| `FtpServer_proof!RepliesGoToControl`, `RepliesComeInOrder`, `ListingsComplete` | with one thread, until the first fault: each reply on its connection, in order, and `226` after the whole listing |
| `MemHeap_proof!HeapStaysIntact` | the structs are one list in both directions, in order; `lfree` is the lowest free one |
| `MemHeap_proof!NoRoomEverLost` | `mem_malloc` finds room whenever enough free bytes are in a row |
| `MemHeap_proof!StructsStaySafe` | no struct lies in an area that is given out |
| `MemHeap_proof!AreasAllocated` | the heap implements `Allocator`, for a heap of any size, any sizes and any number of threads |

The assumptions are the named ones on the constants: tasks are natural numbers
with the idle task the largest, the null pointer is no event, bounds are natural
numbers, the heap has room for one area and sizes are positive. TLC evaluates them in
every run. Some theorems state a further condition, where the code needs one:

- `Preempts = {}` (`SwitchCorrect`, `HighestRuns`): no interrupt outranks PendSV, which
  is what `os_cpu_a.asm:70` asks for.
- `[]Serial` (transmit ring): one thread at a time is in `low_level_output`. The
  firmware does not see to it, and the run `eth_threads` shows what happens without.
- `tcpip_thread` alone registers timers (`registrars \subseteq {"tcpip"}`), or the
  intervals are equal and no messages come (the four theorems of the timers). The first
  is what lwIP means, with any intervals and messages; the second is this firmware, where
  `FlyEthernetTask` registers connections too and `ethernet_input` posts no messages. With
  different intervals and two threads `ListIntact` is violated (`MCSysTimeouts_race`).
- `~Preempts` (ARP) and `InputThread = TimerThread` (four theorems of FTP): one thread
  in the lwIP core, as `tcpip.c:71` asks. Without it `RightHost` and `ListingComplete`
  are violated (`MCEthArp_threads`, `MCFtpServer_promises`). So is
  `CompletionAnswersListing` (put it in the place of the others of
  `MCFtpServer_promises`), though only if all polls of a listing come between two
  statements of `cmd_user`: `Rounds` is 2 there, 10 in the code.
- `MaxLost + ARP_AGE_REREQUEST_USED < ARP_MAXAGE` (`EntriesInUseKept`): as many requests
  or answers may be lost as there are ticks of the timer left after the first request.

*The kernel.* Types alone are not inductive: that `HighestOf(OSRdyTbl)` is a task
needs the idle task to be ready, and that it stays ready needs it never to pend or
delay or be suspended. `TypeInv` adds that (`IdleAwake`). The
wait lists, the counts and the suspension are inductive only together, with
`TypeInv`: a post may be counted only if nobody waits, and that nobody waits for a
semaphore that has just been created, on a control block used before, follows from
the agreement of the lists with the control blocks and the positions of the tasks
in their pends. `SafeInv` is that conjunction.
Each action of the core, of a task and of the interrupt handler has a step.
`SwitchInv` relates `OSTCBHighRdy`, `OSPrioHighRdy` and PendSV; it holds because
nothing readies or blocks a task between the decision and the switch, which is
exactly what `Preempts = {}` says and what the run `sem_window` refutes without it.

*The refinement.* A step of the core is a stutter of `SemService`, a critical
section of a service is the operation of the same name, and `OSSemPendWake` is the
return. It needs one more invariant, `StatusListed`: a task whose status bit
OS_STAT_SEM is set is on a list, so that the second critical section, which goes
by that bit, never takes for a timeout what was a post.

*The queues.* `NoMessageWhileWaiting` is inductive only with the agreement of the lists
and with `LeftMessageWakes`: a post hands its message to the first task of the list,
and that this task is not one that has been handed a message before, and whose message
would be overwritten, is that such a task is on no list. A full ring and an empty one have
the same positions, so the refinement needs `RingInv`, which ties `OSQIn` to `OSQOut`
and `OSQEntries` across the wrap. `QueueService` has a sequence for the ring: the lemmas
`RingAppend`, `RingFront` and `RingTail` say what a post, a post to the front and a pend
do to the sequence of what lies between the two positions, at any of them.

*The receive ring.* `SignalsBounded` is not inductive: the posts that the handler
has still to make count too. `SignalsInv` bounds the count of `LwIPSem`, the post
under way and the interrupt that is set, together, by two more than the frames in
the ring, and by only one while the task, having used a signal, looks at the ring.
`CopyInv` says which fragment was copied, `RingInv` that the fragments between the
two indices hold frames. The refinement mapping turns
the two positions into a sequence; its lemmas say that a reception appends to it
and a release takes its head.

*The transmit ring.* `SenderInv` is what the thread in `low_level_output` knows at each of
its steps: `TxProduceIndex` is what it was when it began, the fragment there holds what it
has written, and after the test there is room. That is what a second thread destroys.
The controller only takes from the other end, and a test that finds room stays right.

*The heap.* `HeapIntact` does not say enough of `prev`: `plug_holes` must find in it
the struct whose `next` it has to change. `ChainOK`, on any two functions, says that
each is where the other comes from; `InsertChain` and `RemoveChain` show that a struct
put into a chain or joined with the one before leaves a chain, and the three changes
of the code (a split, a struct moved down by `mem_trim`, the up to two joins of
`plug_holes`) are made of these. `NoHoles` is the comment of `mem.c:226`, that no two
free structs lie side by side. `TrimOK` says that what `mem_trim` has read of its own
struct before it locks is still so when it has the mutex, whatever others have
allocated and freed beside it. `NoRoomLost` follows from the last struct at or
below a position, which exists because a bounded set of numbers has a largest one
(`LowestExists`, by the well-foundedness of `<` on the natural numbers). In
`Allocator`, `mem_malloc` is `Give`, `mem_free` `TakeBack`, the first half of `mem_trim`
`Shorten` and the second a stutter.

*The timers.* `sys_timeout` is seven steps, between any two of which the other thread may
run, so the invariant has to say what the list will be when both have finished. There
are at most three structs in it: `Ends(n)` is the time from the head to n, and `TimesOK`
that this, less what `tcpip_thread` has `Slept`, is no more than what is left until n is
`due`. `InsertOK` says where a struct in the hand of a thread will go: the struct its walk
stands on is still listed, and the time it has still to subtract is what is left of the
walk. For two threads, which only the equal intervals allow, `UseOK` and `InStepOK` add that
the order of the structs is that of the times they were started, so that a new one goes
to the end and never becomes the head, which the other thread may have read already.
`PoolOK` counts: a struct is listed, in the pool or in one hand, and each of the three
timers has at most one of them, so `sys_timeout` never finds the pool empty
(`PoolNotEmpty`). `Nodes`, the recursive function by which `ListIntact` walks the list, is
unfolded by a solution of its equation that is written down for three structs (`NodesListed`).

*ARP.* The state of the table, `use` and the operation between its two steps are one
invariant, `StateOK`, on variables given as parameters, so that each half of an operation
has a lemma on any table: a search leaves an entry as it is or makes it ready for the
host, and what is done with the entry found keeps `TableOK`. An index that was found is the
host's until its use, for nothing runs in between. `EntriesInUseKept` is a count: an
entry that is in use and not answered for was asked for at each tick after the
re-request age, so its age exceeds that by no more than the losses (`Renewed`). That
the search returns a candidate is an induction over the table: the library's theorem of
induction cannot be used here, so `LeastNatural` gets it from the well-foundedness of
strict inclusion on the finite sets.

*The FTP server.* What a callback still has to execute is a sequence of statements, and
the invariant says what such a sequence can look like (`ShapeOK`): a text is filled in,
then the connection is selected, then it is written; the state is set before the answer.
`Filled` says that what is to be written next is in `buffer`. For one thread, `SessionOK` says that
what the client is owed is, in this order, what is at its connection, the text in `buffer`,
the texts of the callback, and, while a listing is under way, its completion
(`InOrder`); and that the lines at the data connection, in `buffer` and in the
callback are those of the polls so far (`ListingOK`). `Counts` ties `msgcount` to the
state, which a new USER, a list command and the completion change at different statements.
All this ends with the first fault (`faults`), after which the globals may point to any
pcb. What a fault does not touch are `state` and `msgcount`. `Completes` says that, when no
list command has been executed since the last 226, a state LIST is one whose polls are
over, but in `cmd_user` between the assignments to `msgcount` and to `state`, where no poll
comes: so a poll that announces a completion has a listing to complete.

Only model-checked: all liveness, which needs fairness and ENABLED and is out of the
reach of the provers; TCP, with its refinement of `StreamService`; and of
the other components the properties of the runs that no theorem of the table names.

Why TCP is not proved. None of its invariants is about one host. That a window is not
shrunk, the most local of them, needs the right edge of a host to stay within half the
sequence space of the edge it has announced; but `tcp_output` may hold an announcement back
(Nagle) while data go on arriving, so what bounds the distance is that the other host has
not sent more, which is a statement about every segment of `unsent`, `unacked`, `ooseq` and
the network, for every pcb either host has had. It holds for a connection that transfers less
than half the sequence space, and with first sequence numbers far enough apart. And the
check of `tcp_in.c:1548`, on plain sums, is right only away from the wrap, so the
statement has to keep away from there too. `LwipTcp` is free of `RECURSIVE`
operators and takes a prefix of a queue by `Max` of a finite set, so that this can be
proved; `FoldLeft` and `FlattenSeq`, by which it joins queues, are recursions over data
and will need a lemma by minimal counterexample each.

The lemmas about the scheduling core (`HighestExists` to `CoreKeepsWaits`) open
both `UcosSem_proof` and `UcosQueue_proof`, so that each can be read by itself.

## 5. Findings

Listed in `PROJECT.json` with their runs: the PendSV priority of
`os_cpu_a.asm:169-172` against the comment at lines 70-71; `ethernet_input` in
place of `tcpip_input`, which puts two threads into `low_level_output`; `msgcount`,
which survives its listing. The table above has further ones. The timers show a
near miss: the list that two threads change stays whole only because
`TCP_TMR_INTERVAL`, `IP_TMR_INTERVAL` and `ARP_TMR_INTERVAL` are equal, for then a
new timer always goes to the end and the head is never rewritten.

TCP: the five instances above that violate a property are the places where a
connection stalls, loses its last data or retries for ever. Some more were
met and are stated by no document, so that no property is: the byte of a zero-window
probe, when it is accepted, is not counted in `snd_nxt`, and its acknowledgement is
answered as one out of sequence; `tcp_fasttmr` clears the flags of a delayed
acknowledgement though `tcp_output` may have sent nothing but what it held back; data
that come for a pcb in TIME_WAIT get no RST although they are not read; `tcp_write`
before the handshake is over fails, for `snd_wnd_max` is 0; an acknowledgement that is
older but rides on a newer sequence number may shrink the sender's idea of the
window, as RFC 793 has it.

ARP: right as lwIP means it to be used, and `RightHost` needs exactly that: with the
two threads of this firmware, the index that a search has found may be that of another
host when it is used.

## 6. Plan

Done of the first plan: the kernel, both rings, the timers, the FTP server, TCP, the
heap and ARP are modelled, and proved but for TCP. Next, in this order:

1. `WindowNotShrunk` and `WindowGranted` of `TcpHosts`, from what `LwipTcp` does to
   `rcv_ann_right_edge`, for connections shorter than half the sequence space.
2. The reference counts of `pbuf.c` over `MemHeap`; the reassembly of `ip_frag.c`;
   `tcp_alloc` when the pool of pcbs is used up.
3. `SysArch` over `UcosQueue`: a full mailbox drops the message (`sys_arch.c:162`) that
   `sys_arch.txt:115` wants to wait, and `sys_mbox_new` looks at its count late (`:118`).
4. `MessageRing`: the ring of the EEPROM task, whose write position goes back to 0
   behind the read position (`flyeepromTask.c:143`).
5. Start-up and event exchange; the locking layer of uC/FS; the arguments of PORT,
   with the doubled length of `flyEthernetTask.c:284`.

## 7. Not modelled

Of TCP: bind and the choice of ports, the backlog, keepalive, urgent data, options,
the estimation of the round-trip time, shortage of memory, `tcp_abort` by the
application. Of ARP: `etharp_cleanup_netif`, broadcasts and multicasts, VLAN. Of lwIP
altogether: IP, UDP, pbufs and pools, which the models take for a network that
delivers segments and for frames that have an owner; the sequential API, PPP, SNMP,
IPv6 and SLIP, which this firmware does not use and which are the largest part of the
repository. Of uC/FS, which is vendored, `main.c` calls only `FS_Init`. The chip
drivers are register access; the controller's behaviour that the rings depend on
is in `EthReceive` and `EthTransmit`. Mailboxes, event flags, mutexes and memory
partitions of uC/OS-II are not used or not configured. The console FIFO is
compiled out of use (`TASK_DEBUG` 0). Registers, stacks and memory layout are not
modelled.
