# uTasker in TLA+

A verification development for the uTasker operating system core and the parts
of it that depend most on timing and order: TLA+ modules translated from the C
source, TLC configurations that check them on small
instances, and TLAPS proofs of the properties that matter most for every value
of the constants. `PROJECT.json` ties every definition to the lines it models
and lists the hazards, the runs and the theorems.

## 1. Inventory

uTasker is a cooperative kernel for small controllers. One main context walks a
task table for ever and calls the tasks that are to run; interrupts strike
between any two instructions outside sections protected by
`uDisable_Interrupt()`, which nests. Everything else (drivers, TCP/IP, file
systems) is written as tasks and interrupt handlers on top of it.

| Component | State | Operations | Interaction | What is hard | What makes it correct |
|---|---|---|---|---|---|
| Kernel, `uTasker/uTasker.c` | tick, task table (state flags, repetition, event), timer list | `uTaskerStart`, `uTaskerSchedule`, `uNoSchedule`, `uTaskerStateChange`, `uTaskerMonoTimer`, `uTaskerRemainingTime`, `uTaskerStopTimer`, `fnRtmkSystemTick` | calls tasks; called by tasks, drivers, the tick interrupt | unprotected reads and writes of the state flags, timers matched for equality on a wrapping tick, one event slot per task | no lost wake-up, no lost timeout, sleep only when idle, every ready task is called |
| Message queues, `uTasker/Driver.c` | handle table, one input queue per task | `fnOpen`, `fnWrite`, `fnRead`, `fnInterruptMessage`, `fnEventMessage`, `CHECK_QUEUE` | a write wakes the destination | a full queue cuts the message | messages arrive in order, whole |
| Byte queues, `uTasker/Driver.c` | buffer, pointers, `chars`, `reserved_chars`, `new_chars` | `fnFillBuf`, `fnGetBuf`, `CALL_FLUSH`, `CALL_WRITE`, peek | shared by main context and interrupts of all levels | copies run with interrupts enabled, so writes nest | a FIFO of bytes; nothing is read before it is written |
| Low power, `uTasker/low_power.c` | none | `fnLowPower` | a task that runs last in the pass | test and sleep must be one section | no work waits while the processor sleeps |
| Heap, `uTasker/uMalloc.c` | top of the heap, table of blocks and holes, statistics | `uMalloc`, `uCalloc`, `uCFree`, `uFree` | used by everything at start; by TLS at run time | splitting and merging holes | blocks are disjoint and zeroed, holes merge, statistics are exact |
| Global timers, `uTasker/GlobalTimer.c` | list of software timers | `uTaskerGlobalMonoTimer`, `uTaskerGlobalStopTimer`, `fnTimer` | a task over one kernel timer | elapsed time shared by all, restart of an expired timer | each timer fires once, on time |
| Serial driver, `uTasker/Tty_drv.c` | two byte queues, transmit and flow control state | `fnDriver`, `fnSciTxByte`, `fnSciRxByte` | transmit interrupt against writers | restart of an idle transmitter, XON/XOFF | no byte stays in the queue, a blocked writer is woken |
| ARP, `stack/arp.c` | cache with state, age and retry count | `fnProcessARP`, `fnGetIP_ARP`, `fnTaskArp`, `fnRefreshARP` | its task's timer, the Ethernet task, waiting tasks | resolution retries, refresh, replacement | a waiting task always hears of success or failure |
| TCP, `stack/tcp.c` | socket table, timers | sockets, listeners, `fnPollTCP` | IP, ARP, the applications' listeners | retransmission, reordering, simultaneous close | the stream keeps its order, connections end |
| DHCP, `stack/dhcp.c` | client state, times of the lease, last XID | `fnStartDHCP`, `fnStopDHCP`, `fnDHCP`, the listener | UDP, its task's timer, ARP for probe and server | lost, late and refused answers, stale timers, odd times | an address is probed, kept as long as granted, its loss told |
| DNS and the other protocols, `stack/` | client states | sockets, listeners, timers | UDP/IP, TCP | lost answers | requests end |
| USB, SPI, I2C, CAN, Ethernet drivers | device queues | register level handlers | interrupts | device specific | as for byte queues |
| uFile, utFAT, parameters | media layout | open, read, write, delete | Flash and SD drivers | power loss | no file is corrupted |
| Hardware layers, simulator, FreeRTOS port, tools, applications | | | | | environment of the models |

## 2. Modules

| Module | Models | Status |
|---|---|---|
| `UTaskerKernel` | the kernel, its task queues counted in messages, the low power task | complete for the default options |
| `TaskTimers` | what the task timers promise: countdowns | abstract specification |
| `MCKernel` | task tables for TLC | |
| `CircularQueue` | one byte queue with nested writes, reads and flush | input queue of a driver or task |
| `ByteFifo` | what a byte queue promises | abstract specification |
| `Heap` | `uCalloc` and `uCFree` with their table of blocks and holes | `uMalloc`, `uFree`, secondary heap left out |
| `BlockAllocator` | what a heap promises: zeroed, disjoint blocks | abstract specification |
| `GlobalTimer` | software timers over one kernel timer | all operations, without the two optional extensions |
| `SoftwareTimers` | what the global timers promise: countdowns of their own | abstract specification |
| `Arp` | the ARP cache and its task | IPv4, one network |
| `TtyDriver` | one serial channel, transmitter and receiver with XON/XOFF | interrupt driven, character mode |
| `Tcp` | one unbuffered socket, its listener, the network and the peer | all states of the connection |
| `Dhcp` | the DHCP client, its lease, servers and the network | one network, without the DHCP server |
| `MCDhcp` | leases for TLC | |
| `...Proofs` | theorems about the module of that name | |

How they are composed: `UTaskerKernel` is shown to implement `TaskTimers`, and
`GlobalTimer`, `Arp` and `Dhcp` take their kernel timer from `TaskTimers` by
`INSTANCE`, so that what they rely on is what the kernel was shown to do.
`Dhcp` asks the ARP task for two addresses and assumes what `Arp` shows of it:
each request ends with one message. In
the same way `ByteFifo` is what both `CircularQueue` (with all its reservations
and nested copies) and the transmit side of `TtyDriver` (which uses the queue
through its protected calls) implement.

Operators whose comment begins with *Faulty* are plausible slips in the code
(a dropped test, a count not reduced). No specification uses them; put in the
place of the definition they vary, they show that a property would notice.

### `UTaskerKernel`

*State.* The variables are the fields of `TTASKTABLE` and `TTIMETABLE` that
change, under their names, plus the tick and the input queues. `TimerTasks` are
the rows that get an entry in the timer list. `pc`, `cur`, `drained`, `ops` and
`call` say where the main context is.

*Steps.* An action is a whole protected section or one unprotected access, so
that an interrupt can come between any two that the code does not protect:

| Code | Actions |
|---|---|
| `uTaskerSchedule` | `ScanSkip`, `ScanHit` (the unprotected test of the state), `Claim` (the protected section: queue the timer event, stop the task), `Return` |
| `fnRead` by the task | `ReadMessage`, `ReadNothing` |
| `fnWriteInternal` | `fnWriteInternal` (the fill), then the steps of `uTaskerStateChange` |
| `uTaskerStateChange` | `RequestState`; `ChangeStop` (protected: stop and resynchronise), or `ChangeDecide` and `ChangeSet` (unprotected test, then write) |
| `uTaskerMonoTimer`, `uTaskerStopTimer`, `fnLowPower` | one action each |
| `fnRtmkSystemTick` | one action for all timers, as interrupts are masked in it |
| `fnInterruptMessage`, other interrupts | `fnInterruptMessage`, `WakeFromInterrupt` |

A called task performs any sequence of at most `MaxOps` kernel calls around the
reading of its messages. Tasks in `SingleReaders` read one message and return,
as `stack/dns.c` and others do; all others read until the queue is empty.

*Abstractions.* Messages have no content but their source and event. The queue
of a task holds whole messages: a message without room is dropped, which is the
outcome of `fnFillBuf` on a queue sized in messages. The tick wraps at
`TickMod`, which stands for 2^32. `ChangeStop`, `uTaskerMonoTimer` and
`uTaskerStopTimer` find the task by name in the code and by number here.

### `CircularQueue`

Each protected section of `fnFillBuf` and `fnGetBuf` is an action, and each
copy between them. Writes under way form the stack `writes`: an interrupt's
write starts and ends inside the copy it interrupts, so only the top one moves,
and a read of the main context waits for all of them. A write stores one byte
value `n` times, which is enough to tell order, loss and tearing. With
`Bursts = FALSE` a second write does not begin while bytes of a completed
nested write wait for the outer one; with `Bursts = TRUE` it may. Once the
counts exceed the buffer the code computes with a wrapped unsigned difference;
the model stops there.

### `Heap`

The table `entries` has the fields of `HEAP_MANAGEMENT_BLOCK`; an entry is a
block, a hole, or unused (address 0). Each call is one action, since tasks are
cooperative and no interrupt allocates. `uCalloc(n)` is one of `ReuseHole`,
`SplitHole`, `Grow`, `Exhausted`, `NoObjects`, in the order of the code:
an unused entry is looked for first, then a hole of the exact size, then the
preferred larger hole, then the top. The sequential choice among larger holes
has the closed form `IsPreferred`: the largest if any of them reaches
`BREAK_DOWN_BLOCKS_LIMIT`, else the smallest, and the first of equals.
`uCFree(e)` frees a block, merges it with the holes on both sides and gives
space below the top back. `WriteBlock` is the owner of a block.

Memory is counted in long words, the unit of all sizes after rounding, and its
content is the set `dirty` of words that may differ from zero. Left out are
`ulTopMargin`, `ulAllocateCount` and `ulDeallocateCount`, which nothing reads;
the creation of the region, and what `uCFree` does once a block of size zero
has given two entries the same address.

### `GlobalTimer`

*State.* `stTimer` is the table of timer blocks, `NextFire` the delay the kernel
timer was last started with, and the kernel timer of `TASK_TIMER` is the one
`TaskTimers` specifies. `sent` shows the events the last step has written to
the queues of their owners.

*Steps.* `uTaskerGlobalMonoTimer` (`StartFirst` if the new timer is the next to
fire, `QueueBehind` if it is not, nothing without a free block) and
`uTaskerGlobalStopTimer` are called by tasks, which do not overlap; what they
share with the tick is protected, so each is one action. Expiry takes three:
the tick that fires the kernel timer, `uTaskerSchedule` that hands its event to
`TASK_TIMER`, and `fnTimer`. Other tasks set and stop timers after the first.

*Abstractions.* Delays are `DelayMod` = 2^w wide, and two of them add up to
less (`GlobalTimerAssumption`): `fnStartNewTimer` adds without a test
(`GlobalTimer.c:296`). With `StaleStarts = FALSE` no timer is started, no other
being in use, while a kernel event of an earlier one still waits; with `TRUE`
it may be. The queue of the owner takes every event.

### `Arp`

*State.* `tARP` is the cache, without the broadcast entry and the hardware
addresses, which are written in the step that resolves an entry. One kernel
timer has a slow rate (`E_ARP_CHECK`, entries age) and a fast one
(`E_ARP_PENDING_CHECK`, open requests are repeated). `told` shows the messages
the last step has sent.

| Code | Actions |
|---|---|
| `fnGetIP_ARP`, `fnResolveAddress`, `fnAddNewARP` | `fnGetIP_ARP`: the gateway takes the place of a host outside the subnet; a free entry or else the oldest temporary one |
| `fnProcessARP`, `fnAddARP` | `HearHost` (a request, or an answer for someone else), `fnHandleARP_response`, `EnterPermanent` (a call of the application) |
| `fnTaskArp` | `uTaskerSchedule`, then `fnTaskArp`: `fnRefreshARP` or `fnARP_check_pending` |
| `fnDeleteArp` | one action |

The network may lose and delay anything: a frame of any host may be received in
any state, or never. `HandledInTime` bounds the delay of the scheduler: an
event is handled before the timer, set again meanwhile, fires once more.
Two history variables stand beside the code: `requests` holds who asked for
which host that is still being resolved, and `askedLate` says that a request was
made while the event of the slow rate waited, and the fast rate has not been
started since.

### `TtyDriver`

*State.* The flags of the two control blocks, the bytes in the transmit queue,
the number of those in the receive queue, the task that waits for `TX_FREE`,
and how far the user's call is. Around the driver stand the UART (`sending`,
`txInt`) and a peer that obeys XON/XOFF after one byte more (`peer`) and
transmits at the same speed (`slack`).

*Steps.* A call is cut wherever the code lets interrupts in:

| Code | Actions |
|---|---|
| `CALL_WRITE` | `WriteBegin`, `WriteCount` (inside `fnFillBuf`), `WriteStart` (the protected `send_next_byte`) |
| `CALL_WRITE` without a buffer, then `MODIFY_WAKEUP` | `Query` that finds no room, `Register` |
| `CALL_READ` | `Read` (`fnGetBuf`), `ReadTest`, `ReadLoad`, `ReadStore`, `ReadSend`: the unprotected decision to send XON, the read, change and write of `ucState`, and the restart |
| `PAUSE_TX`, `CALL_FLUSH` | `Pause`, `Resume`, `FlushTx`, `FlushRx`, each protected |
| `fnSciTxByte`, `send_next_byte` | `TxInterrupt` |
| `fnSciRxByte` | `RxByte`, `RxXoff`, `RxXon` |

Pauses begin and end at any time, and a task may register for its wake-up
after the last byte has left. One constant, `Undisturbed`, says what the code
relies on and does not ensure: `send_next_byte` assumes that "interrupts are
[...] disabled here" (`Tty_drv.c:663`), and that the UART takes the byte it is
given. With `TRUE` no UART interrupt comes between the decision of `CALL_READ`
to send XON and its return, and the peer's XON does not find the UART full. The
run `TtyDriver` has it `TRUE`, the run `TtyDriverDisturbed` `FALSE`.

### `Tcp`

*State.* The fields of one `TCP_CONTROL` block, with sequence numbers counted
from the initial one of each side; whether the timer task polls it; what the
listener was told last (`view`) and the bytes it has taken; and of the peer
what it has sent, received and been acknowledged. `Forget` clears what belongs
to a connection that is over.

*Steps.* `fnTCP_Listen`, `fnTCP_Connect`, `fnTCP_close` and `fnSendTCP` are
calls of the application, possible whenever the code accepts them. `fnPollTCP`
counts down in every state, repeats, gives up, sends the queued FIN or closes
an idle connection. `fnHandleTCP` is cut by kind of frame: `HearReset`,
`HearSyn`, `HearSynAck`, `HearOldSegment` and, for everything else,
`HearSegment`, whose parts have the names of what they decide (`AfterAck`,
`AfterData`, `AfterReply`, `CloseOnAck`, `CloseOnData`, `TakeFin`,
`LeaveData`). The listener's answers to `TCP_EVENT_ACK` and `TCP_EVENT_DATA`
(take, refuse, send, close) are choices. `Peer` receives, acknowledges and
sends.

*The network.* A frame of the peer is any segment of what it has sent with any
acknowledgement it has given, so segments are lost, repeated, cut, merged,
delayed and reordered; our acknowledgements are received late or never; a RST
may come at any time.

*Widths.* Segment lengths are unsigned shorts, `LengthMod` standing for 2^16:
the test for repeated data (`tcp.c:1954`) depends on the wrap.

### `Dhcp`

*State.* The variables of `dhcp.c` for one network, under their names; the
kernel timer and the input queue of the task; what our last message, by its
XID, still awaits (`asked`); the open ARP request (`probe`), for the server or
for our own address; and beside the code the seconds left of what a server has
granted (`granted`) and what the application was told last (`up`).

| Code | Actions |
|---|---|
| `fnDHCP`, called by the scheduler | `uTaskerSchedule`, then `fnDHCP` for each message: `Resend`, or `fnStateEventDHCP` with one operator for each state (`Selecting`, `Requesting`, `InBound`, `InRenewing`, `InRebinding`) |
| `fnDHCPListener`, `fnDoClientRxDHCP` | `HearOffer`, `HearAck`, `HearNak`, each with the part of `fnStateEventDHCP` it calls |
| `fnStartDHCP`, `fnStopDHCP` | one action each |
| `fnRtmkSystemTick` | one second passes; the events it brings are handled before the next |
| the ARP task | `ArpEnds` |

*Abstractions.* Addresses are known or not, other options of a message are left
out. The application starts the client at any time, also while an ARP request or
its result is outstanding, and an ACK may come then. Time is counted in seconds
and `fnRandomise` takes any time in its range, which is a second less to
`SPREAD` more. A server answers with any lease of `Leases`, in which T1 and T2
may be missing (0); it may also refuse, or not be heard. A refusal where the
code has no branch for one, and the ACK of a server that was not asked, are one
action: they use up the XID and nothing else. `PROBE_TIME` bounds an ARP
request, which `arp.c` repeats four times in two seconds; it is shorter than
every timeout of the client (`DhcpAssumption`).

*Histories.* Two things the client does not stand are remembered until it is
started with nothing outstanding: `crossed` says that a start came during an ARP
request, or an ACK while its result was queued, so that the result may be taken
for another's; `mistimed` says that a grant was not `LongEnough`, that is, its
parts leave no time for an ARP request, or it has a T2 with which the sum or
the difference of `fnCheckTimerValidity` wraps. The safety properties are
claimed while neither holds (`Regular`); nothing keeps the actions from setting
them, and the same client must be right again after the next start.

## 3. What the runs check

| Run | Instance | Shows |
|---|---|---|
| `KernelPeriodic` | 2 tasks, 4 ticks, one kernel call per activation and one interrupt per pass: a periodic, single-reading task beside a polled one, with STOP and GO requests | the timers are countdowns (`ImplementsTaskTimers`); only a stop request or a single-message reader leaves a message behind (`KernelStrandsNoWork`) |
| `KernelLiveness` | 2 tasks, 3 ticks: one that writes to itself and arms its timer, and the low power task, under `FairSpec` | no message waits for a task nobody will call (`NoLostWakeup`); a fired timer's task is to be called (`TimerEventDeliverable`); no sleep over work (`SleepsOnlyWhenIdle`); `ScheduledTasksRun`, `MessagesAreRead`, `TimersRunOut` |
| `CircularQueue` | 4 bytes, writes of 1 and 3, 2 interrupt levels | `BytesFit`, `NothingStaysReserved`, `ImplementsByteFifo` |
| `Heap` | 7 words, 5 entries, sizes 1 and 3, large holes from 3 | blocks and holes tile the heap below the top (`NothingLost`); holes merge (`HolesMerged`); free memory is zero (`FreeMemoryIsZero`); a request is refused by a heap without room only (`RefusedOnlyWithoutRoom`); `ImplementsAllocator` |
| `GlobalTimer` | 4 timers of 2 tasks in 3 blocks, delays 1 to 3 | each timer is a countdown of its own (`ImplementsSoftwareTimers`); each runs out unless it is stopped or put off for ever (`EveryTimerRunsOut`) |
| `Arp` | 3 hosts with the gateway, 2 entries, 2 tasks | an open request has the fast timer, but for the one step named (`RequestsArePolled`); no host is entered twice (`OneEntryPerHost`); each request ends with one message (`TasksAreTold`), and does end (`RequestsEnd`); silent hosts are forgotten (`SilentHostsAge`) |
| `TtyDriver` | queues of 3 and 8, UART of 2, water marks 1 and 5 | what may be sent has an interrupt to come, unless a pause came in the middle (`NeverStalls`); the peer's view agrees with ours (`PeerIsTold`); no byte received is lost (`ReceiverHasRoom`); none sent is lost, doubled or out of order (`ImplementsByteFifo`); a blocked task is woken, unless it registered too late (`BlockedWriterIsWoken`), a peer held is let go (`PeerIsReleased`) |
| `Tcp` | 3 bytes in, 2 out, 2 retries | the stream is in order (`StreamInOrder`); no byte is acknowledged that was not taken, unless it was refused too late (`AckedIsTaken`); a FIN is taken after all data (`CloseIsLast`); the listener hears of every end (`EndIsTold`), and of an orderly one only if it was (`ClosedIsComplete`); opening, closing and unacknowledged data end without help of the peer (`EndsInTime`); a peer that repeats is acknowledged, unless it is taken for one that left a gap (`PeerIsAcked`) |
| `Dhcp` | leases of 24 (T1 6, T2 14), 16 (T2 15), 16 (T1 14, T2 2: the margin wraps) and 3 seconds, kernel timer of 5, timeouts of 3 and 6; starts and grants that cross ARP requests | while `Regular`, the client always waits for something that comes (`NeverStuck`); an address is used no longer than granted and its loss is told (`LeaseKept`); none is bound before a server granted it and ARP found it free (`BoundIsProbed`); servers that answer at last have it bound (`Connects`) |

Runs that end in a counterexample, because the code does not do what a comment
in it says:

| Run | Counterexample |
|---|---|
| `CircularQueueBursts` | the space test in `fnFillBuf` (`Driver.c:462`) forgets `new_chars`: a second write during one copy is accepted over unread bytes |
| `GlobalTimerStaleEvent` | the only timer is restarted while the kernel event of its first expiry waits: it is sent at once, though `GlobalTimer.c:403` says that no event must then be generated |
| `TtyDriverDisturbed` | an XON arrives while the UART is full of XOFF and XON: `fnSciRxByte` restarts the transmitter although it is active (`Tty_drv.c:956`), and the byte taken from the queue is refused and lost, though `:688` says "send the next byte if possible" |

Invariants that others imply have no run of their own: the types, which are
proved (section 4), and `ArmedTimersFire`,
`KernelTimerCovers` and `BlocksDisjoint`, which are proved and follow from the
refinement that the run of their module checks; `StatisticsExact` of `Heap` is
proved too.

*Bounds.* Every kernel property is about one task and whoever interferes with
it: another task, the tick and an interrupt, so two rows of the task table give
every pair of roles. The tick of `TickMod` values lets each delay cross the wrap
from every tick. `MaxOps` bounds the calls of one activation, not of the run:
tasks are activated again and again. `MaxIrqs` bounds the interrupts of one pass
so that passes end. A buffer of 4 bytes with writes of 1 and 3 wraps in all
alignments, fills up exactly, and cuts. A heap of 7 words holds two blocks of 3
with one between or around them: a freed block meets holes below, above and on
both sides, exact and larger holes, one and several of them, and the table of 5
fills up before the heap does. Three blocks for four global timers let the table
fill up, and give each expiry timers that are due, not due and due together.
Two ARP entries for three hosts make every request compete for an entry; the
gateway's life is shorter than the others', so that both ways of ageing meet.
The serial queues are the smallest for which the water marks work: between XOFF
and the last byte of the peer a UART of 2 characters lets four more arrive. A
TCP stream of three bytes is cut into segments that lie before, across, at and
behind the next expected number. The leases are scaled down so that the kernel
timer cuts the time to T1, each of RENEWING and REBINDING repeats before its
minimum, both corrections of `fnCheckTimerValidity` happen, a T2 below the margin
wraps, and a lease is too short for any timer. `TimeMod` = 32 stands for 2^32.
Bounds in the guards: `HandledInTime`,
`Sendable` (`MaxOut`), `PeerSends` (`MaxIn`).

*Fairness.*

| Module | Assumed | Because |
|---|---|---|
| `UTaskerKernel` | `WF(Schedule \/ Calls)`, `WF` of the tick | `main()` is an endless loop around `uTaskerSchedule`, tasks return, the tick timer is periodic; device interrupts need not come |
| `GlobalTimer`, `Arp` | `WF` of tick, `uTaskerSchedule` and handler | the same, as `ScheduledTasksRun` shows of the kernel; nobody must set a timer, ask, or answer |
| `TtyDriver` | `WF` of `Call`, `ByteSent`, `TxInterrupt`; `SF` of `Read` | calls return, a UART that holds a character sends it, enabled interrupts are served; the task that owns the channel reads it whenever it is called, though other calls come between. `BlockedWriterIsWoken` further supposes that transmission is not paused, nor stalled by a pause, for ever |
| `Tcp` | `WF(fnPollTCP(FALSE))` | the timer task is called; nothing is assumed of network, peer or application. `PeerIsAcked` states its own premise `FairNetwork`: what is repeated for ever arrives once |
| `Dhcp` | `WF` of `uTaskerSchedule`, `fnDHCP`, tick and `ArpEnds`; for `Connects` also `SF` of `HearOffer` and `HearAck` | as above, and `RequestsEnd` of `Arp`; a message repeated for ever arrives once. Safety does not depend on it, and `Connects` further supposes that from some time on nobody refuses, collides, stops or restarts, and excepts a client whose grants have crossed |

## 4. What is proved

The theorems hold for all values of the constants that the named assumption of
each module admits.

Kernel, for every task table, tick width, set of delays and events, number of
calls and interrupts (in particular `TickMod > 2`, and task states at start as
the code allows them):

* `TypeCorrect`, `TimersSound`: the inductive invariant is `TypeOK` together
  with `ArmedTimersFire`. The second is needed because the match in
  `fnRtmkSystemTick` is on equality: a running timer one tick behind would not
  be noticed for a whole wrap.
* `NoWorkStranded` (`KernelStrandsNoWork`) from the type invariant and the
  position of the main context (the arguments of a call are those of the task
  it activates). It has no further assumption.
* `NoWakeupLost` needs that no task requests STOP and that all read until their
  queue is empty. With these, `KernelStrandsNoWork` leaves no step that could
  strand a message; the invariant says further that a stop is never under way.
* `TimerEventsDeliverable` needs that nobody requests STOP or GO.
* `SleepIsSafe`: the invariant adds that in `sleep` the low power task is
  current. It also uses that the low power task has no queue.
* `TimersImplemented`: with the mapping `left = uTaskerRemainingTime`, each
  action of the kernel is an action of `TaskTimers` or a stutter. The wrap is
  handled by lemmas on `TickAdd` and `TicksTo`.

Byte queue, for every buffer size and nesting:

* `ReservationsReturned` holds for any nesting, bursts included: the invariant
  says of the stack of writes that each began with exactly the bytes of those
  below it reserved.
* `RoomKept`, `QueueTypeCorrect` need `Bursts = FALSE`; the run
  `CircularQueueBursts` shows that they cannot do without.
* `Refinement` needs it too: the wrapping buffer with all its pointers and
  nested copies implements `ByteFifo`. The invariant `QInv` says where each byte
  is. The bytes not yet published lie behind the readable ones, each at its
  `Place`; a write under way owns the `n` of them from its `ptrTo` on, and the
  writes on the stack lie one behind the other up to `put` (`WritesPlaced`).
  They are what the abstract queue has taken, in its order (`HistoryKept`), and
  are in the buffer once their write has copied or is complete (`BytesStored`);
  the bytes a read has still to copy lie just before `get` (`ReadPlaced`). It is
  needed because a nested write stores its bytes behind those of the write it
  interrupts and finishes first: only the stack tells whose place is whose when
  the outermost write publishes all of them at once. That places less than a
  buffer length apart do not meet after the wrap is the lemma `WrapDistinct`.

Heap, for every size of heap and table, if no request has size zero
(`NoEmptyRequest`), without which two entries can share an address:

* `NoWordHandedOutTwice`, `NoWordLost`, `HolesStayMerged`, `MemoryReturnedZero`,
  for every size of heap and table: the inductive invariant `HeapInv` has them
  all, because they need each other. Freeing merges with at most one hole on
  each side only because holes never touch; what it leaves below the top is
  covered only because nothing was lost; the layout is stated in addresses
  (`Apart`), where the provers can reason, and turned into sets of words by
  `LayoutDisjoint`.
* `HeapIsAllocator`: each call is a step of `BlockAllocator`, or is refused and
  changes nothing a caller sees. It rests on the same invariant.
* `CountsExact`, `RefusalsAreJustified` and `TypesHold`: `CountInv` adds the
  counters to `HeapInv`. Sums are avoided: the words of all blocks form one
  set, whose cardinality changes by the size of the block a step adds or takes,
  as blocks are disjoint; what it leaves below the top are the holes. A refusal
  is justified because every run of words without a block lies in one hole or
  reaches the top.

Global timers, for any tasks, timers, blocks and delays:

* `TypesHold` has no further assumption.
* `NoneForgotten`, `NoneSentEarly` and `Refinement` need `StaleStarts = FALSE`;
  the run `GlobalTimerStaleEvent` shows that they cannot do without. The
  invariant says that the kernel timer counts `NextFire` down, once, and is at
  rest while its event waits; that no timer in use is due before it fires; and
  that a new delay can be counted from its start without a wrap. In the
  refinement the time left of a timer is `TimerDelay - (NextFire -
  uTaskerRemainingTime)`: starting the kernel timer anew changes all three and
  none of the values.

ARP, for any hosts, tasks, entries, lives, retries and rates:

* `TypesHold`, `OneEntry`, `EndsAreTold`: no host is in two entries, hence the
  entry that a frame resolves is the one that was asked for, and its owner is
  told once because it is forgotten in the same step.
* `AlwaysPolled`, for requests made at any time: the invariant says that there
  always is a next event, in the ARP task, the task table or the timer. A step
  then changes from the fast one to another only where the code starts the slow
  rate: with no request open, or in the refresh of a waiting slow event; and the
  request that this one leaves behind was made after the event was sent.

Serial driver, for any bytes, queue sizes, water marks and UART depth:

* `TypesHold` has no further assumption.
* The others need `Undisturbed = TRUE`; the run `TtyDriverDisturbed` shows that
  `Refinement` cannot do without, and with the constant of that run TLC finds
  each of the others violated too, after some 25 steps, through the interrupt
  in `CALL_READ`.
* `NoStall` and `Refinement`: the invariant ties `TX_ACTIVE` to an enabled
  interrupt at each point of a call: whoever finds the transmitter active may
  leave the bytes to it, because its interrupt is to come and will find them;
  and a character in a full UART means an active transmitter, so that
  `WriteStart` never loses the byte it takes.
* `PeerTold` needs moreover that the water marks are apart (`MarksApart`):
  `LOW_WATER_MARK + UART_DEPTH + HIGH_WATER_MARK <= RxQueueSize`, and the same
  with 1 in the place of the low mark. The invariant `Told` looks at what the
  peer will have been told when the UART is empty: the last flow control
  character in the UART, or if there is none the state of the peer, agrees with
  `RX_HIGHWATER` unless one is due, and what is due agrees with it. The marks
  are needed because an XON that the UART has refused must not be overtaken by
  an XOFF, and `send_next_byte` would send the XON only: until it goes out the
  peer sends at most one byte for each character before it.
* `RoomForThePeer` further needs `UART_DEPTH + 3 <= HIGH_WATER_MARK`
  (`HighEnough`). `RoomLeft` counts what can still arrive while XOFF is due,
  while it is at place `p` of the UART, and after it has reached the peer.
* Neither bound can be lowered: with `TtyDriver.cfg` and `RxQueueSize = 7` or
  `LOW_WATER_MARK = 2` TLC finds `PeerIsTold` violated, with
  `HIGH_WATER_MARK = 4` `ReceiverHasRoom`. The marks of
  `Applications/uTaskerV1.4/config.h:1560` (20 and 20) satisfy both with any
  receive queue of at least 42 bytes.

TCP, for any lengths, retries and timeouts:

* `TypesHold`, `StreamStaysInOrder`, `CloseComesLast`, `EndsAreTold`,
  `SocketsArePolled`: the invariant `IInv` relates both ends. The bytes taken
  are a prefix of what the peer has sent and `rcv` counts them (`Stream`); a FIN
  is taken only behind all data (`Closes`); the peer has received at most what
  was sent, and has our FIN if it has acknowledged it (`Sent`); a connection
  that is not over is polled, and the listener knows of each that is (`Told`).
  `ExtraFacts` is the arithmetic of the unsigned short: with `LengthMod` larger
  than any two segments the wrapped difference tells new bytes from old.
* `ClosedWhenComplete`: each step that tells the listener of an orderly end
  follows an acknowledgement of the FIN, by `Sent`.
* `AcksAreTaken`: what a step acknowledges beyond the bytes taken is what the
  listener sent in answer to a frame whose data it then refused
  (`RefusesAfterSending`). The theorem has no premise on the listener.

DHCP client, for any leases, timeouts and spread, servers that send any times
and an application that starts it at any time:

* `TypesHold`, `StuckNever`, `LeaseIsKept`, `AddressIsProbed` share one
  invariant, `Inv == Base /\ (Regular => IInv)`. `Base` holds in every state: the
  types, what can be queued while nothing is read, and that a message waiting
  for ARP has a request or its result. `IInv` is kept by every step from a
  regular state to a regular one (`RegularStep`); a step out of `Regular` owes
  nothing more; and the only way back is a start with nothing outstanding, which
  establishes `IInv` from `Base` alone (`StartStep`).
* Of `IInv`, `MailOK` says that the queue holds at most a result of ARP
  and behind it one event of the timer, so that each message can be read for
  what it is. `ArpOK` says which request may be open in which state, and that it
  ends before the next timeout: hence a result can only be one for the request
  the state is waiting for. `TimerOK` says that a bound client has its own timer
  or the event of it, and no other. `LeaseOK` counts: the kernel timer, what is
  cut from it, the time to T2 and that to the end never exceed what is left of
  the lease by more than `PROBE_TIME`, the time between an ACK and the begin of
  the lease, and the last of them is longer than that. Halving a time and
  starting it keeps the sum, by `2 * (t \div 2) <= t`.
* `RebindingInTime` and `RenewalInTime` are what the correction in
  `fnCheckTimerValidity` gives for all times of a server that are `LongEnough`:
  T1 before T2 before the end, with room between them.
* Neither exception can be dropped. With `Dhcp.cfg` and without `~crossed`, TLC
  finds `NeverStuck` violated after 24 steps, `LeaseKept` and `BoundIsProbed`
  after 13; without `~mistimed`, `NeverStuck` after 12 with the lease of 3
  seconds, `LeaseKept` after 15 with the same and after 37 with the T2 that wraps
  below the margin; and with `TimeMod = 64` and a T2 of 62 in a lease of 16 after
  34.

Only model-checked: all liveness under fairness (`ScheduledTasksRun`,
`MessagesAreRead`, `TimersRunOut`, `EveryTimerRunsOut`, `RequestsEnd`,
`SilentHostsAge`, `BlockedWriterIsWoken`, `PeerIsReleased`, `EndsInTime`,
`PeerIsAcked`, `Connects`), which TLAPS cannot reason about. Every invariant,
every other action property and every refinement that a passing run checks is
also a theorem.

## 5. Where the code surprises, and what is not modelled

Besides the three runs that end in a counterexample, translation and small
experiments with the constants met the following. They are true of the models,
which follow the code. Where one of them stands against a property, the property
names the step or the state and claims all the rest, and the case is marked
below with the name of the property.

* *Kernel.* `uTaskerStopTimer` does not recall an event already in the task
  table (`uTasker.c:573` says that none is sent). A task that reads one message
  per call stops with the second in its queue (`uTasker.h:50`; `dns.c:96` is
  one). A task that is both `ACTIVATE` and `SUSPENDED` is called in every pass,
  not once (`uTasker.c:391`, `:613`, `Driver.c:628`). The timer event is dropped
  when the input queue of the task has no room (`:387`): the result of the write
  is not looked at.
* *Heap.* A request of size zero splits a hole without moving it
  (`uMalloc.c:447`), and `uCFree` of the pointer finds the hole (`:499`).
* *Global timers.* Stopping a timer returns its `TimerDelay`, not the time it
  has left. The ticks between expiry and its handling are not counted. A full
  queue of the owner loses the event. A long delay may wrap (`:296`).
* *ARP.* A request can be made while the event of the slow rate waits:
  `fnRefreshARP` (`arp.c:279`) then puts the timer back to the slow rate, and
  the request is neither repeated nor given up until another one is made,
  against the comments at `arp.c:307` ("release entry after maximum retries")
  and `:920` ("adapt the ARP timer to monitor response timeout").
  `RequestsArePolled` names this step, `RequestsEnd` the requests left behind by
  it. A permanent entry that is heard of gets the life of a temporary one; an
  address already in the cache cannot be made permanent. A second task that asks
  for the same host is not told of the end; nor is anyone when the cache is
  emptied or no entry can be flushed. An entry whose resolution was given up
  keeps its owner: when a frame of the gateway is entered there, and the gateway
  is later resolved anew, the old owner is told. `arp.c:466` and `:746` are to
  avoid that ("avoid repeating message on refreshes of gateway"), and do after a
  success only. It is the one message without a request that `TasksAreTold`
  admits. Each new request puts off the timer of all others, hence the
  alternative in `RequestsEnd`.
* *Serial driver.* An XON that arrives while the UART is full restarts the
  transmitter, and the byte taken from the queue is lost (`Tty_drv.c:794-808`,
  `:956`): the run `TtyDriverDisturbed`. An interrupt between test and restart in
  `CALL_READ` (`:364-365`) has the same effect, and may have its XOFF or TX_WAIT
  overwritten. A writer that registers for its wake-up after the last byte has
  left sleeps until it is woken otherwise (`BlockedWriterIsWoken` names
  `Register`); builds without DMA also leave one asleep whose bytes were flushed.
  A pause that begins while the transmitter is active leaves `TX_ACTIVE` set once
  an interrupt has found `TX_WAIT`: the end of the pause then starts nothing
  (`:178-191`), and every later write leaves its bytes to an interrupt that does
  not come (`NeverStalls` names `Resume`).
* *DHCP.* The client can be started while an ARP request or its result is under
  way, and a second ACK that fits the XID can be taken between a result and its
  reading: `ARP_RESOLUTION_FAILED` then binds, in INIT_REBOOT before a request
  was sent and without an address (`dhcp.c:1439`, against the comments at
  `:560`, "we have checked that a newly received IP is really free so we use
  it", and `:1442`). `NeverStuck`, `LeaseKept`, `BoundIsProbed` and `Connects`
  except such a client (`crossed`) until its next start with nothing
  outstanding. `fnCheckTimerValidity` is to replace "invalid or unrealistic"
  times, but its own differences are unsigned: with a lease of 100, T1 of 200
  and T2 of 5, `T2 - 10` wraps (`:525`), both times are accepted, and the
  address is kept for 200 seconds; a T2 within 10 of 2^32 has `T2 + 10` wrap
  (`:522`), with the same end. A lease under eight seconds gets a part of no
  length, for which no timer is started. `LongEnough` excepts these grants from
  `NeverStuck`, `LeaseKept` and `BoundIsProbed`, and with them, for the sake of
  the proof, leases of less than about eight times an ARP request, two seconds.
  An infinite lease is renewed and in the end given up like any other, because
  `fnCheckTimerValidity` computes a T1 for it (`:522`, against `:991`). A
  refusal in RENEWING and REBINDING is ignored (`:617`), where the diagram at
  `:118` halts the network. In REBOOTING and REBINDING the server's address is
  not read from the answer (`:842`), so the requests of RENEWING may go to
  another than the one that granted (against `:122`). In BOUND any event goes on
  with a cut delay (`:599`) in the place of the renewal event. A reply that is
  then ignored has used up the XID. `fnRandomise` spreads by more than the
  second its comment names. REQUESTING and REBOOTING repeat their request for
  ever, so a server that is gone is never replaced.
* *TCP.* A half-closed connection (`CLOSE_WAIT`) is left by a RST only
  (`tcp.c:1341`, against the comment at `:2003`): `fnTCP_close` refuses.
  `fnMapTCPSocket` tests for a state equal to two at once (`:1403`), which is
  never true. The FIN of an idle connection with data under
  way is never acknowledged, and ends in an abort. A repeated SYN is accepted
  again with a new initial number, which breaks the handshake under way, and one
  that arrives later aborts the connection. A listener that refuses the close
  suppresses the acknowledgement of its data. Bytes that it refuses after having
  answered the acknowledgement in the same frame by sending have been
  acknowledged by what it sent, and the peer does not send them again
  (`AckedIsTaken` names the step). A segment that lies wholly before the next
  expected number, and does not end there, is taken for one after a gap, because
  the difference is negative in an unsigned short (`tcp.c:1952-1954`): it is not
  acknowledged, though `:1950` says "send an ACK back to it to quieten the peer".
  If the acknowledgement of two bytes was lost and the peer repeats the first
  alone, it does so for ever (`PeerIsAcked` names the case).

Not modelled in the files the modules translate: of the kernel
`PERIODIC_TIMER_EVENT`, `MONITOR_PERFORMANCE`, `MULTISTART` and
`INTERRUPT_WATCHDOG_TASK`; of the queues distributed nodes, double queue
writes, peek, the FIFO form of `CALL_WRITE`, `CHECK_QUEUE` and the handle
table; `GLOBAL_HARDWARE_TIMER` and `USE_TIMER_FUNCTION_EVENT`; of ARP IPv6
neighbours, RARP, VLANs and several interfaces; of the serial driver DMA,
RTS/CTS and the message, echo, break and multidrop modes; of TCP the buffered
sockets with their windows, the out-of-order buffer, several sockets, secure
sockets, simultaneous open, and the messages of address resolution; of DHCP the
server, several networks and options other than the times. Each is an
option or a variation of what is modelled.

The other components of section 1 have no model. Most of the repository is
register definitions and simulators of a dozen processor families, vendored
libraries, tables and example applications: data, or code whose behaviour is
the device's. Frame formats and media layouts have little control that a model
checker would exercise. What does have states worth checking is named in the
plan.

## 6. Plan

Done: the modules of section 2. Open, in order of worth:

1. `CALL_WRITE` and framed messages over `CircularQueue`: what a message cut by
   a full queue does to the next one.
2. Buffered TCP sockets with the peer's window; several sockets that compete in
   `fnMapTCPSocket` and `fnGetTCP_Socket`.
3. `uFileSystem`: deletion and writing of files across a power loss.
