# A TLA+ model of the FreeRTOS+TCP demo application

The repository is a small FreeRTOS application that runs in QEMU (an MPS2
board with a Cortex-M3) and talks over FreeRTOS+TCP, through a TAP device, with
programs on a Linux host. FreeRTOS and FreeRTOS+TCP themselves are *not* in the
repository: what the programs see of them is modelled as an environment, in one
module, `TcpStack`.

The modules here say what the programs of the repository do, step by step; TLC
checks them on small instances, and TLAPS proves the safety properties of the
programs for every value of the constants.

## 1. The system

| Part | Source | State it keeps | Operations |
|---|---|---|---|
| Reset and start-up | `startup.c`, `syscalls.c` | RAM, `heap_end`, the UART | fill `.data` and `.bss`, `_start()`, the vector table, the default handlers, `_sbrk()`, `_write()` |
| Boot, network hook, demo selection | `platform/main.c`, `platform/main_networking.c`, `app/app_main.c`, `app/demos/demo_echo.c`, `app/app_config.h` | `xTasksAlreadyCreated`, the tasks created, the mask of interrupts | start the IP stack and scheduler; start the selected demo when the network comes up first; stop the program when an assertion or an allocation fails |
| Echo server task | `app/demos/demo_echo_server.c` | listening socket, the client socket, one `rxBuffer`, `xRx` | socket, bind, listen, accept, recv, send, closesocket |
| Host echo terminal | `linux/tcp_client.c` | the `select()` result, the line being sent | connect, select, recv, read, send, close |
| Echo client task | `TCPEchoClient_SingleTasks.c` | socket, message number, reply buffer, three counters | connect, send, receive with timeout, compare, shut down, drain, close |
| Echo client monitor | same file, `xAreSingleTaskTCPEchoClientsStillRunning()` | last counts | compare the counters with those of the last call |
| Heartbeat task | `tcp_heartbeat_demo.c` | socket, `ulCounter`, line buffer | connect, format, send, back off |
| Host heartbeat terminal | `linux/tcp_server.c` | its one connection, the `select()` result | accept, select, recv, read, send |
| Random numbers | `platform/main_networking.c`, `prvCreateTxData()` | `ulNextRand` | draw a number; draw until a length fits |
| Host echo server | `linux/linux_tcp_server.c` | one connection | accept, recv, send |
| CMSIS headers | `CMSIS/core_cm3.h`, `cmsis_gcc.h`, `mpu_armv7.h`, `CMSDK_CM3.h` | the registers of the interrupt controller, the core, the timer, the protection unit and the trace unit | access functions, priority encoding, masks, exclusive access, bit operations, region tables, the debugger's terminal |
| Kernel configuration | `config/FreeRTOSConfig.h`, `config/FreeRTOSIPConfig.h` | - | interrupt priorities, time-outs |
| Scripts, unused selectors | `scripts/`, `app/demo_selector.c`, `app/network_role.c` | - | - |

How they interact: the IP task calls the network hook, which starts one demo
task. The demo task and the IP task share the sockets (and the random
generator); the demo task and a host program share a TCP connection, which can
deliver late and in pieces, stall because the other side does not read, be
closed by either end, or be lost. The echo client and its monitor share
counters without a lock. Below the tasks, the timer, the task switch and the
Ethernet controller interrupt them and one another, and their handlers and the
tasks share the kernel's data; the only thing that keeps them apart, and the only
thing that stops the program, is a mask of interrupt priorities.

What is hard about it, and which property answers it:

* **Short sends.** `FreeRTOS_send()` returns after its block time with part of
  the data queued; the echo server ignores the result (`EchoInOrder`,
  `LossOnlyWhenShort`, `EchoComplete`), the heartbeat task takes any positive
  result for success (`LinesInOrder`).
* **Both sides block in send.** Neither reads while it sends
  (`BlockedSenderReleased`, `BlockedHostReleased`).
* **Timeouts that look like something else.** accept returns NULL
  (`NoPhantomClient`), a receive loop leaves with a partial reply
  (`MissingReplyDoesNotBlock`), a reply comes after its timeout
  (`ReplyIsOwn`).
* **One task for all clients, a backlog that counts accepted children**
  (`NoSocketLeak`, `GoneClientReleased`, `WaitingClientServed`).
* **Every way out of a round must release the socket** (`OneSocket` in
  `EchoClient` and in `Heartbeat`, `OneVerdictPerConnection`, `RoundEnds`).
* **Unlocked shared data** (`PassMeansProgress`, `MonitorOnlyInspects`,
  `LengthFound`).
* **A host that never learns it is alone.** The echo server of the host ignores
  what `send()` returns, and its `recv()` has neither a timeout nor a keepalive:
  only the answer to something it has sent tells it that the connection is dead
  (`ResetEndsServer`).
* **A heap without a lock.** `_sbrk()` loads `heap_end` and stores it later; not
  all of its callers have suspended the scheduler (`HeapIntact`,
  `HeapReserved`).
* **RAM holds anything at power-up, and the last run's data after a reset.**
  `Reset_Handler()` must reach every word (`HeapIntact`, `DemoStarts`).
* **Interrupt priorities are numbers in two files.** One that is too urgent
  lets a handler into the middle of a critical section, or through the stop of a
  failed assertion (`KernelExclusive`, `StoppedStays`); one entry too few in the
  vector table and frames are not served (`FrameServed`).
* **Access functions with edges**: word borders, shifts by whole widths, chunks
  of tables, nesting masks, a context that loses its own privilege half-way,
  code that an interrupt cuts in two (`InterruptsIndependent`,
  `PrioritiesAgree`, `RegionsLoaded`, `BitsMoved`, `MasksNest`, `ContextsKept`,
  `NoLostUpdate`, `CharactersKept`).
* **A console without a lock or a look at the status register**
  (`LinesPrinted`).
* **The network goes up and down again while the hook runs** (`OneDemoOnce`,
  `DemoStarts`).

## 2. The modules

    TcpStack ──► EchoServer ─┐
       │                     ├─► EchoSystem ──► MCEchoSystem      (TLC)
       └──────► TcpClient ───┘       │  └─────► EchoSystemProofs  (TLAPS)
                                     └ INSTANCE EchoService (refinement)
    EchoClient ──► EchoMonitor ──► EchoClientProofs
    Heartbeat ──► LinuxEchoServer ──► HeartbeatProofs
    EchoClient, RandomSource ──► MCEchoClient                     (TLC)
    RandomSource ──► RandomSourceProofs
    AppStart ─┐
              ├─► Board ─┬─► BoardProofs
    CortexM3 ─┘          │
             Intrinsics ─┴─► CmsisFunctions ─┬─► MCBoard
                                 │           │
    ExclusiveAccess, DebugChannel,           │
    Console, MemoryProtection ───┼───────────┘
                 │               │
                 ▼               ▼
            DeviceProofs     CmsisProofs     (both use Arithmetic)

**`TcpStack`** (external). A connection per client process: whether it is up,
which end has closed it or whether it is lost (`link`), the child sockets of the
listening socket and those not yet accepted (`children`, `backlog`), and two
streams. The stream to the server is a run of numbered units, so `written` and
`taken` are counters; the stream back is the sequence `echoed` of the cells
that `FreeRTOS_send()` has accepted, of which the client has read `got`.
`UpCap` and `DownCap` stand for the window and the buffers at both ends
together. A handshake needs a free place in the backlog, and FreeRTOS+TCP
counts children against it until they are closed. A client that closes while
cells are on their way to it resets the connection, as Linux does.

**`EchoServer`** is `prvEchoServerTask()`. `pc` is the socket call that comes
next. Each outcome of each call is an action: accept with a client, after its
timeout (`NULL`) or on a socket that does not listen (`INVALID`); recv with any
part of what has arrived, at the end of the connection, after its timeout, on
`NULL`; send cell by cell, complete or short; closesocket. The results of
`bind` and `listen` are ignored by the code, so `BindAndListen` goes on in both
cases. `rxBuffer` is modelled cell by cell because one buffer serves all
messages of all clients; a receive writes the units and the NUL and leaves the
rest as it was. All errors of recv are 0 here, as the code tests `xRx <= 0`.
The variable `short` is history: the clients for which a send came up short.

**`TcpClient`** is `linux/tcp_client.c`. `select()` reports a set of descriptors
once; the terminal is read afterwards from the saved set (`typed`). `send()`
blocks (the socket is a blocking one) and therefore does not read meanwhile.

**`EchoService`** is the abstract specification: `Consume` takes units of a
client, `PutOut` puts out a later unit of the same client. The refinement
mapping of `EchoSystem` is `consumed <- taken, out <- echoed`.

**`EchoClient`** is `prvEchoClientTask()` with `prvCreateTxData()` inlined as
the choice of a length, and its peer. The comparison is what `strncmp()`
computes on these buffers: it stops at the NUL that `sprintf()` left behind the
header. `configASSERT()` stops the whole program (`Halted`, `Spin`), unless
`Debugger` is TRUE and somebody releases `vAssertCalled()`. The peer
may echo in pieces, be late, close, vanish, or (a terminal in place of a
server, as `Readme_TapNetworking.md:67` proposes with `nc -l 7`) send
bytes of its own (`Noise`). The increment of
`ulConnections` is a load and a store. The task's Tx buffer holds six segments
and is fresh for each message, so a send is never short here.

**`EchoMonitor`** adds a second task that calls the monitor function over and
over. Each access to a counter is a step; the reads of `ulTxRxCycles` are one
load, as the compiler may do and as the built image does. `ulLastConnections` is
a constant because no line of the source assigns it.

**`Heartbeat`** is `prvTCPHeartbeatTask()` with `linux/tcp_server.c`. A line is
a run of cells `<<number, position>>`. The host accepts one connection in its
life; later connections are queued by its kernel and never read. When the path is
lost, or the task closes its socket (FreeRTOS+TCP tells the other end nothing
when there was no shutdown), the host's end stays as it was, with what has
arrived (`left`): `fd` says whether a segment of the host is under way
(`openSent`) whose answer, or whose lack of an answer, becomes an error of the
next call (`HostTold`, `openReset`), or none (`openDead`). A `send()` on a dead
connection succeeds and puts one under way.

**`LinuxEchoServer`** adds the other host program that listens on the heartbeat
task's port, `linux_tcp_server.c`: which of the two runs is chosen in the initial
state. Its calls block: it is in `recv()` or in `send()`. It learns of a dead
connection by its own echo only; a server that waits in `recv()` with nothing
under way waits for ever (`WaitsUnaware`). Once told, `recv()`
returns -1, or 0 when `send()` has been told of it before (`told`); only the
`n <= 0` of line 39 ends the loop.

**`AppStart`** goes from the reset to the demo task. `Reset_Handler()` copies and
zeroes word by word; of all words the model keeps `heap_end` (in `.data`) and
`xTasksAlreadyCreated` (in `.bss`), which hold anything at power-up and keep
their value over a reset. Each configuration of `app_config.h` is a set of
macros. The network comes up and goes down at any time; the IP task reports it
to the hook in order, one event after the other (`reports`), so that the network
may change while the hook runs. Memory is claimed in two ways. A call of
`pvPortMalloc()` suspends the scheduler around `malloc()`, so its `_sbrk()` is
one step (`Sbrk`), and its failure stops the program. The first `printf()` of
the program is the hook's (`main_networking.c:206`): the C library allocates the
buffer of `stdout` with a `malloc()` of its own, whose lock in `build/output.map` is
that of `libc_nano` and does nothing, so there `_sbrk()` is the load and the
store that it is compiled to (`SbrkReads`, `SbrkWrites`), and other tasks run
between them; or the claim is not needed or fails, and `printf()` goes on without
(`HookPrints`). `claimed` is history: what was given out since the reset; `raced`
too: whether another claim came between the load and the store. A failed
assertion, allocation or a fault ends in `halted`.

**`CortexM3`** holds, as operators on records, the access functions of
`core_cm3.h` (NVIC, priority grouping and encoding, vectors, system reset,
SysTick) and of `cmsis_gcc.h` (core registers, masks), translated one by one,
and the rules of the processor that they are for: what has privilege, what
masks what, what preempts what. Registers keep their words and bits where the
code computes with them (32 interrupts per word, eight bits of priority, of
which `__NVIC_PRIO_BITS` exist, `2^24` of the timer). With the `8` of
`CMSDK_CM3.h:106`, `PriorityStep` is 1.

**`Board`** runs `AppStart` on that processor. The kernel and the driver, which
are outside the repository, are modelled by how the code uses them: a
critical section writes BASEPRI, `vTaskStartScheduler()` gives the timer and the
task switch the lowest priority, the driver enables the Ethernet interrupt.
An exception is taken as soon as it may be (`Quiet` guards every other step).
A handler is found through the vector table of `startup.c`. To unmask and to
return is one step in the model: nothing lies between them that uses
shared data. A step of the program may only happen in thread mode outside of
critical sections; stopping is `StopMask`, the mask that
`vAssertCalled()` and `vApplicationMallocFailedHook()` set before they loop.

**`ExclusiveAccess`** is a counter that threads and handlers increment with
the exclusive loads and stores of `cmsis_gcc.h`. `LDREX`, `STREX` and `CLREX`
are those of the context that runs; `SwitchContext` goes to another one between
any two instructions and clears the monitor. A context keeps what it has
loaded (`loaded`) while others run, and need not store after it has loaded.

**`DebugChannel`** is the debugger's terminal of `core_cm3.h`:
`ITM_ReceiveChar()` and `ITM_SendChar()` access by access, and the debugger that
types, books the output and takes characters from the port in between.
`ITM_SendChar()` has one sender: it tests the port and writes it in two accesses
and is not meant for two.

**`Console`** is `uart_init()` and `_write()` of `syscalls.c`: each task stores its
characters one by one (`todo` is the loop counter), the terminal takes what is
in the UART at any time, or, if `prompt`, always before the next one is stored.

**`MemoryProtection`** is `mpu_armv7.h`: region and attribute words, and
`ARM_MPU_Load()`, which writes a table word by word (`ARM_MPU_OrderedMemcpy`), in
chunks of four rows (`NextChunk`). The functions for one region are operators on
the unit's state; a small memory behind it says what an access is answered
with.

**`Intrinsics`** is the bit operations and saturations of `cmsis_gcc.h`, on words as
sets of bit numbers. **`CmsisFunctions`** states what they and the access
functions of `CortexM3` promise, for inputs that are constants. They do not
depend on the state of the program, so these invariants evaluate in one
initial state (`SwitchedOn`) and hold trivially in the others.

**`MCBoard`** gives the constants their values and runs `Board` or one of the four
machines above: they share no state, so a behaviour is one of one machine
(`machine`), and the others stay as they start. The fairness is the board's.

**`Arithmetic`** (quotients and remainders by a variable, least elements of sets),
**`BoardProofs`**, **`DeviceProofs`** and **`CmsisProofs`**, like the other modules
whose names end so, hold no model, only lemmas and proofs.

**`RandomSource`** is `uxRand()` as the echo client task uses it, preempted by the
IP task's draw of an initial sequence number between its load and its store.
**`MCEchoClient`** runs either `EchoClient` or this generator, as `MCBoard` does:
in `EchoClient` a length is any that the numbers allow, here it is one that the
generator gets to.

In several modules two definitions of the same name stem stand side by side, such as
`SendLen` and `SendLenWhole`: the first is the code, the other a plausible
bug in it, with which the property listed in `PROJECT.json` fails.

## 3. The runs

All twelve finish within three minutes each.

| Run | Asks | Bounds, and why they are enough |
|---|---|---|
| `EchoSystemSafety` | `EchoInOrder`, `LossOnlyWhenShort`, `NoSocketLeak` | Two interchangeable clients (symmetry), two units each, a buffer of three cells (two data and the NUL), room for two units to the server and for one cell back: full receives, messages in pieces, short sends in mid-message, the remains of one client's message in the buffer under a shorter one of the other, a full backlog |
| `EchoSystemBlocked` | `TypeOK`, `ImplementsEchoService`, `BlockedSenderReleased`, `EveryUnitAnswered` | One client that types six units, up to five at a time; three fit into the stream to the server, one more than a receive may take, and one into the stream back: client and server block on each other in `send`, and a session goes on after a short send |
| `EchoSystemWaiting` | `GoneClientReleased`, `WaitingClientServed` | Two clients for the one task, a unit each: the second always finds the first in service |
| `EchoSystemLoss` | `EchoComplete` fails | see section 5 |
| `EchoSystemPhantom` | `NoPhantomClient` fails | see section 5 |
| `EchoClientRounds` | `TypeOK`, `ReplyIsOwn`, `OneVerdictPerConnection`, `OneSocket`, `CycleMeansEcho`, `RoundEnds`; of the generator `RandomTypeOK`, `LengthFound` | Module `MCEchoClient`. Three messages of three or four cells with a header of two (random numbers that are too small or wrap are drawn too), two foreign cells per connection, buffers of six: replies cut inside and behind the header, late and over-long replies. Generator: six-bit numbers of which the top three are used, modulo three; every seed; two lost draws of the IP task |
| `EchoClientBlocked` | `MissingReplyDoesNotBlock` fails | see section 5 |
| `EchoMonitorSafety` | `MonitorTypeOK`, `PassMeansProgress` | Two messages, any number of calls: a call before, between and after both counts, with its steps anywhere in the task's |
| `EchoMonitorInspects` | `MonitorOnlyInspects` fails | see section 5 |
| `Heartbeat` | `TypeOK`, `OneSocket`, `LinesInOrder`, `BlockedHostReleased`, `ResetEndsServer` | Either host program. Lines of two cells, a stream of three (less than two lines, so lines are cut), a counter that wraps at three, room for two bytes to the task, a host that reads and sends two bytes at a time; nothing else is bounded: reconnects go on for ever |
| `AppStartSafety` | `TypeOK`, `OneDemoOnce`, `HeapIntact`, `KernelExclusive`, `MasksNest`, `StoppedStays`, `DemoStarts`, `FrameServed`; of the machines beside it `NoLostUpdate`, `CharactersKept`, `LinesPrinted`, `RegionsLoaded`; of the functions `InterruptsIndependent`, `PrioritiesAgree`, `ContextsKept`, `BitsMoved` | Module `MCBoard`. Two words of `.data` and of `.bss`, the variable in the last one (a loop that stops a word early misses it), a heap of one unit, for which `printf()` and the other tasks compete, two network events (up and down again, also while the hook runs), one reset (so that RAM comes from a run), two ticks or frames (one interrupts the handler of the other), four builds. Three contexts and a counter that wraps at three, up to seven increments: each context meets old values of both others, also one that has come round again. Three characters each way to the debugger: one in the port, one that waits for it, one displayed. Two tasks that print three and two characters: overruns in both lines. Tables of up to ten rows (three chunks) with regions that come again, for a unit that is off and one in use. Functions: interrupts of both words and of the system, all groupings, priorities at the borders of the bytes, all core registers at two values each, words with bits at the edges of bytes |
| `AppStartHeap` | `HeapReserved` fails | see section 5 |

Deadlock is checked except where the model may really stop (`AppStartSafety` and `AppStartHeap`: a halted
program waits for a reset).

The bounds of the models are named constants: `MaxUnits` (units a user types),
`MaxRounds` (messages the echo client sends), `MaxNoise` (foreign cells per
connection), `MaxEvents` (network events), `MaxResets`, `MaxIncr` (memory of one
claim for `pvPortMalloc()`), `MaxInterrupts` (ticks and frames after a reset), `MaxStackDraws`
(draws of the IP task), `MaxStored` (increments done), `MaxChars` (characters to or
from the debugger). All other constants stand for a size in the code, made
small.

### Fairness

* **Server task, echo client task, heartbeat task:** weak fairness of the
  task. Every socket call has a timeout: accept and send have the default of
  5000 ticks (`FreeRTOSIPConfig.h:98-103`), the heartbeat's and the echo
  client's are set in their code, and the echo server's `portMAX_DELAY` is
  2^32 - 1 ticks, not forever, because `FreeRTOSConfig.h:73` sets
  `INCLUDE_vTaskSuspend` to 0. The timeouts are outcomes of the calls in the
  model, with no assumption about which of two racing events comes first.
* **Client processes:** weak fairness of the steps that need neither the user
  nor the discovery of a lost connection. The user may type nothing for ever.
* **Host heartbeat terminal:** only its `send()` is fair: it may stop reading
  at any time.
* **Host echo server:** weak fairness of the steps that wait for nobody
  (`LinuxRuns`): it goes on with what has arrived and with what it sends. What a
  live connection still has to bring, accepting and being killed are not fair.
* **Host's kernel:** weak fairness of `HostTold`: it retransmits a segment that
  nobody acknowledges and gives the connection up in the end, unless a reset
  answers it before. It tells a host nothing that has no segment under way.
* **Echo client's peer, network:** none.
* **`Board`:** weak fairness of the processor (it takes exceptions, runs handlers,
  leaves critical sections, starts the scheduler); strong fairness of the steps of
  `main()` and the hook and of the driver's set-up, because tasks share the
  processor and are interrupted, so that none is enabled all the time, but the
  scheduler gives each its turn. That a task gets its turn at all
  hangs on `MaxInterrupts`: a storm of frames without end could starve all tasks, in
  the model as on the board. Nothing is assumed of the network, the timer, the
  frames and the resets.

`WaitingClientServed` depends on a user who types finitely much: a client that
keeps typing keeps the only server task, by design.

## 4. What is proved

Machine-checked, for every value of the constants. The assumptions are the named
`ASSUME`s of the modules; TLC evaluates them in the runs.

| Module | Theorem | Says |
|---|---|---|
| `EchoSystemProofs` | `TypeCorrect` | `Spec => []TypeOK`. With it, the NUL at `rxBuffer[ xRx ]` and the cells that send reads are inside the buffer |
| | `EchoesInOrder`, `LosesOnlyWhenShort`, `SocketsNotLeaked` | The three invariants of `EchoSystemSafety`, for any set of clients |
| | `Implementation` | `Spec => ImplementsEchoService` |
| `EchoClientProofs` | `TypeCorrect`, `MonitorTypeCorrect` | The task never writes outside its buffers, whatever the peer sends |
| | `RepliesAreOwn` | `Spec => []ReplyIsOwn`: no byte left over from an earlier message is compared |
| | `VerdictsAreSingle`, `SocketsAreClosed` | One verdict and one socket per connection |
| | `CyclesAreEchoes` | `Spec => CycleMeansEcho`, an action property |
| | `PassIsProgress` | `MonitoredSpec => []PassMeansProgress` |
| `HeartbeatProofs` | `TypeCorrect`, `SocketsAreClosed`, `LinesArriveInOrder` | With either host program, for any line, counter and buffers |
| `RandomSourceProofs` | `TypeCorrect` | The numbers keep their width, also over a lost draw |
| `BoardProofs` | `TypeCorrect`, `OneDemoStarts`, `HeapStaysIntact` | For any sections, heap, contents of RAM, events, claims and resets. The break never leaves the heap, also when two claims interleave; it is just above what is claimed when none did |
| | `KernelIsExclusive` | With the priorities of the repository, for any number of ticks, frames and faults, nested in any way |
| | `StoppedForGood` | `BoardSpec => StoppedStays`, an action property |
| | `MaskedSectionsNest` | `MasksNest`, and the same for all 256 masks |
| `DeviceProofs` | `UpdatesAreKept` | `CounterSpec => []NoLostUpdate`, for any contexts, counter and number of increments |
| | `CharactersAreKept` | `ChannelSpec => []CharactersKept`, for any number of characters |
| | `LinesArePrinted` | `ConsoleSpec => []LinesPrinted`, for any tasks and lines |
| | `RegionsAreLoaded` | `LoadSpec => []RegionsLoaded`, for every table, however long, and every state of the unit and of memory |
| `CmsisProofs` | `InterruptsAreIndependent` | For up to 240 interrupts and every state of the controller |
| | `PrioritiesAgreed` | For every number of implemented bits, grouping, priority, period and count |
| | `ContextsAreKept` | For every two states of the core registers, every mask and all flags |
| | `BitsAreMoved` | For every word, number of places, value and limit |

**The echo server.** That the server echoes the right units does not follow from
the state of the streams alone: it depends on what the buffer holds while a send
runs. The strengthening is `BufferFresh`: while the task sends to client `c`,
cell `i` of the message in `rxBuffer` is unit `taken[c] - xRx + i + 1` of `c`.
A receive establishes it whatever was in the buffer before, and nothing else
writes the buffer. With it, the next cell a send queues is unit
`taken[c] - Pending(c) + 1` of the right client, greater than every unit
queued so far, so `EchoInOrder` is kept; the same cell is one that
`LossOnlyWhenShort` counts off `Pending`. Together these parts are `StreamInv`,
inductive over `TypeOK`. `Implementation` uses the same facts: `SendUnit` is a
`PutOut`, `RecvData` a `Consume`, and every other step leaves both mapped
variables alone. `SocketsNotLeaked` has an invariant of its own, `SocketInv`: a
waiting client has a child socket, and an accepted child is the one that the
running session holds. The assumptions are `StackAssumption` (streams and backlog
have room for at least one; the NUL is not a unit), `ServerAssumption` (the
buffer has at least two bytes; NULL and FREERTOS_INVALID_SOCKET are different
and neither is a client's socket) and `ClientAssumption`.

**The echo client.** `ReplyIsOwn` is not inductive: a late reply could be in the
stream when the next message is sent. The invariant (`Streams`) is about all bytes
under way: the `i`-th of what the task has received and what is on its way back,
taken together, is foreign or a byte of the current message, moved back by as many
places as there were foreign bytes at most; what is on its way out is the
message's end. Before a message is sent there are foreign bytes only, because a
connection starts with empty streams. The counters have an invariant of their own
(`Verdicts`), which relates them to the place in the round. The monitor's part
needs that `ulTxRxCycles` only grows.

**The heartbeat.** Neighbouring cells of the stream succeed one another, the first
one succeeds the last one read, and the last one precedes what the task sends
next: that is inductive, also when a line is cut and when the counter wraps.

**The board.** `AppInv` says how far the words have been filled and what the hook
remembers: `HeapIntact` and `OneDemoOnce` are not inductive without the place
in `.data` and `.bss` that the loops have reached, nor without the room that
a claim under way has found (`prev_heap_end`). `BoardInv` says who may be where:
at most one is in the kernel's data, it is the innermost of the active
exceptions (or has a fault on top of it) and BASEPRI is set; and the registers hold
the priorities written. `KernelIsExclusive` follows; that
the Ethernet interrupt's 5 is not more urgent than the mask's 4 is
used in one place. `BoardAssumption` asks that the mask's 4 has an implemented
bit: `FreeRTOSConfig.h:80` warns that it must not be zero, and with three
unimplemented bits it would read as zero. `ProgramRuns` shows that `BoardSpec`
implements `AppStart`'s `Spec`, and carries the invariants of `AppStart` over.
`MaskedSectionsNest` needs of `BoardInv` what the registers hold: the core has
privilege, PRIMASK is clear and BASEPRI is 0 or the kernel's mask.

**Below the tasks.** `NoLostUpdate` is not inductive: a context that was left for
another one holds an old value. `CounterInv` adds that, while the monitor is set,
the context that runs holds what is in memory; whoever else loaded must load
again. `CharactersKept` needs who holds the next character: `InputInv` says that
one the program has read is still in the buffer until it is emptied, so that
none is typed over it, and `OutputInv` that what waits in the port is newer than all
that is displayed, and what the program is about to write newer still. For `LinesPrinted`,
`ConsoleInv` says that the character in the UART is a later one of its task than all
that were shown, and that an overrun, noted at the very store that loses one,
is the only way for a stored character to be missing. `LoadInv` keeps what
half a row leaves behind: between its two words RNR selects the region of that row, and
`skipped` and `words` count the same words whatever the chunks are. A
property that quantifies over the rows of a table is kept row by row
(`LastRow`), so no induction over the table is needed.

**The functions of the headers.** Their properties do not change with the state;
what the theorems add to the runs is all inputs. That a priority that is encoded for
a grouping preempts as its parts say comes from `Split`: sub-priorities,
preemption priorities and the unimplemented bits multiply to the 256 of a byte, and
the grouping cuts at the place between the two parts (or below both), so the
group priority of a byte is a multiple of its first part alone
(`GroupedByte`). The tick is not followed count by count, which would be an
induction: `After` says where the counter stands after any number of counts, and
the counter goes from each such state to the next. Where a proof does need a
first or last one (the leading zeros of a word), `LeastNatural`
takes it from a set.

The assumptions of these two modules are the ranges the hardware has:
`ExclusiveAssumption`, `ChannelAssumption`, `ConsoleAssumption`,
`MpuAssumption` (tables are made with the macros, whose base addresses are
`VALID`), `PriorityAssumption` (one to eight implemented bits) and
`CmsisAssumption` (registers of the size they have, stack pointers at words).

Not proved but model-checked only:

* All liveness properties (`RoundEnds`, `WaitingClientServed`, `DemoStarts`,
  `FrameServed`, `LengthFound` and so on): they need fairness and ENABLED,
  which the prover does not handle.
* The five runs that end in a violation.

`TcpStack`, the peers, the kernel's and the driver's part of `Board` and the
processor are assumptions about what is outside the repository: what is proved is
proved of the programs over that environment.

## 5. Where the code and its text differ

* **`EchoSystemLoss`.** `DEMO_Instructions.txt:102` promises that data sent from
  Linux is echoed back. `demo_echo_server.c:104` ignores how much
  `FreeRTOS_send()` took: a client that does not read for five seconds loses
  the rest of the message on a connection that stays up.
  What the code does guarantee is `LossOnlyWhenShort`.
* **`EchoSystemPhantom`.** "Block until client connects" (line 68): accept
  gives up after 5000 ticks with NULL, the code compares with
  `FREERTOS_INVALID_SOCKET`, prints "Client connected" and receives on NULL.
  It recovers (`NoSocketLeak` holds): recv fails at once.
* **`EchoClientBlocked`.** The receive timeout is there "so a missing reply does
  not cause the task to block indefinitely" (lines 185-186). When it leaves fewer bytes
  than the header, `configASSERT()` at line 270 stops the program.
* **`EchoMonitorInspects`.** The counters are "for inspection only" (line 98),
  and line 389 assigns `ulConnections[ x ] = ulLastConnections[ x ]`, the wrong
  way round: each call that passes sets the counter to zero.
* **`AppStartHeap`.** `_sbrk()` is there "to reserve memory on the heap"
  (`syscalls.c:145`). A task that preempts the hook's first `printf()` between
  the load and the store of `heap_end`, such as the driver's when it allocates a
  network buffer, is given the memory that `printf()` is given too, and
  `heap_end` falls back behind it. `HeapIntact` is what remains. The library's
  own list of free blocks has no better lock; it is not in the repository and not
  modelled.

A limit rather than a divergence: `linux_tcp_server.c:38` waits in `recv()` for
ever when the path is lost while nothing of its own is under way
(`WaitsUnaware`).

Some more that no run shows. `DEMO_Instructions.txt:48-52` selects the heartbeat
demo with `APP_DEMO_HEARTBEAT`, while `app_main.c:11` tests `DEMO_HEARTBEAT`:
those lines alone start no demo. A reply cut behind its header compares equal
(`strncmp` looks no further) and counts as a cycle; `CycleMeansEcho` says what the
count does mean. `SysTick_Config( 1 )` succeeds, and the timer never ticks.
`_sbrk()` does not compare a negative increment with the bottom of the heap; it
relies on a library that gives back no more than it holds (the allocator of
`libc_nano`, which the image uses, only claims, so the model has no negative ones). `_write()` returns
`len` although a slow terminal may have cost characters; only the status
register, which nothing reads, knows.

## 6. What is not modelled

* `app/demo_selector.c`, `app/network_role.c`: not linked, they call functions
  that no file defines.
* Parts of the CMSIS headers: what is compiled for other cores only (TrustZone,
  ARMv8-M stack limits, floating point, SIMD), barriers and hints (they order
  accesses that the model takes in order), compiler attributes, the other debug
  and trace units (DWT, TPI, CoreDebug: registers without a function), and the
  peripheral registers of `SMM_MPS2.h` and `CMSDK_CM3.h` other than the UART's,
  which no code in the repository uses.
* `vApplicationStackOverflowHook()`, the idle and the tick hook: switched off
  by `FreeRTOSConfig.h`.
* `mps2_m3.ld`, Makefile, scripts, the exit by semihosting.
* What is printed (the console carries numbered characters), addresses, the DHCP
  and DNS hooks that return constants, tick values.
* FreeRTOS and FreeRTOS+TCP inside: the scheduler's choice of a task,
  retransmission, windows, buffers, ARP.

## 7. Plan

The order was: the echo server with its clients and its proofs; the echo client and
its monitor, the heartbeat pair, the boot sequence and the generator; their
proofs; the second host server; the start-up code, the processor, its headers
and the console under them; and last the proofs of these, after what
interleaves there had become state machines. Every invariant and action property that
a run checks now has a theorem. What could follow:

1. The retry of the heartbeat task's first connect composed with
   `AppStart`: its socket may be asked for before the end point is up again.
2. Two echo client tasks (`echoNUM_ECHO_CLIENTS` is 1 in the source), which would
   share the generator and, through `nc -l 7`, one peer.
