-------------------------------- MODULE AppStart ------------------------------
(***************************************************************************)
(* From reset to the demo task.  Reset_Handler() fills .data and .bss,     *)
(* _start() sets up the UART, main_tcp_network_init() brings up the IP     *)
(* stack and the scheduler, and the network event hook, which the IP task  *)
(* calls each time the network comes up or goes down, starts the demo that *)
(* app_config.h selects.  Meanwhile malloc() claims memory with _sbrk():   *)
(* for pvPortMalloc(), and once for printf().                              *)
(*                                                                         *)
(* RAM holds anything when the power comes on, and keeps what it holds     *)
(* over a reset.  Of .data the model keeps heap_end, of .bss               *)
(* xTasksAlreadyCreated, each at the place of its word in the section.     *)
(***************************************************************************)
EXTENDS Integers, FiniteSets, Sequences

CONSTANTS
  Builds,          (* the sets of macros app_config.h may define as 1        *)
  DataWords,       (* words from _sdata to _edata                            *)
  HeapEndAt,       (* the word of .data that is heap_end                     *)
  BssWords,        (* words from _sbss to _ebss                              *)
  TasksCreatedAt,  (* the word of .bss that is xTasksAlreadyCreated          *)
  HeapTop,         (* _heap_top, counted from _heap_bottom                   *)
  BufferSize,      (* what printf() claims for the buffer of stdout          *)
  MaxIncr,         (* bound of the model: memory claimed for pvPortMalloc()  *)
  MaxEvents,       (* bound of the model: network events after a reset       *)
  MaxResets        (* bound of the model: resets                             *)

Macros == {"APP_ROLE_CLIENT", "APP_ROLE_SERVER", "DEMO_ECHO", "DEMO_HEARTBEAT"}

ASSUME AppStartAssumption ==
  /\ Builds \subseteq SUBSET Macros
  /\ DataWords \in Nat /\ HeapEndAt \in 1 .. DataWords
  /\ BssWords \in Nat /\ TasksCreatedAt \in 1 .. BssWords
  /\ HeapTop \in Nat /\ BufferSize \in Nat /\ MaxIncr \in Nat
  /\ MaxEvents \in Nat /\ MaxResets \in Nat

Demos == {"heartbeat", "echoClient", "echoServer"}
Event == {"eNetworkUp", "eNetworkDown"}
Started == {"main", "ipInit", "running", "halted"}

VARIABLES
  config,       (* the macros app_config.h defines as 1: fixed by the build  *)
  boot,         (* how far the program has come                              *)
  dest,         (* the word Reset_Handler() writes next                      *)
  uart,         (* whether the transmitter of the UART is on                 *)
  heap_end,
  prev_heap_end,  (* of the claim of printf() that is under way              *)
  claimed,      (* history: what the C library has claimed since _start()    *)
  raced,        (* history: another claim came into that of printf()         *)
  network,      (* whether the network is up                                 *)
  reports,      (* network events the IP task has not called the hook for    *)
  hook,         (* what the IP task does in the hook                         *)
  xTasksAlreadyCreated,
  tasks,        (* tasks[d]: tasks created for demo d                        *)
  events,       (* network events since the reset                            *)
  resets

startup == <<dest, uart>>
heap == <<heap_end, prev_heap_end, claimed, raced>>
demo == <<network, reports, hook, xTasksAlreadyCreated, tasks, events>>
vars == <<config, boot, startup, heap, demo, resets>>

TypeOK ==
  /\ config \in Builds
  /\ boot \in {"copy", "zero", "start"} \cup Started
  /\ dest \in 1 .. 1 + DataWords + BssWords
  /\ uart \in BOOLEAN
  /\ {heap_end, prev_heap_end} \subseteq 0 .. HeapTop
  /\ claimed \in Nat
  /\ raced \in BOOLEAN
  /\ network \in {"up", "down"}
  /\ reports \in Seq(Event) /\ Len(reports) <= events
  /\ hook \in {"idle", "print", "claim", "start", "created"}
  /\ xTasksAlreadyCreated \in BOOLEAN
  /\ tasks \in [Demos -> {0, 1}]
  /\ events \in 0 .. MaxEvents
  /\ resets \in 0 .. MaxResets

Init ==
  /\ config \in Builds
  /\ boot = "copy"
  /\ dest = 1
  /\ uart = FALSE
  /\ heap_end \in 0 .. HeapTop
  /\ prev_heap_end = 0
  /\ claimed = 0
  /\ raced = FALSE
  /\ network = "down"
  /\ reports = <<>>
  /\ hook = "idle"
  /\ xTasksAlreadyCreated \in BOOLEAN
  /\ tasks = [d \in Demos |-> 0]
  /\ events = 0
  /\ resets = 0
-------------------------------------------------------------------------------
(* Reset_Handler(): .data is copied from flash, then .bss is zeroed.       *)
CopyMoreShort == dest < DataWords
CopyMore == dest <= DataWords
ZeroMoreShort == dest < BssWords
ZeroMore == dest <= BssWords

CopyWord ==
  /\ boot = "copy"
  /\ CopyMore
  /\ dest' = dest + 1
  /\ heap_end' = IF dest = HeapEndAt THEN 0 ELSE heap_end
  /\ UNCHANGED <<config, boot, uart, prev_heap_end, claimed, raced, demo, resets>>

CopyEnds ==
  /\ boot = "copy"
  /\ ~CopyMore
  /\ boot' = "zero"
  /\ dest' = 1
  /\ UNCHANGED <<config, uart, heap, demo, resets>>

ZeroWord ==
  /\ boot = "zero"
  /\ ZeroMore
  /\ dest' = dest + 1
  /\ xTasksAlreadyCreated' = (dest # TasksCreatedAt /\ xTasksAlreadyCreated)
  /\ UNCHANGED <<config, boot, uart, heap, network, reports, hook, tasks, events,
                 resets>>

ZeroEnds ==
  /\ boot = "zero"
  /\ ~ZeroMore
  /\ boot' = "start"
  /\ UNCHANGED <<config, startup, heap, demo, resets>>

(* _start() calls uart_init() and main().                                  *)
Start ==
  /\ boot = "start"
  /\ uart' = TRUE
  /\ boot' = "main"
  /\ UNCHANGED <<config, dest, heap, demo, resets>>

EnterInit ==
  /\ boot = "main"
  /\ boot' = "ipInit"
  /\ UNCHANGED <<config, startup, heap, demo, resets>>

(* configASSERT( xReturn == pdTRUE ), then the scheduler.                  *)
IPInit ==
  /\ boot = "ipInit"
  /\ boot' \in {"running", "halted"}
  /\ UNCHANGED <<config, startup, heap, demo, resets>>
-------------------------------------------------------------------------------
(* vApplicationStart() and vStartEchoDemo(): the demos this build starts.  *)
Selected ==
  IF "DEMO_HEARTBEAT" \in config THEN {"heartbeat"}
  ELSE IF "DEMO_ECHO" \notin config THEN {}
  ELSE IF "APP_ROLE_CLIENT" \in config THEN {"echoClient"}
  ELSE IF "APP_ROLE_SERVER" \in config THEN {"echoServer"}
  ELSE {}

HookStartsAlways(event) == event = "eNetworkUp"
HookStarts(event) == event = "eNetworkUp" /\ ~xTasksAlreadyCreated

(* The network comes up and goes down at any time.  The IP task calls the  *)
(* hook for each event in turn, when it is through with the one before.    *)
NetworkEvent(event) ==
  /\ boot = "running"
  /\ events < MaxEvents
  /\ events' = events + 1
  /\ network' = IF event = "eNetworkUp" THEN "up" ELSE "down"
  /\ reports' = Append(reports, event)
  /\ UNCHANGED <<config, boot, startup, heap, hook, xTasksAlreadyCreated, tasks,
                 resets>>

CallHook ==
  /\ boot = "running"
  /\ hook = "idle"
  /\ reports # <<>>
  /\ hook' = IF HookStarts(Head(reports)) THEN "print" ELSE "idle"
  /\ reports' = Tail(reports)
  /\ UNCHANGED <<config, boot, startup, heap, network, xTasksAlreadyCreated, tasks,
                 events, resets>>

(* xTaskCreate() may find the heap exhausted: vApplicationMallocFailedHook *)
(* stops the program.                                                      *)
StartDemo ==
  /\ boot = "running"
  /\ hook = "start"
  /\ \/ /\ tasks' = [d \in Demos |-> IF d \in Selected THEN tasks[d] + 1
                                                       ELSE tasks[d]]
        /\ hook' = "created"
        /\ boot' = boot
     \/ /\ Selected # {}
        /\ boot' = "halted"
        /\ UNCHANGED <<tasks, hook>>
  /\ UNCHANGED <<config, startup, heap, network, reports, xTasksAlreadyCreated, events,
                 resets>>

SetCreated ==
  /\ boot = "running"
  /\ hook = "created"
  /\ xTasksAlreadyCreated' = TRUE
  /\ hook' = "idle"
  /\ UNCHANGED <<config, boot, startup, heap, network, reports, tasks, events,
                 resets>>
-------------------------------------------------------------------------------
(* _sbrk() for pvPortMalloc(), which suspends the scheduler around         *)
(* malloc(): one step.  When it fails, pvPortMalloc() calls                *)
(* vApplicationMallocFailedHook().                                         *)
SbrkFitsUnchecked(incr) == TRUE
SbrkFits(incr) == heap_end + incr <= HeapTop

Sbrk(incr) ==
  /\ boot \in {"ipInit", "running"}
  /\ \/ /\ SbrkFits(incr)
        /\ heap_end' = heap_end + incr
        /\ claimed' = claimed + incr
        /\ boot' = boot
     \/ /\ ~SbrkFits(incr)
        /\ boot' = "halted"
        /\ UNCHANGED <<heap_end, claimed>>
  /\ UNCHANGED <<config, startup, prev_heap_end, raced, demo, resets>>

(* The first printf() is that of the hook.  It wants a buffer for stdout   *)
(* and calls malloc() itself, with no lock: other tasks, which may claim   *)
(* memory, run between the load and the store of heap_end in _sbrk().  If  *)
(* there is a free block, or no room, it does without a claim.             *)
HookPrints ==
  /\ boot = "running"
  /\ hook = "print"
  /\ hook' = "start"
  /\ UNCHANGED <<config, boot, startup, heap, network, reports, xTasksAlreadyCreated,
                 tasks, events, resets>>

SbrkReads ==
  /\ boot = "running"
  /\ hook = "print"
  /\ SbrkFits(BufferSize)
  /\ prev_heap_end' = heap_end
  /\ hook' = "claim"
  /\ UNCHANGED <<config, boot, startup, heap_end, claimed, raced, network, reports,
                 xTasksAlreadyCreated, tasks, events, resets>>

SbrkWrites ==
  /\ boot = "running"
  /\ hook = "claim"
  /\ heap_end' = prev_heap_end + BufferSize
  /\ claimed' = claimed + BufferSize
  /\ raced' = (raced \/ heap_end # prev_heap_end)
  /\ prev_heap_end' = 0
  /\ hook' = "start"
  /\ UNCHANGED <<config, boot, startup, network, reports, xTasksAlreadyCreated, tasks,
                 events, resets>>

(* A fault of the program: Default_Handler() to Default_Handler6() loop.   *)
Fault ==
  /\ boot = "running"
  /\ boot' = "halted"
  /\ UNCHANGED <<config, startup, heap, demo, resets>>

(* The reset button, or the reset vector: the peripherals and the tasks    *)
(* are gone, RAM stays.                                                    *)
Reset ==
  /\ boot # "copy"
  /\ resets < MaxResets
  /\ resets' = resets + 1
  /\ boot' = "copy"
  /\ dest' = 1
  /\ uart' = FALSE
  /\ prev_heap_end' = 0
  /\ claimed' = 0
  /\ raced' = FALSE
  /\ network' = "down"
  /\ reports' = <<>>
  /\ hook' = "idle"
  /\ tasks' = [d \in Demos |-> 0]
  /\ events' = 0
  /\ UNCHANGED <<config, heap_end, xTasksAlreadyCreated>>

Main == CopyWord \/ CopyEnds \/ ZeroWord \/ ZeroEnds \/ Start
          \/ EnterInit \/ IPInit \/ CallHook \/ HookPrints \/ SbrkReads \/ SbrkWrites
          \/ StartDemo \/ SetCreated

Next ==
  \/ Main
  \/ \E event \in Event : NetworkEvent(event)
  \/ \E incr \in 1 .. MaxIncr : Sbrk(incr)
  \/ Fault
  \/ Reset

Spec == Init /\ [][Next]_vars
-------------------------------------------------------------------------------
(* However often the network comes up and goes down, at most one task is   *)
(* ever started, and it is the one of the demo the build has selected: two *)
(* tasks would share the static buffers of the client, or port 5001.       *)
OneDemoOnce ==
  \A d \in Demos : tasks[d] <= (IF d \in Selected THEN 1 ELSE 0)

(* Once the network has been up, the selected demo is started, also when   *)
(* the network goes down again while the hook runs, and also after a reset *)
(* of a board on which a demo had been started before.                     *)
DemoStarts ==
  (network = "up") ~>
    (boot \in {"halted", "copy"} \/ \A d \in Selected : tasks[d] > 0)

(* From main() on, whatever RAM held before the reset, heap_end is inside  *)
(* the heap, below the stack, and just above the memory that malloc() has  *)
(* claimed - unless another task has claimed memory between the load and   *)
(* the store of printf()'s own call of _sbrk().                            *)
HeapIntact ==
  boot \in Started => heap_end <= HeapTop /\ (~raced => heap_end = claimed)

(* What syscalls.c:145-148 says of _sbrk(): each call reserves memory, from *)
(* the previous top of the heap on.  No memory is then claimed twice, and  *)
(* heap_end is above all that is claimed.                                  *)
HeapReserved == boot \in Started => claimed <= heap_end
===============================================================================
