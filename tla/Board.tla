--------------------------------- MODULE Board --------------------------------
(***************************************************************************)
(* The program on its processor.  main_tcp_network_init() sets the         *)
(* priority of the Ethernet interrupt; the kernel and the driver, which    *)
(* are not in the repository, set up the rest.  From then on the threads   *)
(* of AppStart are interrupted by the timer, by the kernel's task switch   *)
(* and by Ethernet frames, whose handlers all enter the kernel's data.     *)
(* BASEPRI keeps them apart, and it is what stops the program when an      *)
(* assertion or an allocation fails.                                       *)
(*                                                                         *)
(* An exception is taken as soon as it can be: no other step of the        *)
(* processor comes first.                                                  *)
(***************************************************************************)
EXTENDS AppStart, CortexM3

CONSTANT
  MaxInterrupts (* bound of the model: ticks and frames after a reset        *)

VARIABLES
  nvic,         (* the interrupt controller                                  *)
  pend,         (* the system exceptions that are pending                    *)
  cpu,          (* the core registers                                        *)
  active,       (* the exceptions being handled, the innermost one first     *)
  section,      (* who is in the kernel's data: the exception, 0 for a task *)
  scheduler,    (* whether the first task has been started                   *)
  interrupts    (* ticks and frames since the reset                          *)

processor == <<nvic, pend, cpu, active, section, scheduler, interrupts>>
boardVars == <<vars, processor>>

(* FreeRTOSConfig.h.                                                       *)
configKERNEL_INTERRUPT_PRIORITY == 255
configMAX_SYSCALL_INTERRUPT_PRIORITY == 4
configMAC_INTERRUPT_PRIORITYUrgent == 3
configMAC_INTERRUPT_PRIORITY == 5

(* The mask has an implemented bit: written as zero it would mask nothing. *)
ASSUME BoardAssumption ==
  /\ MaxInterrupts \in Nat
  /\ PriorityStep <= configMAX_SYSCALL_INTERRUPT_PRIORITY

Thread == 0
HardFault == Exception(HardFault_IRQn)
SVCall == Exception(SVCall_IRQn)
PendSV == Exception(PendSV_IRQn)
SysTick == Exception(SysTick_IRQn)
Ethernet == Exception(ETHERNET_IRQn)

BoardInit ==
  /\ Init
  /\ nvic = RegisterFile({ETHERNET_IRQn})
  /\ pend = {}
  /\ cpu = CoreReset
  /\ active = <<>>
  /\ section = {}
  /\ scheduler = FALSE
  /\ interrupts = 0

BoardReset ==
  /\ Reset
  /\ nvic' = RegisterFile({ETHERNET_IRQn})
  /\ pend' = {}
  /\ cpu' = CoreReset
  /\ active' = <<>>
  /\ section' = {}
  /\ scheduler' = FALSE
  /\ interrupts' = 0
-------------------------------------------------------------------------------
(* What the hardware takes: the most urgent pending exception that is not  *)
(* masked and more urgent than what runs.                                  *)
Pending ==
  pend \cup {Exception(irq) : irq \in {i \in {ETHERNET_IRQn} :
                                GetPendingIRQ(nvic, i) /\ GetEnableIRQ(nvic, i)}}

Preempts(e) ==
  /\ e \in Pending
  /\ ~Masks(nvic, cpu, e)
  /\ active # <<>> => ExceptionGroup(nvic, e) < ExceptionGroup(nvic, active[1])

MoreUrgent(e, f) ==
  \/ ExceptionPriority(nvic, e) < ExceptionPriority(nvic, f)
  \/ ExceptionPriority(nvic, e) = ExceptionPriority(nvic, f) /\ e <= f

Quiet == \A e \in Pending : ~Preempts(e)

TakeException(e) ==
  /\ Preempts(e)
  /\ \A f \in Pending : Preempts(f) => MoreUrgent(e, f)
  /\ pend' = pend \ {e}
  /\ nvic' = IF e < 16 THEN nvic ELSE ActivateIRQ(nvic, IRQ(e))
  /\ active' = <<e>> \o active
  /\ cpu' = [cpu EXCEPT !.IPSR = e]
  /\ UNCHANGED <<vars, section, scheduler, interrupts>>

(* The tick, frames, and faults of the program.                            *)
Tick ==
  /\ scheduler
  /\ interrupts < MaxInterrupts
  /\ interrupts' = interrupts + 1
  /\ pend' = pend \cup {SysTick}
  /\ UNCHANGED <<vars, nvic, cpu, active, section, scheduler>>

FrameArrives ==
  /\ boot \in {"running", "halted"}
  /\ interrupts < MaxInterrupts
  /\ interrupts' = interrupts + 1
  /\ nvic' = SetPendingIRQ(nvic, ETHERNET_IRQn)
  /\ UNCHANGED <<vars, pend, cpu, active, section, scheduler>>

FaultRaised ==
  /\ boot = "running"
  /\ HardFault \notin pend
  /\ \A i \in DOMAIN active : active[i] # HardFault
  /\ pend' = pend \cup {HardFault}
  /\ UNCHANGED <<vars, nvic, cpu, active, section, scheduler, interrupts>>
-------------------------------------------------------------------------------
(* taskDISABLE_INTERRUPTS() and taskENTER_CRITICAL(), with which           *)
(* vAssertCalled() and vApplicationMallocFailedHook() begin.               *)
Mask(c) == set_BASEPRI(c, configMAX_SYSCALL_INTERRUPT_PRIORITY)
StopMaskForgotten(c) == c
StopMask(c) == Mask(c)

InThread == active = <<>> /\ Quiet /\ section = {}

(* A step of AppStart.  main_tcp_network_init() sets the priority of the   *)
(* Ethernet interrupt; IPInit_Multi() creates the first tasks and leaves   *)
(* the mask on until the scheduler starts.                                 *)
ProgramStep ==
  /\ InThread
  /\ boot = "running" => scheduler
  /\ \/ Main
     \/ \E event \in Event : NetworkEvent(event)
     \/ \E incr \in 1 .. MaxIncr : Sbrk(incr)
  /\ nvic' = IF boot' = "ipInit" /\ boot = "main"
             THEN SetPriority(nvic, ETHERNET_IRQn, configMAC_INTERRUPT_PRIORITY)
             ELSE nvic
  /\ cpu' = IF boot' = "halted" THEN StopMask(cpu)
            ELSE IF boot' = "running" /\ boot = "ipInit" THEN Mask(cpu)
            ELSE cpu
  /\ UNCHANGED <<pend, active, section, scheduler, interrupts>>

(* vTaskStartScheduler(): the timer runs, and SVC starts the first task.   *)
StartScheduler ==
  /\ InThread
  /\ boot = "running"
  /\ ~scheduler
  /\ nvic' = SetPriority(SetPriority(nvic, PendSV_IRQn, configKERNEL_INTERRUPT_PRIORITY),
                         SysTick_IRQn, configKERNEL_INTERRUPT_PRIORITY)
  /\ pend' = pend \cup {SVCall}
  /\ scheduler' = TRUE
  /\ UNCHANGED <<vars, cpu, active, section, interrupts>>

(* The driver of the Ethernet controller, called by the IP task.           *)
EnableEthernet ==
  /\ InThread
  /\ boot = "running" /\ scheduler
  /\ nvic' = EnableIRQ(nvic, ETHERNET_IRQn)
  /\ UNCHANGED <<vars, pend, cpu, active, section, scheduler, interrupts>>

(* A task in a function of the kernel.                                     *)
ThreadEnters ==
  /\ InThread
  /\ boot = "running" /\ scheduler
  /\ section' = {Thread}
  /\ cpu' = Mask(cpu)
  /\ UNCHANGED <<vars, nvic, pend, active, scheduler, interrupts>>

ThreadLeaves ==
  /\ active = <<>> /\ Quiet
  /\ Thread \in section
  /\ section' = section \ {Thread}
  /\ cpu' = set_BASEPRI(cpu, 0)
  /\ UNCHANGED <<vars, nvic, pend, active, scheduler, interrupts>>
-------------------------------------------------------------------------------
(* The handlers.  The kernel's, and the driver's through the FromISR       *)
(* functions, mask what could preempt them while they use the kernel's     *)
(* data; the default handlers, prvGetRegistersFromStack() included, loop.  *)
Handler == GetVector(isr_vector, IRQ(active[1]))
Running == active # <<>> /\ Quiet

Return(mask) ==
  LET below == Tail(active)
      back == [cpu EXCEPT !.IPSR = IF below = <<>> THEN 0 ELSE below[1]]
  IN  /\ active' = below
      /\ cpu' = [back EXCEPT !.BASEPRI = mask]
      /\ nvic' = IF active[1] < 16 THEN nvic ELSE DeactivateIRQ(nvic, IRQ(active[1]))

StartFirstTask ==
  /\ Running
  /\ Handler = "vPortSVCHandler"
  /\ Return(0)
  /\ UNCHANGED <<vars, pend, section, scheduler, interrupts>>

DefaultHandlerLoops ==
  /\ Running
  /\ Handler = "Default_Handler2"
  /\ Fault
  /\ UNCHANGED processor

HandlerEnters ==
  /\ Running
  /\ Handler \in {"xPortPendSVHandler", "xPortSysTickHandler", "EthernetISR"}
  /\ active[1] \notin section
  /\ section' = section \cup {active[1]}
  /\ cpu' = Mask(cpu)
  /\ UNCHANGED <<vars, nvic, pend, active, scheduler, interrupts>>

(* A task that the tick or the frame has woken may be switched to.         *)
HandlerReturns ==
  /\ Running
  /\ active[1] \in section
  /\ section' = section \ {active[1]}
  /\ Return(0)
  /\ pend' \in {pend} \cup
       (IF Handler = "xPortPendSVHandler" THEN {} ELSE {pend \cup {PendSV}})
  /\ UNCHANGED <<vars, scheduler, interrupts>>

Processor ==
  \/ \E e \in Pending : TakeException(e)
  \/ StartFirstTask \/ DefaultHandlerLoops \/ HandlerEnters \/ HandlerReturns
  \/ ThreadLeaves \/ StartScheduler

BoardNext ==
  \/ Processor \/ ProgramStep \/ EnableEthernet \/ ThreadEnters
  \/ Tick \/ FrameArrives \/ FaultRaised \/ BoardReset

BoardSpec == BoardInit /\ [][BoardNext]_boardVars

(* The processor runs; tasks share it, and none is forgotten.              *)
FairBoardSpec ==
  /\ BoardSpec
  /\ WF_boardVars(Processor)
  /\ SF_boardVars(ProgramStep /\ Main)
  /\ SF_boardVars(EnableEthernet)
-------------------------------------------------------------------------------
(* Two never use the kernel's data at a time: a tick, a task switch or a   *)
(* frame whose handler preempts a task, or another handler, does so only   *)
(* while that one is outside of it.  This hangs on the number that         *)
(* main_networking.c:131 gives the Ethernet interrupt.                     *)
KernelExclusive == Cardinality(section) <= 1

(* After a failed assertion or allocation, or a fault, all stands still: no *)
(* handler uses the kernel any more, so no other task takes over.          *)
StoppedStays == [][boot = "halted" => section' \subseteq section]_boardVars

(* A frame is handled, once the driver is up, unless the program stops or  *)
(* the board is reset.                                                     *)
FrameServed ==
  GetPendingIRQ(nvic, ETHERNET_IRQn) ~>
    \/ ~GetPendingIRQ(nvic, ETHERNET_IRQn)
    \/ boot \in {"halted", "copy"}

(* From any state the program reaches: raising the mask with BASEPRI_MAX   *)
(* never lets through what was masked, and restoring BASEPRI and PRIMASK   *)
(* brings back what was there, so that masked sections nest; code without  *)
(* privilege changes neither.                                              *)
MaskNests(priority) ==
  LET raised == set_BASEPRI_MAX(cpu, priority)
      all == disable_irq(raised)
      user == [cpu EXCEPT !.nPRIV = 1]
  IN  /\ \A e \in {SVCall, PendSV, SysTick, Ethernet} :
           Masks(nvic, cpu, e) => Masks(nvic, raised, e) /\ Masks(nvic, all, e)
      /\ set_PRIMASK(set_BASEPRI(all, get_BASEPRI(cpu)), get_PRIMASK(cpu)) = cpu
      /\ user.IPSR = 0 =>
           set_BASEPRI_MAX(user, priority) = user /\ enable_irq(user) = user
MasksNest == \A priority \in 0 .. 6 : MaskNests(priority)
===============================================================================
