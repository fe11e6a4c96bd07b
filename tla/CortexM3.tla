-------------------------------- MODULE CortexM3 ------------------------------
(***************************************************************************)
(* The processor as the CMSIS headers show it: the interrupt numbers of    *)
(* CMSDK_CM3.h, the vector table of startup.c, the access functions of     *)
(* core_cm3.h to the interrupt controller and the system timer, and those  *)
(* of cmsis_gcc.h to the core registers.                                   *)
(*                                                                         *)
(* The registers are records.  A word of single bits is the set of the     *)
(* numbers of its bits that are 1; a priority register is a byte.  An      *)
(* exception has the number of its vector, an IRQn that number less 16.    *)
(***************************************************************************)
EXTENDS Integers, Sequences

CONSTANT
  PriorityStep  (* 2^( 8 - __NVIC_PRIO_BITS ), the lowest implemented bit    *)

PowerOf2 == <<1, 2, 4, 8, 16, 32, 64, 128, 256>>

ASSUME PriorityAssumption == PriorityStep \in {1, 2, 4, 8, 16, 32, 64, 128}

(* The interrupts and exceptions of the board, and the ones it takes.      *)
IRQn_Type == (-14 .. -10) \cup {-5, -4, -2, -1} \cup 0 .. 31
NonMaskableInt_IRQn == -14
HardFault_IRQn == -13
SVCall_IRQn == -5
PendSV_IRQn == -2
SysTick_IRQn == -1
ETHERNET_IRQn == 13

Exception(irq) == irq + 16
IRQ(e) == e - 16

isr_vectorShifted ==
  <<"Reset_Handler", "Default_Handler", "Default_Handler2",
    "Default_Handler3", "Default_Handler4", "Default_Handler5",
    "none", "none", "none", "none", "vPortSVCHandler", "Default_Handler6",
    "none", "xPortPendSVHandler", "xPortSysTickHandler",
    "none", "none", "none", "none", "none", "none", "none", "none", "none",
    "none", "none", "none", "none", "EthernetISR", "none">>
isr_vector ==
  <<"_estack", "Reset_Handler", "Default_Handler", "Default_Handler2",
    "Default_Handler3", "Default_Handler4", "Default_Handler5",
    "none", "none", "none", "none", "vPortSVCHandler", "Default_Handler6",
    "none", "xPortPendSVHandler", "xPortSysTickHandler",
    "none", "none", "none", "none", "none", "none", "none", "none", "none",
    "none", "none", "none", "none", "EthernetISR">>

(* __NVIC_GetVector() and __NVIC_SetVector(): the table starts at 0.       *)
GetVector(vectors, irq) == vectors[irq + 16 + 1]
SetVector(vectors, irq, handler) == [vectors EXCEPT ![irq + 16 + 1] = handler]
-------------------------------------------------------------------------------
(* The interrupt controller.  A one written to ISER, ICER, ISPR or ICPR    *)
(* sets or clears its bit, a zero leaves it alone.                         *)
RegisterFile(irqs) ==
  LET words == {irq \div 32 : irq \in irqs}
  IN  [ISER |-> [w \in words |-> {}], ISPR |-> [w \in words |-> {}],
       IABR |-> [w \in words |-> {}], IP |-> [irq \in irqs |-> 0],
       SHP |-> [i \in 0 .. 11 |-> 0], PRIGROUP |-> 0]

Word(irq) == irq \div 32
Bit(irq) == irq % 32

EnableIRQOthersLost(n, irq) ==
  IF irq >= 0 THEN [n EXCEPT !.ISER[Word(irq)] = {Bit(irq)}] ELSE n
EnableIRQ(n, irq) ==
  IF irq >= 0 THEN [n EXCEPT !.ISER[Word(irq)] = @ \cup {Bit(irq)}] ELSE n
DisableIRQ(n, irq) ==
  IF irq >= 0 THEN [n EXCEPT !.ISER[Word(irq)] = @ \ {Bit(irq)}] ELSE n
GetEnableIRQ(n, irq) == irq >= 0 /\ Bit(irq) \in n.ISER[Word(irq)]

SetPendingIRQ(n, irq) ==
  IF irq >= 0 THEN [n EXCEPT !.ISPR[Word(irq)] = @ \cup {Bit(irq)}] ELSE n
ClearPendingIRQ(n, irq) ==
  IF irq >= 0 THEN [n EXCEPT !.ISPR[Word(irq)] = @ \ {Bit(irq)}] ELSE n
GetPendingIRQ(n, irq) == irq >= 0 /\ Bit(irq) \in n.ISPR[Word(irq)]
(* What the hardware does when it takes an interrupt, and at its end.      *)
ActivateIRQ(n, irq) ==
  [ClearPendingIRQ(n, irq) EXCEPT !.IABR[Word(irq)] = @ \cup {Bit(irq)}]
DeactivateIRQ(n, irq) == [n EXCEPT !.IABR[Word(irq)] = @ \ {Bit(irq)}]
GetActive(n, irq) == irq >= 0 /\ Bit(irq) \in n.IABR[Word(irq)]

PriorityByte(priority) == (priority * PriorityStep) % 256
SystemHandler(irq) == (irq % 16) - 4

SetPriority(n, irq, priority) ==
  IF irq >= 0 THEN [n EXCEPT !.IP[irq] = PriorityByte(priority)]
  ELSE [n EXCEPT !.SHP[SystemHandler(irq)] = PriorityByte(priority)]
GetPriority(n, irq) ==
  (IF irq >= 0 THEN n.IP[irq] ELSE n.SHP[SystemHandler(irq)]) \div PriorityStep

(* A write to AIRCR without the key is ignored; its key reads differently. *)
VECTKEY == 1530
ReadAIRCR(n) == [VECTKEY |-> 64005, PRIGROUP |-> n.PRIGROUP, SYSRESETREQ |-> 0]
WriteAIRCR(n, aircr) ==
  IF aircr.VECTKEY = VECTKEY THEN [n EXCEPT !.PRIGROUP = aircr.PRIGROUP] ELSE n

SetPriorityGrouping(n, group) ==
  WriteAIRCR(n, [ReadAIRCR(n) EXCEPT !.VECTKEY = VECTKEY, !.PRIGROUP = group % 8])
GetPriorityGrouping(n) == ReadAIRCR(n).PRIGROUP
(* What NVIC_SystemReset() writes, before it waits for the reset.          *)
SystemReset(n) ==
  [VECTKEY |-> VECTKEY, PRIGROUP |-> GetPriorityGrouping(n), SYSRESETREQ |-> 1]

(* A priority with PriorityBits implemented bits, split by the grouping.   *)
PriorityBits == CHOOSE b \in 1 .. 8 : PowerOf2[9 - b] = PriorityStep
SubBits(group) ==
  IF (group % 8) + PriorityBits < 7 THEN 0
                                    ELSE (group % 8) + PriorityBits - 7
PreemptBits(group) ==
  IF 7 - (group % 8) > PriorityBits THEN PriorityBits ELSE 7 - (group % 8)

EncodePriorityUnmasked(group, preempt, sub) ==
  preempt * PowerOf2[SubBits(group) + 1] + sub
EncodePriority(group, preempt, sub) ==
  (preempt % PowerOf2[PreemptBits(group) + 1]) * PowerOf2[SubBits(group) + 1]
    + (sub % PowerOf2[SubBits(group) + 1])
DecodePriority(priority, group) ==
  <<(priority \div PowerOf2[SubBits(group) + 1])
      % PowerOf2[PreemptBits(group) + 1],
    priority % PowerOf2[SubBits(group) + 1]>>
-------------------------------------------------------------------------------
(* The core registers.  Code without privilege writes none of them,       *)
(* and reads zero from all but CONTROL.                                    *)
CoreReset ==
  [nPRIV |-> 0, SPSEL |-> 0, IPSR |-> 0, MSP |-> 0, PSP |-> 0,
   PRIMASK |-> 0, FAULTMASK |-> 0, BASEPRI |-> 0]

Privileged(cpu) == cpu.nPRIV = 0 \/ cpu.IPSR # 0
Written(cpu, new) == IF Privileged(cpu) THEN new ELSE cpu
ReadOf(cpu, value) == IF Privileged(cpu) THEN value ELSE 0

enable_irq(cpu) == Written(cpu, [cpu EXCEPT !.PRIMASK = 0])
disable_irq(cpu) == Written(cpu, [cpu EXCEPT !.PRIMASK = 1])
enable_fault_irq(cpu) == Written(cpu, [cpu EXCEPT !.FAULTMASK = 0])
disable_fault_irq(cpu) == Written(cpu, [cpu EXCEPT !.FAULTMASK = 1])

get_CONTROL(cpu) == cpu.nPRIV + 2 * cpu.SPSEL
set_CONTROL(cpu, control) ==
  Written(cpu, [cpu EXCEPT
                  !.nPRIV = control % 2,
                  !.SPSEL = IF cpu.IPSR = 0 THEN (control \div 2) % 2 ELSE @])

get_IPSR(cpu) == ReadOf(cpu, cpu.IPSR)
(* The status registers are words, as sets of bits; flags are those set.   *)
APSR == [N |-> 31, Z |-> 30, C |-> 29, V |-> 28, Q |-> 27]
get_APSR(flags) == {APSR[f] : f \in flags}
get_xPSR(cpu, flags) ==
  get_APSR(flags) \cup {b \in 0 .. 8 : (get_IPSR(cpu) \div PowerOf2[b + 1]) % 2 = 1}
get_PSP(cpu) == ReadOf(cpu, cpu.PSP)
set_PSPMain(cpu, top) == Written(cpu, [cpu EXCEPT !.MSP = top - (top % 4)])
set_PSP(cpu, top) == Written(cpu, [cpu EXCEPT !.PSP = top - (top % 4)])
get_MSP(cpu) == ReadOf(cpu, cpu.MSP)
set_MSP(cpu, top) == Written(cpu, [cpu EXCEPT !.MSP = top - (top % 4)])

get_PRIMASK(cpu) == ReadOf(cpu, cpu.PRIMASK)
set_PRIMASK(cpu, mask) == Written(cpu, [cpu EXCEPT !.PRIMASK = mask % 2])
get_FAULTMASK(cpu) == ReadOf(cpu, cpu.FAULTMASK)
set_FAULTMASK(cpu, mask) == Written(cpu, [cpu EXCEPT !.FAULTMASK = mask % 2])
get_BASEPRI(cpu) == ReadOf(cpu, cpu.BASEPRI)
(* The bits of a priority that are not implemented read as zero.          *)
Implemented(priority) == (priority % 256) - (priority % PriorityStep)
set_BASEPRI(cpu, priority) ==
  Written(cpu, [cpu EXCEPT !.BASEPRI = Implemented(priority)])
set_BASEPRI_MAXPlain(cpu, priority) == set_BASEPRI(cpu, priority)
set_BASEPRI_MAX(cpu, priority) ==
  IF Implemented(priority) # 0
       /\ (cpu.BASEPRI = 0 \/ Implemented(priority) < cpu.BASEPRI)
  THEN set_BASEPRI(cpu, priority) ELSE cpu

(* The priority an exception has and the one it must be below to preempt:  *)
(* sub-priorities do not count, and the fixed ones are below all others.   *)
GroupPriority(n, byte) == byte - (byte % PowerOf2[n.PRIGROUP + 2])
ExceptionPriority(n, e) ==
  IF e = Exception(NonMaskableInt_IRQn) THEN -2
  ELSE IF e = Exception(HardFault_IRQn) THEN -1
  ELSE IF e >= 16 THEN n.IP[IRQ(e)]
  ELSE n.SHP[e - 4]
ExceptionGroup(n, e) ==
  LET p == ExceptionPriority(n, e) IN IF p < 0 THEN p ELSE GroupPriority(n, p)

Masks(n, cpu, e) ==
  \/ cpu.PRIMASK = 1 /\ ExceptionGroup(n, e) >= 0
  \/ cpu.FAULTMASK = 1 /\ ExceptionGroup(n, e) >= -1
  \/ /\ cpu.BASEPRI # 0
     /\ ExceptionGroup(n, e) >= GroupPriority(n, cpu.BASEPRI)
-------------------------------------------------------------------------------
(* The system timer counts down from LOAD, when it has been at zero, and   *)
(* ticks when it gets to zero; a LOAD of zero stops it.                    *)
ReloadLimit == 16777216 (* 2^24 *)
SysTickStopped(val) ==
  [LOAD |-> 0, VAL |-> val, CLKSOURCE |-> 0, TICKINT |-> 0, ENABLE |-> 0, COUNTFLAG |-> 0]

Count(timer) ==
  IF timer.ENABLE = 0 THEN timer
  ELSE [timer EXCEPT !.VAL = IF @ = 0 THEN timer.LOAD ELSE @ - 1,
                     !.COUNTFLAG = IF timer.VAL = 1 THEN 1 ELSE 0]

(* The counter reloads from 24 bits, and a count of zero wraps around to   *)
(* one that does not fit.  Any write to VAL clears it.                     *)
SysTick_Config(n, timer, ticks) ==
  IF ticks = 0 \/ ticks - 1 > ReloadLimit - 1
  THEN [result |-> 1, nvic |-> n, timer |-> timer]
  ELSE [result |-> 0, nvic |-> SetPriority(n, SysTick_IRQn, 256 \div PriorityStep - 1),
        timer |-> [timer EXCEPT !.LOAD = ticks - 1, !.VAL = 0,
                                !.CLKSOURCE = 1, !.TICKINT = 1, !.ENABLE = 1]]
-------------------------------------------------------------------------------
(* Enabling, pending, taking, prioritising or vectoring one interrupt does *)
(* so, and leaves every other one as it was; exceptions of the system have *)
(* priorities and vectors only.                                            *)
TouchesOne(n, irq, other) ==
  /\ GetEnableIRQ(EnableIRQ(n, irq), other)
       <=> GetEnableIRQ(n, other) \/ (other = irq /\ irq >= 0)
  /\ GetEnableIRQ(DisableIRQ(n, irq), other) <=> GetEnableIRQ(n, other) /\ other # irq
  /\ GetPendingIRQ(SetPendingIRQ(n, irq), other)
       <=> GetPendingIRQ(n, other) \/ (other = irq /\ irq >= 0)
  /\ GetPendingIRQ(ClearPendingIRQ(n, irq), other) <=> GetPendingIRQ(n, other) /\ other # irq
  /\ irq >= 0 => (GetActive(ActivateIRQ(n, irq), other) <=> GetActive(n, other) \/ other = irq)
  /\ {irq + 17, other + 17} \subseteq DOMAIN isr_vector =>
       GetVector(SetVector(isr_vector, irq, "other"), other)
         = IF other = irq THEN "other" ELSE GetVector(isr_vector, other)

SetsOnePriority(n, irq, other, priority) ==
  GetPriority(SetPriority(n, irq, priority), other)
    = IF other = irq THEN priority ELSE GetPriority(n, other)

(* Priorities encoded for the grouping in force preempt one another as     *)
(* their first parts say, and decode to what was encoded, cut to its bits. *)
GroupsAgree(n, a, b) ==
  LET group == GetPriorityGrouping(n)
      byte(p) == PriorityByte(EncodePriority(group, p[1], p[2]))
      fits(p) == p[1] < PowerOf2[PreemptBits(group) + 1]
                   /\ p[2] < PowerOf2[SubBits(group) + 1]
  IN  /\ DecodePriority(EncodePriority(group, a[1], a[2]), group)
           = <<a[1] % PowerOf2[PreemptBits(group) + 1],
               a[2] % PowerOf2[SubBits(group) + 1]>>
      /\ fits(a) /\ fits(b) =>
           (GroupPriority(n, byte(a)) < GroupPriority(n, byte(b)) <=> a[1] < b[1])

(* Setting the group goes through, the request of a reset keeps it, and    *)
(* neither happens by writing back what was read.                          *)
KeepsGroup(n) ==
  /\ WriteAIRCR(n, SystemReset(n)) = n /\ SystemReset(n).SYSRESETREQ = 1
  /\ \A group \in 0 .. 9 :
       /\ GetPriorityGrouping(SetPriorityGrouping(n, group)) = group % 8
       /\ WriteAIRCR(n, [ReadAIRCR(n) EXCEPT !.PRIGROUP = group % 8]) = n

(* A period is accepted if the counter can hold it; nothing is changed     *)
(* otherwise.                                                              *)
TickAccepted(n, ticks) ==
  LET stopped == SysTickStopped(0)
      config == SysTick_Config(n, stopped, ticks)
  IN  IF ticks \in 1 .. ReloadLimit
      THEN config.result = 0 /\ config.timer.LOAD = ticks - 1
      ELSE config.result = 1 /\ config.nvic = n /\ config.timer = stopped

(* Whatever the counter held before, the first tick comes after that many  *)
(* counts, and then one every so many: after i counts the timer is as      *)
(* After says, which the counter goes through one by one.  (A period of    *)
(* one never ticks.)                                                       *)
After(n, ticks, before, i) ==
  [SysTick_Config(n, SysTickStopped(before), ticks).timer EXCEPT
     !.VAL = IF i % ticks = 0 THEN 0 ELSE ticks - (i % ticks),
     !.COUNTFLAG = IF i > 0 /\ i % ticks = 0 THEN 1 ELSE 0]

TicksEvery(n, ticks, before, i) ==
  /\ SysTick_Config(n, SysTickStopped(before), ticks).timer = After(n, ticks, before, 0)
  /\ Count(After(n, ticks, before, i)) = After(n, ticks, before, i + 1)

(* A context that get_...() has saved, written over another one: CONTROL   *)
(* comes last, as it may take the privilege away.                          *)
Restore(cpu, saved) ==
  set_CONTROL(
    set_BASEPRI(
      set_FAULTMASK(
        set_PRIMASK(
          set_PSP(set_MSP(cpu, get_MSP(saved)), get_PSP(saved)),
          get_PRIMASK(saved)),
        get_FAULTMASK(saved)),
      get_BASEPRI(saved)),
    get_CONTROL(saved))

(* With privilege a context that was saved with privilege is restored as   *)
(* it was; only a thread changes its stack.  A thread without privilege    *)
(* reaches nothing: neither the masks, nor the stacks, nor, by writing     *)
(* CONTROL, the privilege.                                                 *)
StackKept(cpu, saved) == IF get_IPSR(cpu) = 0 THEN saved.SPSEL ELSE cpu.SPSEL

KeepsContext(cpu, saved) ==
  IF Privileged(cpu)
  THEN /\ Privileged(saved) =>
            Restore(cpu, saved) =
              [saved EXCEPT !.IPSR = get_IPSR(cpu), !.SPSEL = StackKept(cpu, saved)]
       /\ get_FAULTMASK(disable_fault_irq(cpu)) = 1
       /\ enable_fault_irq(disable_fault_irq(cpu)) = enable_fault_irq(cpu)
  ELSE /\ Restore(cpu, saved) = cpu
       /\ disable_fault_irq(cpu) = cpu /\ enable_fault_irq(cpu) = cpu

(* The exception and the flags are both in xPSR, and neither hides the     *)
(* other: no two exceptions read alike.                                    *)
ReadsStatus(cpu, other, flags) ==
  LET word == get_xPSR(cpu, flags)
      number(w) == w \cap 0 .. 8
  IN  /\ {f \in DOMAIN APSR : APSR[f] \in word} = flags
      /\ number(word) = number(get_xPSR(other, {})) => get_IPSR(cpu) = get_IPSR(other)
===============================================================================
